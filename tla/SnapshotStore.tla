---------------------------- MODULE SnapshotStore ----------------------------
(***************************************************************************)
(* The quote history and the entries that live on it.  Scans append        *)
(* product_snapshots and record what they entered; the label job scores    *)
(* what is due from the stored quotes; every job compacts the history      *)
(* before it packs its state (state/retention.py).  When the pipeline      *)
(* resumes from an older state, the work of the runs in between is lost    *)
(* with their archives, and a recovery merges the archives back table by   *)
(* table (state/recovery.py).                                              *)
(*                                                                         *)
(* A row of product_snapshots is its product, the tick it was observed and *)
(* the tick of its quote, which may be older; a ledger entry is the        *)
(* product selected and the tick of its scan.  Prices do not appear.       *)
(***************************************************************************)
EXTENDS Integers, Sequences, FiniteSets

CONSTANTS
  Isins,         \* products
  Pool,          \* those a scan may evaluate and enter
  Batches,       \* the sets of products a fetch may return
  Alternatives,  \* the discarded alternatives an entry on a product names
  TicksPerDay,
  KeepDays,      \* rows younger than this are kept as they are
  HardDays,      \* rows older than this are deleted; 0 is never
  Horizon,       \* ticks from an entry to the day its exit is due
  Runner,        \* jobs run on a runner that starts from the packed state,
                 \* and not on a machine that keeps its state directory
  MaxTick,       \* bound: time modelled
  MaxLosses,     \* bound: times the pipeline resumes from the older state
  MaxLateness    \* bound: ticks a quote is older than its observation

ASSUME StoreAssumption ==
  /\ IsFiniteSet(Isins)
  /\ Pool \subseteq Isins /\ Batches \subseteq SUBSET Isins
  /\ Alternatives \in [Isins -> SUBSET Isins]
  /\ TicksPerDay \in Nat \ {0}
  /\ KeepDays \in Nat \ {0}
  /\ HardDays \in Nat /\ (HardDays = 0 \/ HardDays > KeepDays)
  /\ Horizon \in Nat
  /\ Runner \in BOOLEAN
  /\ MaxTick \in Nat /\ MaxLosses \in Nat /\ MaxLateness \in Nat

VARIABLES
  now,      \* the current tick
  scanned,  \* the tick has had its observation
  db,       \* the working database
  packed,   \* the state the next job restores
  base,     \* the older state the pipeline may fall back to, or NoState
  lost,     \* archives of states it left behind, oldest first
  job,      \* the step the running job is at
  merge     \* table merges done by the running recovery

vars == <<now, scanned, db, packed, base, lost, job, merge>>

Ticks   == 0..MaxTick
Day(t)  == t \div TicksPerDay
Rows    == [isin : Isins, seen : Ticks, quote : (0 - MaxLateness)..MaxTick]
Entries == [isin : Isins, at : Ticks]

NoState == [state |-> "none"]

(* Mutant: no order between a table and those that refer to it.            *)
UnsortedTables == <<"ledger_labels", "shadow_portfolio", "product_snapshots", "forward_ledger">>

Tables == <<"forward_ledger", "ledger_labels", "product_snapshots", "shadow_portfolio">>

Jobs == {"idle", "record", "shadow", "archive", "compact", "drop", "rename",
         "rewrite", "pack", "merge", "merged"}

(* A database: product_snapshots, the table compaction builds, the ledger, *)
(* the entries of it whose status is open, their labels, the baseline      *)
(* arms; and two records of what was ever in it: owed, the rows of a       *)
(* followed product since it is followed, and ever, all rows.  A table     *)
(* that is missing counts as empty: every command opens the database with  *)
(* init_schema, which creates it.                                          *)
Databases ==
  [quotes : SUBSET Rows, compact : SUBSET Rows,
   ledger : SUBSET Entries, open : SUBSET Entries, labels : SUBSET Entries,
   shadows : SUBSET Entries, owed : SUBSET Rows, ever : SUBSET Rows]

TypeOK ==
  /\ now \in Ticks
  /\ scanned \in BOOLEAN
  /\ db \in Databases /\ packed \in Databases
  /\ base \in Databases \cup {NoState}
  /\ lost \in Seq(Databases) /\ Len(lost) =< MaxLosses
  /\ job \in Jobs
  /\ merge \in 0..(Len(lost) * Len(Tables))
  /\ db.open \subseteq db.ledger /\ db.labels \subseteq db.ledger

EmptyDatabase ==
  [quotes |-> {}, compact |-> {}, ledger |-> {}, open |-> {}, labels |-> {},
   shadows |-> {}, owed |-> {}, ever |-> {}]

Init ==
  /\ now = 0
  /\ scanned = FALSE
  /\ db = EmptyDatabase
  /\ packed = EmptyDatabase
  /\ base = NoState
  /\ lost = <<>>
  /\ job = "idle"
  /\ merge = 0

-----------------------------------------------------------------------------
(* What is owed: the complete path of every product the labeler will read. *)

Named(entries) == UNION {{e.isin} \cup Alternatives[e.isin] : e \in entries}

Followed(d) == Named(d.ledger) \cup {s.isin : s \in d.shadows}

Noted(d) ==
  [d EXCEPT !.owed = @ \cup {r \in d.quotes : r.isin \in Followed(d)},
            !.ever = @ \cup d.quotes]

-----------------------------------------------------------------------------
(* A scan: append the products' snapshots, then the entries of what was    *)
(* evaluated, then the baseline arms drawn from the same evaluation.       *)

Observed(S, late) == {[isin |-> p, seen |-> now, quote |-> now - late] : p \in S}

Priced(d) == {r.isin : r \in {x \in d.quotes : x.seen = now}}

ScanProducts(S, late) ==
  /\ job = "idle"
  /\ ~scanned
  /\ db' = Noted([db EXCEPT !.quotes = @ \cup Observed(S, late)])
  /\ scanned' = TRUE
  /\ job' = "record"
  /\ UNCHANGED <<now, packed, base, lost, merge>>

RecordLedger(E) ==
  /\ job = "record"
  /\ E \subseteq [isin : Priced(db) \cap Pool, at : {now}]
  /\ db' = Noted([db EXCEPT !.ledger = @ \cup E, !.open = @ \cup E])
  /\ job' = "shadow"
  /\ UNCHANGED <<now, scanned, packed, base, lost, merge>>

(* Mutant: the arms are drawn from all products priced.                    *)
ShadowAnyPriced(A) ==
  /\ job = "shadow"
  /\ A \subseteq [isin : Priced(db), at : {now}]
  /\ db' = Noted([db EXCEPT !.shadows = @ \cup A])
  /\ job' = "compact"
  /\ UNCHANGED <<now, scanned, packed, base, lost, merge>>

AppendShadows(A) ==
  /\ job = "shadow"
  /\ LET evaluated == {e \in db.ledger : e.at = now}
     IN A \subseteq evaluated /\ (A = {} => evaluated = {})
  /\ db' = Noted([db EXCEPT !.shadows = @ \cup A])
  /\ job' = "compact"
  /\ UNCHANGED <<now, scanned, packed, base, lost, merge>>

-----------------------------------------------------------------------------
(* The end of the day: label what is due, archive all products.            *)

Due == {e \in db.open : e.at + Horizon =< now}

Evening == now % TicksPerDay = TicksPerDay - 1

LabelDue ==
  /\ job = "idle"
  /\ Evening
  /\ Due \cap db.labels = {}
  /\ db' = [db EXCEPT !.labels = @ \cup Due, !.open = @ \ Due]
  /\ job' = "archive"
  /\ UNCHANGED <<now, scanned, packed, base, lost, merge>>

(* attach_ledger_label raises at the first entry that has a label already; *)
(* the job fails and packs nothing.                                        *)
LabelRaises(done) ==
  /\ job = "idle"
  /\ Evening
  /\ Due \cap db.labels # {}
  /\ done \subseteq Due \ db.labels
  /\ db' = IF Runner THEN packed
           ELSE [db EXCEPT !.labels = @ \cup done, !.open = @ \ done]
  /\ UNCHANGED <<now, scanned, packed, base, lost, job, merge>>

ArchiveProducts(S, late) ==
  /\ job = "archive"
  /\ db' = IF scanned THEN db ELSE Noted([db EXCEPT !.quotes = @ \cup Observed(S, late)])
  /\ scanned' = TRUE
  /\ job' = "compact"
  /\ UNCHANGED <<now, packed, base, lost, merge>>

-----------------------------------------------------------------------------
(* turboedge db compact.                                                   *)

KeepCutoff == now - KeepDays * TicksPerDay
HardCutoff == IF HardDays = 0 THEN 0 ELSE now - HardDays * TicksPerDay

SameDay(r, s) == r.isin = s.isin /\ Day(r.quote) = Day(s.quote)

(* A ranking puts one of the rows with the last quote of a product's day   *)
(* first; which of several is the engine's choice.                         *)
LastQuotes(rows) == {r \in rows : \A s \in rows : SameDay(r, s) => s.quote =< r.quote}

IsRanking(firsts, rows) ==
  \A r \in LastQuotes(rows) : \E s \in firsts : SameDay(r, s) /\ \A t \in firsts : SameDay(s, t) => s = t

(* _forward_ledger_isin_subquery: the products whose rows are protected.   *)
Protected(d) == Named(d.ledger)

(* Mutant: zero days are not taken for never.                              *)
NoneIsZero(d, firsts) ==
  {r \in d.quotes : \/ r.isin \in Protected(d)
                    \/ r.seen >= KeepCutoff
                    \/ r \in firsts /\ r.seen >= now - HardDays * TicksPerDay}

Survivors(d, firsts) ==
  {r \in d.quotes : \/ r.isin \in Protected(d)
                    \/ r.seen >= KeepCutoff
                    \/ r \in firsts /\ r.seen >= HardCutoff}

Rebuild(firsts) ==
  /\ job = "compact"
  /\ firsts \subseteq LastQuotes(db.quotes)
  /\ IsRanking(firsts, db.quotes)
  /\ db' = [db EXCEPT !.compact = Survivors(db, firsts)]
  /\ job' = "drop"
  /\ UNCHANGED <<now, scanned, packed, base, lost, merge>>

DropOld ==
  /\ job = "drop"
  /\ db' = [db EXCEPT !.quotes = {}]
  /\ job' = "rename"
  /\ UNCHANGED <<now, scanned, packed, base, lost, merge>>

Rename ==
  /\ job = "rename"
  /\ db' = [db EXCEPT !.quotes = db.compact, !.compact = {}]
  /\ job' = "rewrite"
  /\ UNCHANGED <<now, scanned, packed, base, lost, merge>>

(* The file is copied, and the copy replaces it if it has as many rows in  *)
(* every table.  A copy may lack rows.                                     *)
Verified(copy, rows) == Cardinality(copy) = Cardinality(rows)

Rewrite(lacking) ==
  /\ job = "rewrite"
  /\ LET copy == db.quotes \ lacking
     IN db' = IF Verified(copy, db.quotes) THEN [db EXCEPT !.quotes = copy] ELSE db
  /\ job' = "pack"
  /\ UNCHANGED <<now, scanned, packed, base, lost, merge>>

-----------------------------------------------------------------------------
(* The pipeline around the jobs.                                           *)

Pack ==
  /\ job \in {"pack", "merged"}
  /\ packed' = db
  /\ job' = "idle"
  /\ merge' = 0
  /\ UNCHANGED <<now, scanned, db, base, lost>>

(* A job dies: the runner's next job starts from the packed state, another *)
(* machine's from what is in its directory.                                *)
Fallback == IF Runner THEN packed ELSE db

Crash ==
  /\ job \notin {"idle", "merge", "merged"}
  /\ db' = Fallback
  /\ packed' = Fallback
  /\ job' = "idle"
  /\ UNCHANGED <<now, scanned, base, lost, merge>>

Tick ==
  /\ job = "idle"
  /\ now < MaxTick
  /\ now' = now + 1
  /\ scanned' = FALSE
  /\ UNCHANGED <<db, packed, base, lost, job, merge>>

(* The state of a run stays within reach ...                               *)
KeepBase ==
  /\ job = "idle"
  /\ base = NoState /\ lost = <<>>
  /\ base' = packed
  /\ UNCHANGED <<now, scanned, db, packed, lost, job, merge>>

(* ... and the pipeline resumes from it, as on 2026-10-24: what it packed  *)
(* since lies in an archive of its own.                                    *)
ResumeFromBase ==
  /\ job = "idle"
  /\ base # NoState
  /\ Len(lost) < MaxLosses
  /\ lost' = Append(lost, packed)
  /\ packed' = base
  /\ db' = base
  /\ base' = IF Len(lost) + 1 = MaxLosses THEN NoState ELSE base
  /\ UNCHANGED <<now, scanned, job, merge>>

-----------------------------------------------------------------------------
(* Recovery: every archive, oldest first, table by table.                  *)

StartMerge ==
  /\ job = "idle"
  /\ lost # <<>>
  /\ job' = "merge"
  /\ merge' = 0
  /\ UNCHANGED <<now, scanned, db, packed, base, lost>>

(* Mutant: a snapshot is identified by its product and its quote.          *)
SameQuote(c, r) == c.isin = r.isin /\ c.quote = r.quote

SameSnapshot(c, r) == c.isin = r.isin /\ c.seen = r.seen

(* Only rows whose key the database lacks are inserted, so an entry that   *)
(* is here already keeps its status.                                       *)
Merged(d, a, table) ==
  Noted(CASE table = "forward_ledger" ->
               [d EXCEPT !.ledger = @ \cup a.ledger, !.open = @ \cup (a.open \ d.ledger)]
          [] table = "ledger_labels" -> [d EXCEPT !.labels = @ \cup a.labels]
          [] table = "product_snapshots" ->
               [d EXCEPT !.quotes = @ \cup {r \in a.quotes : ~\E c \in d.quotes : SameSnapshot(c, r)}]
          [] table = "shadow_portfolio" -> [d EXCEPT !.shadows = @ \cup a.shadows])

MergeTable ==
  /\ job = "merge"
  /\ merge < Len(lost) * Len(Tables)
  /\ db' = Merged(db, lost[(merge \div Len(Tables)) + 1], Tables[(merge % Len(Tables)) + 1])
  /\ merge' = merge + 1
  /\ UNCHANGED <<now, scanned, packed, base, lost, job>>

EndMerge ==
  /\ job = "merge"
  /\ merge = Len(lost) * Len(Tables)
  /\ job' = "merged"
  /\ UNCHANGED <<now, scanned, db, packed, base, lost, merge>>

(* A recovery may run on either machine; what it inserted so far stays, or *)
(* is gone with the runner.                                                *)
MergeCrashes ==
  /\ job \in {"merge", "merged"}
  /\ \E d \in {db, packed} : db' = d /\ packed' = d
  /\ job' = "idle"
  /\ merge' = 0
  /\ UNCHANGED <<now, scanned, base, lost>>

Lateness == 0..MaxLateness

Next ==
  \/ \E S \in Batches, late \in Lateness :
       ScanProducts(S, late) \/ ArchiveProducts(S, late)
  \/ \E E \in SUBSET [isin : Isins, at : {now}] : RecordLedger(E) \/ AppendShadows(E)
  \/ LabelDue
  \/ \E done \in SUBSET db.open : LabelRaises(done)
  \/ \E firsts \in SUBSET (IF job = "compact" THEN LastQuotes(db.quotes) ELSE {}) : Rebuild(firsts)
  \/ DropOld
  \/ Rename
  \/ \E lacking \in {{}} \cup {{r} : r \in IF job = "rewrite" THEN db.quotes ELSE {}} : Rewrite(lacking)
  \/ Pack
  \/ Crash
  \/ Tick
  \/ KeepBase
  \/ ResumeFromBase
  \/ StartMerge
  \/ MergeTable
  \/ EndMerge
  \/ MergeCrashes

Spec == Init /\ [][Next]_vars

-----------------------------------------------------------------------------
(* Properties.                                                             *)

(* retention.py: the quotes of every product a ledger entry or a baseline  *)
(* arm follows are complete from then on, whatever is compacted, copied,   *)
(* interrupted, left behind and merged back.                               *)
PathsAreKept == db.owed \subseteq IF job = "rename" THEN db.compact ELSE db.quotes

(* retention.py: the history of a product of the ledger is "never thinned  *)
(* or deleted, however old": it is in the table or in its rebuilt copy.    *)
HistoryIsSomewhere == db.owed \subseteq db.quotes \cup db.compact

(* Thinning leaves every product a quote of every day it was ever quoted   *)
(* on, as long as the rows of the day are too young to be deleted.         *)
DaysAreRepresented ==
  job # "rename" =>
    \A r \in db.ever :
      (\A s \in db.ever : SameDay(r, s) => s.seen >= HardCutoff)
      => \E s \in db.quotes : SameDay(r, s)

(* A recovery that ends, after whatever interruptions, has brought back    *)
(* all that the archives hold.                                             *)
RecoveryIsComplete ==
  job = "merged" =>
    \A i \in 1..Len(lost) :
      /\ lost[i].quotes \subseteq db.quotes
      /\ lost[i].ledger \subseteq db.ledger
      /\ lost[i].labels \subseteq db.labels
      /\ lost[i].shadows \subseteq db.shadows

(* docs/state_recovery: after the merge the labeler is run again.          *)
RecoveredStateCanBeLabeled == Due \cap db.labels = {}
=============================================================================
