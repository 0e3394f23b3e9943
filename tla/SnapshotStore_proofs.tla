------------------------ MODULE SnapshotStore_proofs ------------------------
(***************************************************************************)
(* The quote history for any products, days, cut-offs and losses: what a   *)
(* followed product's path loses to compaction, copies, interruptions and  *)
(* merges is nothing, as long as jobs run on a runner, and a recovery that *)
(* ends has brought everything back.                                       *)
(***************************************************************************)
EXTENDS SnapshotStore, FiniteSetTheorems, WellFoundedInduction, TLAPS

-----------------------------------------------------------------------------
(* Types.                                                                  *)

LEMMA RowsAreFinite == IsFiniteSet(Rows)
<1> DEFINE Quoted == (0 - MaxLateness)..MaxTick
           Keys   == (Isins \X Ticks) \X Quoted
           f      == [r \in Rows |-> <<<<r.isin, r.seen>>, r.quote>>]
<1>1. IsFiniteSet(Isins) /\ IsFiniteSet(Ticks) /\ IsFiniteSet(Quoted)
  BY StoreAssumption, FS_Interval DEF Ticks
<1>2. IsFiniteSet(Isins \X Ticks)
  BY <1>1, FS_Product
<1>3. IsFiniteSet(Keys)
  BY <1>1, <1>2, FS_Product
<1>4. f \in Injection(Rows, Keys)
  BY DEF Injection, IsInjective, Rows
<1> HIDE DEF f, Keys
<1> QED BY <1>3, <1>4, FS_Injection

(* A copy with as many rows is the table.                                  *)
LEMMA VerifiedIsEqual ==
  ASSUME NEW rows \in SUBSET Rows, NEW copy \in SUBSET rows, Verified(copy, rows)
  PROVE  copy = rows
<1>1. IsFiniteSet(rows)
  BY RowsAreFinite, FS_Subset
<1> QED BY <1>1, FS_Subset DEF Verified

LEMMA NotedType ==
  ASSUME NEW d \in Databases
  PROVE  /\ Noted(d) \in Databases
         /\ Noted(d).quotes = d.quotes /\ Noted(d).compact = d.compact
         /\ Noted(d).ledger = d.ledger /\ Noted(d).open = d.open
         /\ Noted(d).labels = d.labels /\ Noted(d).shadows = d.shadows
         /\ Noted(d).owed = d.owed \cup {r \in d.quotes : r.isin \in Followed(d)}
         /\ Noted(d).ever = d.ever \cup d.quotes
  BY DEF Noted, Databases

LEMMA ObservedType ==
  ASSUME NEW S \in Batches, NEW late \in Lateness, now \in Ticks
  PROVE  Observed(S, late) \subseteq Rows
  BY StoreAssumption DEF Observed, Rows, Lateness, Ticks

(* All databases: the working one, the packed one, the one to fall back    *)
(* to, and the archives.                                                   *)
Kept == {db, packed} \cup ({base} \ {NoState}) \cup {lost[i] : i \in 1..Len(lost)}

(* Labels and baseline arms are of entries of the ledger.                  *)
Sound(d) ==
  /\ d \in Databases
  /\ d.open \subseteq d.ledger
  /\ d.labels \subseteq d.ledger
  /\ d.shadows \subseteq d.ledger

HasTable(d, a, table) ==
  CASE table = "forward_ledger"    -> a.ledger \subseteq d.ledger
    [] table = "ledger_labels"     -> a.labels \subseteq d.labels
    [] table = "product_snapshots" -> a.quotes \subseteq d.quotes
    [] table = "shadow_portfolio"  -> a.shadows \subseteq d.shadows

(* The merges done so far are there: what makes labels and arms, merged    *)
(* later, fall on entries that are there.                                  *)
MergeProgress ==
  job \in {"merge", "merged"} =>
    \A j \in 0..(merge - 1) :
      HasTable(db, lost[(j \div 4) + 1], Tables[(j % 4) + 1])

(* One observation a product and tick, in all databases together: what     *)
(* makes the key of the merge identify a row.                              *)
Known == UNION {d.quotes \cup d.compact : d \in Kept}

OneObservation ==
  /\ \A r \in Known : r.seen =< now /\ (~scanned => r.seen < now)
  /\ \A r, s \in Known : SameSnapshot(r, s) => r = s

IInv ==
  /\ TypeOK
  /\ \A d \in Kept : Sound(d)
  /\ MergeProgress
  /\ OneObservation
  /\ job = "merged" => merge = 4 * Len(lost)

-----------------------------------------------------------------------------
(* Steps that put nothing new into the databases.                          *)

LEMMA KeptRows ==
  ASSUME NEW d \in Kept
  PROVE  d.quotes \subseteq Known /\ d.compact \subseteq Known
  BY DEF Known

LEMMA KeptStates ==
  /\ db \in Kept /\ packed \in Kept
  /\ base # NoState => base \in Kept
  /\ \A i \in 1..Len(lost) : lost[i] \in Kept
  BY DEF Kept

LEMMA OldRows ==
  ASSUME OneObservation, Kept' \subseteq Kept \cup {db'},
         db'.quotes \cup db'.compact \subseteq Known,
         now' = now, scanned' = scanned
  PROVE  OneObservation'
<1>1. Known' \subseteq Known
  BY DEF Known
<1> QED BY <1>1 DEF OneObservation, SameSnapshot

LEMMA NewRows ==
  ASSUME OneObservation, TypeOK, ~scanned, NEW S \in Batches, NEW late \in Lateness,
         Kept' \subseteq Kept \cup {db'},
         db'.quotes \cup db'.compact \subseteq Known \cup Observed(S, late),
         now' = now, scanned' = TRUE
  PROVE  OneObservation'
<1>1. Known' \subseteq Known \cup Observed(S, late)
  BY DEF Known
<1>2. \A r \in Observed(S, late) : r.seen = now
  BY DEF Observed
<1>3. \A r, s \in Observed(S, late) : SameSnapshot(r, s) => r = s
  BY DEF Observed, SameSnapshot
<1>4. now \in Int
  BY DEF TypeOK, Ticks
<1>5. \A r \in Known : r.seen =< now /\ r.seen < now /\ r.seen # now
  BY <1>4 DEF OneObservation
<1>6. (\A r \in Known : r.seen =< now /\ (~scanned => r.seen < now))'
  BY <1>1, <1>2, <1>4, <1>5
<1>7. (\A r, s \in Known : SameSnapshot(r, s) => r = s)'
  BY <1>1, <1>2, <1>3, <1>5 DEF OneObservation, SameSnapshot
<1> QED BY <1>6, <1>7 DEF OneObservation

LEMMA Positions ==
  /\ Len(Tables) = 4
  /\ \A n \in Nat : \A j \in 0..(4 * n - 1) : ((j \div 4) + 1) \in 1..n /\ ((j % 4) + 1) \in 1..4
  /\ \A j \in Nat : Tables[(j % 4) + 1] = CASE j % 4 = 0 -> "forward_ledger"
                                           [] j % 4 = 1 -> "ledger_labels"
                                           [] j % 4 = 2 -> "product_snapshots"
                                           [] j % 4 = 3 -> "shadow_portfolio"
<1>1. Len(Tables) = 4
  BY DEF Tables
<1>2. ASSUME NEW n \in Nat, NEW j \in 0..(4 * n - 1)
      PROVE  ((j \div 4) + 1) \in 1..n /\ ((j % 4) + 1) \in 1..4
  OBVIOUS
<1>3. ASSUME NEW j \in Nat
      PROVE  Tables[(j % 4) + 1] = CASE j % 4 = 0 -> "forward_ledger"
                                     [] j % 4 = 1 -> "ledger_labels"
                                     [] j % 4 = 2 -> "product_snapshots"
                                     [] j % 4 = 3 -> "shadow_portfolio"
  <2>1. j % 4 \in 0..3
    OBVIOUS
  <2> QED BY <2>1 DEF Tables
<1> QED BY <1>1, <1>2, <1>3

(* What a merge of one table adds, and that it takes nothing away.         *)
LEMMA MergedTable ==
  ASSUME NEW d, NEW a, Sound(d), Sound(a), NEW k \in 1..4,
         k \in {2, 4} => a.ledger \subseteq d.ledger
  PROVE  LET e == Merged(d, a, Tables[k])
         IN  /\ Sound(e)
             /\ d.quotes \subseteq e.quotes /\ e.quotes \subseteq d.quotes \cup a.quotes
             /\ e.compact = d.compact
             /\ d.ledger \subseteq e.ledger /\ d.labels \subseteq e.labels
             /\ d.shadows \subseteq e.shadows
             /\ e.owed = d.owed \cup {r \in e.quotes : r.isin \in Followed(e)}
             /\ e.ever = d.ever \cup e.quotes
<1> DEFINE e == Merged(d, a, Tables[k])
<1> USE DEF Sound
<1>1. CASE k = 1
  <2> DEFINE x == [d EXCEPT !.ledger = @ \cup a.ledger, !.open = @ \cup (a.open \ d.ledger)]
  <2>1. e = Noted(x)
    BY <1>1 DEF Merged, Tables
  <2>2. /\ x \in Databases /\ x.quotes = d.quotes /\ x.compact = d.compact /\ x.owed = d.owed /\ x.ever = d.ever
        /\ x.ledger = d.ledger \cup a.ledger /\ x.open = d.open \cup (a.open \ d.ledger)
        /\ x.labels = d.labels /\ x.shadows = d.shadows
    BY DEF Databases
  <2>3. Followed(e) = Followed(x)
    BY <2>1, <2>2, NotedType DEF Followed
  <2> HIDE DEF x
  <2> QED BY <2>1, <2>2, <2>3, NotedType
<1>2. CASE k = 2
  <2> DEFINE x == [d EXCEPT !.labels = @ \cup a.labels]
  <2>1. e = Noted(x)
    BY <1>2 DEF Merged, Tables
  <2>2. /\ x \in Databases /\ x.quotes = d.quotes /\ x.compact = d.compact /\ x.owed = d.owed /\ x.ever = d.ever
        /\ x.ledger = d.ledger /\ x.open = d.open
        /\ x.labels = d.labels \cup a.labels /\ x.shadows = d.shadows
    BY DEF Databases
  <2>3. Followed(e) = Followed(x)
    BY <2>1, <2>2, NotedType DEF Followed
  <2> HIDE DEF x
  <2> QED BY <1>2, <2>1, <2>2, <2>3, NotedType
<1>3. CASE k = 3
  <2> DEFINE new == {r \in a.quotes : ~\E c \in d.quotes : SameSnapshot(c, r)}
             x == [d EXCEPT !.quotes = @ \cup new]
  <2>1. e = Noted(x)
    BY <1>3 DEF Merged, Tables
  <2>2. /\ x \in Databases /\ x.quotes = d.quotes \cup new /\ x.compact = d.compact
        /\ x.owed = d.owed /\ x.ever = d.ever /\ x.ledger = d.ledger /\ x.open = d.open
        /\ x.labels = d.labels /\ x.shadows = d.shadows
    BY DEF Databases
  <2>3. Followed(e) = Followed(x)
    BY <2>1, <2>2, NotedType DEF Followed
  <2>4. new \subseteq a.quotes
    OBVIOUS
  <2> HIDE DEF x, new
  <2> QED BY <2>1, <2>2, <2>3, <2>4, NotedType
<1>4. CASE k = 4
  <2> DEFINE x == [d EXCEPT !.shadows = @ \cup a.shadows]
  <2>1. e = Noted(x)
    BY <1>4 DEF Merged, Tables
  <2>2. /\ x \in Databases /\ x.quotes = d.quotes /\ x.compact = d.compact /\ x.owed = d.owed /\ x.ever = d.ever
        /\ x.ledger = d.ledger /\ x.open = d.open
        /\ x.labels = d.labels /\ x.shadows = d.shadows \cup a.shadows
    BY DEF Databases
  <2>3. Followed(e) = Followed(x)
    BY <2>1, <2>2, NotedType DEF Followed
  <2> HIDE DEF x
  <2> QED BY <1>4, <2>1, <2>2, <2>3, NotedType
<1> QED BY <1>1, <1>2, <1>3, <1>4

LEMMA MergedHasTable ==
  ASSUME NEW d, NEW a, Sound(d), Sound(a), NEW k \in 1..4,
         \A r \in a.quotes, c \in d.quotes : SameSnapshot(c, r) => c = r
  PROVE  HasTable(Merged(d, a, Tables[k]), a, Tables[k])
<1> USE DEF Sound
<1>1. CASE k = 1
  <2> DEFINE x == [d EXCEPT !.ledger = @ \cup a.ledger, !.open = @ \cup (a.open \ d.ledger)]
  <2>1. x \in Databases /\ x.ledger = d.ledger \cup a.ledger
    BY DEF Databases
  <2> HIDE DEF x
  <2>2. Noted(x).ledger = x.ledger
    BY <2>1, NotedType
  <2> QED BY <1>1, <2>1, <2>2 DEF Merged, Tables, HasTable, x
<1>2. CASE k = 2
  <2> DEFINE x == [d EXCEPT !.labels = @ \cup a.labels]
  <2>1. x \in Databases /\ x.labels = d.labels \cup a.labels
    BY DEF Databases
  <2> HIDE DEF x
  <2>2. Noted(x).labels = x.labels
    BY <2>1, NotedType
  <2> QED BY <1>2, <2>1, <2>2 DEF Merged, Tables, HasTable, x
<1>3. CASE k = 3
  <2> DEFINE new == {r \in a.quotes : ~\E c \in d.quotes : SameSnapshot(c, r)}
             x == [d EXCEPT !.quotes = @ \cup new]
  <2>1. x \in Databases /\ x.quotes = d.quotes \cup new
    BY DEF Databases
  <2>2. a.quotes \subseteq d.quotes \cup new
    OBVIOUS
  <2> HIDE DEF x
  <2>3. Noted(x).quotes = x.quotes
    BY <2>1, NotedType
  <2> QED BY <1>3, <2>1, <2>2, <2>3 DEF Merged, Tables, HasTable, x
<1>4. CASE k = 4
  <2> DEFINE x == [d EXCEPT !.shadows = @ \cup a.shadows]
  <2>1. x \in Databases /\ x.shadows = d.shadows \cup a.shadows
    BY DEF Databases
  <2> HIDE DEF x
  <2>2. Noted(x).shadows = x.shadows
    BY <2>1, NotedType
  <2> QED BY <1>4, <2>1, <2>2 DEF Merged, Tables, HasTable, x
<1> QED BY <1>1, <1>2, <1>3, <1>4

LEMMA HasTableKeeps ==
  ASSUME NEW d, NEW e, NEW a, NEW table \in {Tables[k] : k \in 1..4},
         d.quotes \subseteq e.quotes, d.ledger \subseteq e.ledger,
         d.labels \subseteq e.labels, d.shadows \subseteq e.shadows,
         HasTable(d, a, table)
  PROVE  HasTable(e, a, table)
<1>1. table \in {"forward_ledger", "ledger_labels", "product_snapshots", "shadow_portfolio"}
  BY DEF Tables
<1> QED BY <1>1 DEF HasTable

-----------------------------------------------------------------------------
(* The invariant is inductive.                                             *)

LEMMA InitInv == Init => IInv
<1> SUFFICES ASSUME Init PROVE IInv
  OBVIOUS
<1>1. Kept = {EmptyDatabase}
  BY DEF Init, Kept
<1>2. Sound(EmptyDatabase)
  BY DEF Sound, EmptyDatabase, Databases
<1>3. EmptyDatabase \in Databases
  BY <1>2 DEF Sound
<1>4. TypeOK
  <2>1. db.open \subseteq db.ledger /\ db.labels \subseteq db.ledger
    BY DEF Init, EmptyDatabase
  <2>2. now \in Ticks /\ lost \in Seq(Databases) /\ Len(lost) =< MaxLosses
        /\ merge \in 0..(Len(lost) * Len(Tables))
    BY StoreAssumption, Positions DEF Init, Ticks
  <2> QED BY <1>3, <2>1, <2>2 DEF TypeOK, Init, Jobs
<1>5. Known = {}
  BY <1>1 DEF Known, EmptyDatabase
<1> QED BY <1>1, <1>2, <1>4, <1>5 DEF IInv, MergeProgress, OneObservation, Init

(* A job works on the database alone.                                      *)
LEMMA JobStep ==
  ASSUME IInv, Sound(db'), job' \in Jobs \ {"merge", "merged"}, scanned' \in BOOLEAN,
         UNCHANGED <<now, packed, base, lost, merge>>, OneObservation'
  PROVE  IInv'
<1>1. Kept' \subseteq Kept \cup {db'}
  BY DEF Kept
<1>2. TypeOK'
  BY DEF IInv, TypeOK, Sound
<1> QED BY <1>1, <1>2 DEF IInv, MergeProgress

LEMMA Framed ==
  ASSUME UNCHANGED <<packed, base, lost>>
  PROVE  Kept' \subseteq Kept \cup {db'}
  BY DEF Kept

LEMMA ScanProductsInv ==
  ASSUME IInv, NEW S \in Batches, NEW late \in Lateness, ScanProducts(S, late)
  PROVE  IInv'
<1> DEFINE x == [db EXCEPT !.quotes = @ \cup Observed(S, late)]
<1>1. Sound(db) /\ now \in Ticks
  BY KeptStates DEF IInv, TypeOK
<1>2. /\ x \in Databases /\ x.quotes = db.quotes \cup Observed(S, late)
      /\ x.compact = db.compact /\ x.ledger = db.ledger /\ x.open = db.open
      /\ x.labels = db.labels /\ x.shadows = db.shadows
  BY <1>1, ObservedType DEF Sound, Databases
<1>3. db' = Noted(x)
  BY DEF ScanProducts
<1> HIDE DEF x
<1>4. Sound(db') /\ db'.quotes = db.quotes \cup Observed(S, late) /\ db'.compact = db.compact
  BY <1>1, <1>2, <1>3, NotedType DEF Sound
<1>5. db'.quotes \cup db'.compact \subseteq Known \cup Observed(S, late)
  BY <1>4, KeptStates, KeptRows
<1>6. OneObservation'
  BY <1>5, NewRows, Framed DEF IInv, ScanProducts
<1> QED BY <1>4, <1>6, JobStep DEF ScanProducts, Jobs

LEMMA ArchiveProductsInv ==
  ASSUME IInv, NEW S \in Batches, NEW late \in Lateness, ArchiveProducts(S, late)
  PROVE  IInv'
<1> DEFINE x == [db EXCEPT !.quotes = @ \cup Observed(S, late)]
<1>1. Sound(db) /\ now \in Ticks
  BY KeptStates DEF IInv, TypeOK
<1>2. /\ x \in Databases /\ x.quotes = db.quotes \cup Observed(S, late)
      /\ x.compact = db.compact /\ x.ledger = db.ledger /\ x.open = db.open
      /\ x.labels = db.labels /\ x.shadows = db.shadows
  BY <1>1, ObservedType DEF Sound, Databases
<1>3. db' = IF scanned THEN db ELSE Noted(x)
  BY DEF ArchiveProducts
<1> HIDE DEF x
<1>4. CASE scanned
  <2>1. OneObservation'
    BY <1>3, <1>4, OldRows, Framed, KeptStates, KeptRows DEF IInv, ArchiveProducts, TypeOK
  <2> QED BY <1>1, <1>3, <1>4, <2>1, JobStep DEF ArchiveProducts, Jobs
<1>5. CASE ~scanned
  <2>1. Sound(db') /\ db'.quotes = db.quotes \cup Observed(S, late) /\ db'.compact = db.compact
    BY <1>1, <1>2, <1>3, <1>5, NotedType DEF Sound
  <2>2. db'.quotes \cup db'.compact \subseteq Known \cup Observed(S, late)
    BY <2>1, KeptStates, KeptRows
  <2>3. OneObservation'
    BY <1>5, <2>2, NewRows, Framed DEF IInv, ArchiveProducts
  <2> QED BY <2>1, <2>3, JobStep DEF ArchiveProducts, Jobs
<1> QED BY <1>4, <1>5 DEF IInv, TypeOK

(* Steps that write the database and leave it as sound as it was, with no  *)
(* row that was not in it.                                                 *)
LEMMA SameRows ==
  ASSUME IInv, Sound(db'), job' \in Jobs \ {"merge", "merged"},
         db'.quotes \subseteq db.quotes \cup db.compact, db'.compact \subseteq db.quotes \cup db.compact,
         UNCHANGED <<now, scanned, packed, base, lost, merge>>
  PROVE  IInv'
<1>1. db'.quotes \cup db'.compact \subseteq Known
  BY KeptStates, KeptRows
<1>2. OneObservation'
  BY <1>1, OldRows, Framed DEF IInv
<1> QED BY <1>2, JobStep DEF IInv, TypeOK

LEMMA RecordLedgerInv ==
  ASSUME IInv, NEW E \in SUBSET [isin : Isins, at : {now}], RecordLedger(E)
  PROVE  IInv'
<1> DEFINE x == [db EXCEPT !.ledger = @ \cup E, !.open = @ \cup E]
<1>1. Sound(db) /\ now \in Ticks
  BY KeptStates DEF IInv, TypeOK
<1>2. /\ x \in Databases /\ x.quotes = db.quotes /\ x.compact = db.compact
      /\ x.ledger = db.ledger \cup E /\ x.open = db.open \cup E
      /\ x.labels = db.labels /\ x.shadows = db.shadows
  BY <1>1 DEF Sound, Databases, Entries
<1>3. db' = Noted(x)
  BY DEF RecordLedger
<1> HIDE DEF x
<1>4. Sound(db') /\ db'.quotes = db.quotes /\ db'.compact = db.compact
  BY <1>1, <1>2, <1>3, NotedType DEF Sound
<1> QED BY <1>4, SameRows DEF RecordLedger, Jobs

LEMMA AppendShadowsInv ==
  ASSUME IInv, NEW A \in SUBSET [isin : Isins, at : {now}], AppendShadows(A)
  PROVE  IInv'
<1> DEFINE x == [db EXCEPT !.shadows = @ \cup A]
<1>1. Sound(db) /\ A \subseteq db.ledger
  BY KeptStates DEF IInv, AppendShadows
<1>2. /\ x \in Databases /\ x.quotes = db.quotes /\ x.compact = db.compact
      /\ x.ledger = db.ledger /\ x.open = db.open
      /\ x.labels = db.labels /\ x.shadows = db.shadows \cup A
  BY <1>1 DEF Sound, Databases
<1>3. db' = Noted(x)
  BY DEF AppendShadows
<1> HIDE DEF x
<1>4. Sound(db') /\ db'.quotes = db.quotes /\ db'.compact = db.compact
  BY <1>1, <1>2, <1>3, NotedType DEF Sound
<1> QED BY <1>4, SameRows DEF AppendShadows, Jobs

LEMMA LabelDueInv ==
  ASSUME IInv, LabelDue
  PROVE  IInv'
<1>1. Sound(db) /\ Due \subseteq db.ledger
  BY KeptStates DEF IInv, Due, Sound
<1>2. Sound(db') /\ db'.quotes = db.quotes /\ db'.compact = db.compact
  BY <1>1 DEF LabelDue, Sound, Databases
<1> QED BY <1>2, SameRows DEF LabelDue, Jobs

LEMMA CompactInv ==
  ASSUME IInv
  PROVE  /\ \A firsts : Rebuild(firsts) => IInv'
         /\ DropOld => IInv'
         /\ Rename => IInv'
<1> USE DEF Sound, Databases, Jobs
<1>1. Sound(db)
  BY KeptStates DEF IInv
<1>2. ASSUME NEW firsts, Rebuild(firsts) PROVE IInv'
  <2>1. Survivors(db, firsts) \subseteq db.quotes
    BY DEF Survivors
  <2>2. Sound(db') /\ db'.quotes = db.quotes /\ db'.compact = Survivors(db, firsts)
    BY <1>1, <1>2, <2>1 DEF Rebuild
  <2> QED BY <1>2, <2>1, <2>2, SameRows DEF Rebuild
<1>3. ASSUME DropOld PROVE IInv'
  <2>1. Sound(db') /\ db'.quotes = {} /\ db'.compact = db.compact
    BY <1>1, <1>3 DEF DropOld
  <2> QED BY <1>3, <2>1, SameRows DEF DropOld
<1>4. ASSUME Rename PROVE IInv'
  <2>1. Sound(db') /\ db'.quotes = db.compact /\ db'.compact = {}
    BY <1>1, <1>4 DEF Rename
  <2> QED BY <1>4, <2>1, SameRows DEF Rename
<1> QED BY <1>2, <1>3, <1>4

LEMMA RewriteInv ==
  ASSUME IInv, NEW lacking, Rewrite(lacking)
  PROVE  IInv' /\ db' = db
<1> DEFINE copy == db.quotes \ lacking
<1>1. Sound(db) /\ db.quotes \in SUBSET Rows /\ db \in Databases
  BY KeptStates DEF IInv, Sound, Databases
<1>2. Verified(copy, db.quotes) => copy = db.quotes
  BY <1>1, VerifiedIsEqual
<1>3. db' = IF Verified(copy, db.quotes) THEN [db EXCEPT !.quotes = copy] ELSE db
  BY DEF Rewrite
<1>4. db' = db
  BY <1>1, <1>2, <1>3 DEF Databases
<1> QED BY <1>1, <1>4, SameRows DEF Rewrite, Jobs

(* Steps that move databases between their places.                         *)
LEMMA PlaceStep ==
  ASSUME IInv, Kept' \subseteq Kept, job' \in Jobs \ {"merge", "merged"},
         UNCHANGED <<now, scanned>>, lost' \in Seq(Databases), Len(lost') =< MaxLosses,
         merge' \in 0..(4 * Len(lost')),
         base' \in Databases \cup {NoState}
  PROVE  IInv'
<1>1. \A d \in Kept' : Sound(d)
  BY DEF IInv
<1>2. Sound(db') /\ Sound(packed')
  BY <1>1 DEF Kept
<1>3. TypeOK'
  BY <1>2, Positions DEF IInv, TypeOK, Sound
<1>4. Known' \subseteq Known
  BY DEF Known
<1>5. OneObservation'
  BY <1>4 DEF IInv, OneObservation, SameSnapshot
<1> QED BY <1>1, <1>3, <1>5 DEF IInv, MergeProgress

LEMMA LabelRaisesInv ==
  ASSUME IInv, NEW done, LabelRaises(done)
  PROVE  IInv'
<1>1. CASE Runner
  <2>1. db' = packed
    BY <1>1 DEF LabelRaises
  <2>2. Kept' \subseteq Kept
    BY <2>1, KeptStates DEF LabelRaises, Kept
  <2> QED BY <2>2, PlaceStep, Positions DEF LabelRaises, IInv, TypeOK, Jobs
<1>2. CASE ~Runner
  <2>1. Sound(db) /\ done \subseteq db.ledger
    BY KeptStates DEF IInv, LabelRaises, Due, Sound
  <2>2. Sound(db') /\ db'.quotes = db.quotes /\ db'.compact = db.compact
    BY <1>2, <2>1 DEF LabelRaises, Sound, Databases
  <2> QED BY <2>2, SameRows DEF LabelRaises, Jobs
<1> QED BY <1>1, <1>2

LEMMA PipelineInv ==
  ASSUME IInv
  PROVE  Pack \/ Crash \/ KeepBase \/ ResumeFromBase \/ MergeCrashes => IInv'
<1> USE Positions DEF Jobs
<1>1. /\ lost \in Seq(Databases) /\ Len(lost) =< MaxLosses /\ merge \in 0..(4 * Len(lost))
      /\ base \in Databases \cup {NoState} /\ db \in Databases /\ packed \in Databases
      /\ Len(lost) \in Nat
  BY DEF IInv, TypeOK
<1>2. ASSUME Pack PROVE IInv'
  <2>1. Kept' \subseteq Kept
    BY <1>2 DEF Pack, Kept
  <2> QED BY <1>1, <1>2, <2>1, PlaceStep DEF Pack
<1>3. ASSUME Crash PROVE IInv'
  <2>1. Kept' \subseteq Kept
    BY <1>3 DEF Crash, Kept, Fallback
  <2> QED BY <1>1, <1>3, <2>1, PlaceStep DEF Crash
<1>4. ASSUME KeepBase PROVE IInv'
  <2>1. Kept' \subseteq Kept
    BY <1>4 DEF KeepBase, Kept
  <2> QED BY <1>1, <1>4, <2>1, PlaceStep DEF KeepBase
<1>5. ASSUME ResumeFromBase PROVE IInv'
  <2>1. /\ lost' \in Seq(Databases) /\ Len(lost') = Len(lost) + 1
        /\ \A i \in 1..Len(lost') : lost'[i] = IF i = Len(lost) + 1 THEN packed ELSE lost[i]
    BY <1>1, <1>5 DEF ResumeFromBase
  <2>2. \A i \in 1..Len(lost') : lost'[i] \in Kept
    BY <1>1, <2>1 DEF Kept
  <2>3. base \in Kept /\ base' \in {base, NoState} /\ db' = base /\ packed' = base
    BY <1>5 DEF ResumeFromBase, Kept
  <2>4. Kept' \subseteq Kept
    BY <2>2, <2>3 DEF Kept
  <2>5. Len(lost') =< MaxLosses
    BY <1>1, <1>5, <2>1, StoreAssumption DEF ResumeFromBase
  <2>6. merge' \in 0..(4 * Len(lost'))
    BY <1>1, <1>5, <2>1 DEF ResumeFromBase
  <2> QED BY <1>1, <1>5, <2>1, <2>3, <2>4, <2>5, <2>6, PlaceStep DEF ResumeFromBase
<1>6. ASSUME MergeCrashes PROVE IInv'
  <2>1. Kept' \subseteq Kept
    BY <1>6 DEF MergeCrashes, Kept
  <2> QED BY <1>1, <1>6, <2>1, PlaceStep DEF MergeCrashes
<1> QED BY <1>2, <1>3, <1>4, <1>5, <1>6

LEMMA TickInv ==
  ASSUME IInv, Tick
  PROVE  IInv'
<1>1. Kept' = Kept /\ Known' = Known
  BY DEF Tick, Kept, Known
<1>2. now \in Int /\ now' \in Ticks /\ now' = now + 1
  BY StoreAssumption DEF IInv, TypeOK, Tick, Ticks
<1>3. TypeOK'
  BY <1>2 DEF IInv, TypeOK, Tick
<1>4. \A r \in Known : r.seen \in Int
  <2>1. \A d \in Kept : d.quotes \subseteq Rows /\ d.compact \subseteq Rows
    BY DEF IInv, Sound, Databases
  <2> QED BY <2>1 DEF Known, Rows, Ticks
<1>5. OneObservation'
  BY <1>1, <1>2, <1>4 DEF IInv, OneObservation, SameSnapshot
<1> QED BY <1>1, <1>3, <1>5 DEF IInv, MergeProgress, Tick

LEMMA StartMergeInv ==
  ASSUME IInv, StartMerge
  PROVE  IInv'
<1>1. Kept' = Kept /\ Known' = Known
  BY DEF StartMerge, Kept, Known
<1>2. TypeOK'
  BY Positions DEF IInv, TypeOK, StartMerge, Jobs
<1>3. OneObservation'
  BY <1>1 DEF IInv, OneObservation, SameSnapshot, StartMerge
<1>4. MergeProgress'
  BY DEF StartMerge, MergeProgress
<1> QED BY <1>1, <1>2, <1>3, <1>4 DEF IInv, StartMerge

LEMMA EndMergeInv ==
  ASSUME IInv, EndMerge
  PROVE  IInv'
<1>1. Kept' = Kept /\ Known' = Known
  BY DEF EndMerge, Kept, Known
<1>2. TypeOK' /\ merge' = 4 * Len(lost')
  BY Positions DEF IInv, TypeOK, EndMerge, Jobs
<1>3. OneObservation'
  BY <1>1 DEF IInv, OneObservation, SameSnapshot, EndMerge
<1>4. MergeProgress'
  BY DEF IInv, EndMerge, MergeProgress
<1> QED BY <1>1, <1>2, <1>3, <1>4 DEF IInv

(* One table of one archive, in a recovery that is where it should be.     *)
LEMMA MergeTableAdds ==
  ASSUME IInv, MergeTable
  PROVE  LET a == lost[(merge \div 4) + 1]
             k == (merge % 4) + 1
         IN  /\ a \in Kept /\ Sound(db) /\ Sound(a)
             /\ k \in 1..4
             /\ db' = Merged(db, a, Tables[k])
             /\ k \in {2, 4} => a.ledger \subseteq db.ledger
             /\ \A r \in a.quotes, c \in db.quotes : SameSnapshot(c, r) => c = r
<1> DEFINE a == lost[(merge \div 4) + 1]
           k == (merge % 4) + 1
<1>1. merge \in 0..(4 * Len(lost) - 1) /\ Len(lost) \in Nat /\ merge \in Nat
  BY Positions DEF IInv, TypeOK, MergeTable
<1>2. ((merge \div 4) + 1) \in 1..Len(lost) /\ k \in 1..4
  BY <1>1, Positions
<1>3. a \in Kept /\ Sound(db) /\ Sound(a)
  BY <1>2, KeptStates DEF IInv
<1>4. db' = Merged(db, a, Tables[k])
  BY Positions DEF MergeTable
<1>5. ASSUME k \in {2, 4} PROVE a.ledger \subseteq db.ledger
  <2> DEFINE j == merge - (k - 1)
  <2>1. j \in 0..(merge - 1) /\ j % 4 = 0 /\ j \div 4 = merge \div 4 /\ j \in Nat
    BY <1>1, <1>5
  <2>2. HasTable(db, lost[(j \div 4) + 1], Tables[(j % 4) + 1])
    BY <2>1 DEF IInv, MergeProgress, MergeTable
  <2>3. HasTable(db, a, "forward_ledger")
    BY <2>1, <2>2 DEF Tables
  <2> QED BY <2>3 DEF HasTable
<1>6. \A r \in a.quotes, c \in db.quotes : SameSnapshot(c, r) => c = r
  BY <1>3, KeptStates, KeptRows DEF IInv, OneObservation
<1> HIDE DEF a, k
<1>7. QED BY <1>2, <1>3, <1>4, <1>5, <1>6 DEF a, k

LEMMA MergeTableInv ==
  ASSUME IInv, MergeTable
  PROVE  IInv'
<1> DEFINE a == lost[(merge \div 4) + 1]
           k == (merge % 4) + 1
<1>1. /\ a \in Kept /\ Sound(db) /\ Sound(a) /\ k \in 1..4
      /\ db' = Merged(db, a, Tables[k])
      /\ k \in {2, 4} => a.ledger \subseteq db.ledger
      /\ \A r \in a.quotes, c \in db.quotes : SameSnapshot(c, r) => c = r
  BY MergeTableAdds
<1> HIDE DEF a, k
<1>2. /\ Sound(db')
      /\ db.quotes \subseteq db'.quotes /\ db'.quotes \subseteq db.quotes \cup a.quotes
      /\ db'.compact = db.compact
      /\ db.ledger \subseteq db'.ledger /\ db.labels \subseteq db'.labels
      /\ db.shadows \subseteq db'.shadows
  BY <1>1, MergedTable
<1>3. HasTable(db', a, Tables[k])
  BY <1>1, MergedHasTable
<1>4. db'.quotes \cup db'.compact \subseteq Known
  BY <1>1, <1>2, KeptStates, KeptRows
<1>5. Kept' \subseteq Kept \cup {db'}
  BY DEF Kept, MergeTable
<1>6. OneObservation'
  BY <1>4, <1>5, OldRows DEF IInv, MergeTable
<1>7. merge \in 0..(4 * Len(lost) - 1) /\ Len(lost) \in Nat /\ merge' = merge + 1
  BY Positions DEF IInv, TypeOK, MergeTable
<1>8. TypeOK'
  <2>1. /\ UNCHANGED <<now, scanned, packed, base, lost, job>> /\ TypeOK /\ Len(Tables) = 4
    BY Positions DEF IInv, MergeTable
  <2>2. merge' \in 0..(Len(lost) * 4)
    BY <1>7
  <2>3. /\ db' \in Databases
        /\ db'.open \subseteq db'.ledger /\ db'.labels \subseteq db'.ledger
    BY <1>2 DEF Sound
  <2>4. QED BY <2>1, <2>2, <2>3 DEF TypeOK
<1>9. MergeProgress'
  <2> SUFFICES ASSUME NEW j \in 0..(merge' - 1)
               PROVE  HasTable(db', lost[(j \div 4) + 1], Tables[(j % 4) + 1])
    BY DEF MergeProgress, MergeTable
  <2>1. CASE j = merge
    BY <1>3, <2>1 DEF a, k
  <2>2. CASE j # merge
    <3>1. j \in 0..(merge - 1) /\ ((j % 4) + 1) \in 1..4
      BY <1>7, <2>2
    <3>2. HasTable(db, lost[(j \div 4) + 1], Tables[(j % 4) + 1])
      BY <3>1 DEF IInv, MergeProgress, MergeTable
    <3> QED BY <1>2, <3>1, <3>2, HasTableKeeps
  <2> QED BY <2>1, <2>2
<1>10. \A d \in Kept' : Sound(d)
  BY <1>2, <1>5 DEF IInv
<1> QED BY <1>6, <1>8, <1>9, <1>10 DEF IInv, MergeTable

LEMMA StepInv ==
  ASSUME IInv, [Next]_vars
  PROVE  IInv'
<1>1. CASE UNCHANGED vars
  <2>1. Kept' = Kept /\ Known' = Known
    BY <1>1 DEF vars, Kept, Known
  <2>2. TypeOK' /\ MergeProgress'
    BY <1>1 DEF IInv, TypeOK, MergeProgress, vars
  <2> QED BY <1>1, <2>1, <2>2 DEF IInv, OneObservation, SameSnapshot, vars
<1>2. CASE Next
  BY <1>2, ScanProductsInv, ArchiveProductsInv, RecordLedgerInv, AppendShadowsInv, LabelDueInv,
     LabelRaisesInv, CompactInv, RewriteInv, PipelineInv, TickInv, StartMergeInv,
     MergeTableInv, EndMergeInv DEF Next
<1> QED BY <1>1, <1>2

LEMMA Invariant == Spec => []IInv
BY InitInv, StepInv, PTL DEF Spec

(* Every database keeps its types, and its labels and open entries are     *)
(* entries of its ledger, for any products, cut-offs, losses and bounds.   *)
THEOREM TypeCorrect == Spec => []TypeOK
<1>1. IInv => TypeOK
  BY DEF IInv
<1> QED BY <1>1, Invariant, PTL

(* A recovery that ends has brought back every row of every archive, for   *)
(* any number of archives and interruptions.                               *)
THEOREM RecoveryComplete == Spec => []RecoveryIsComplete
<1>1. ASSUME IInv PROVE RecoveryIsComplete
  <2> SUFFICES ASSUME job = "merged", NEW i \in 1..Len(lost)
               PROVE  /\ lost[i].quotes \subseteq db.quotes
                      /\ lost[i].ledger \subseteq db.ledger
                      /\ lost[i].labels \subseteq db.labels
                      /\ lost[i].shadows \subseteq db.shadows
    BY DEF RecoveryIsComplete
  <2>1. merge = 4 * Len(lost) /\ Len(lost) \in Nat
    BY <1>1 DEF IInv, TypeOK
  <2>2. ASSUME NEW k \in 0..3 PROVE HasTable(db, lost[i], Tables[k + 1])
    <3> DEFINE j == 4 * (i - 1) + k
    <3>1. j \in 0..(merge - 1) /\ j \div 4 = i - 1 /\ j % 4 = k /\ (i - 1) + 1 = i
      BY <2>1
    <3>2. HasTable(db, lost[(j \div 4) + 1], Tables[(j % 4) + 1])
      BY <1>1, <3>1 DEF IInv, MergeProgress
    <3> QED BY <3>1, <3>2
  <2>3. /\ HasTable(db, lost[i], Tables[0 + 1]) /\ HasTable(db, lost[i], Tables[1 + 1])
        /\ HasTable(db, lost[i], Tables[2 + 1]) /\ HasTable(db, lost[i], Tables[3 + 1])
    BY <2>2
  <2> QED BY <2>3 DEF HasTable, Tables
<1> QED BY <1>1, Invariant, PTL

-----------------------------------------------------------------------------
(* The paths.                                                              *)

(* What is owed belongs to the products the ledger names: the baseline     *)
(* arms hold no other, so what compaction protects is enough.              *)
OwedIsNamed(d) == \A r \in d.owed : r.isin \in Named(d.ledger)

Paths(d) == d.owed \subseteq d.quotes /\ OwedIsNamed(d)

Resting == {packed} \cup ({base} \ {NoState}) \cup {lost[i] : i \in 1..Len(lost)}

PathInv ==
  /\ PathsAreKept
  /\ OwedIsNamed(db)
  /\ job = "drop" => db.owed \subseteq db.compact
  /\ \A d \in Resting : Paths(d)

LEMMA NamedGrows ==
  ASSUME NEW S, NEW T, S \subseteq T
  PROVE  Named(S) \subseteq Named(T)
  BY DEF Named

LEMMA NotedPaths ==
  ASSUME NEW x \in Databases, x.shadows \subseteq x.ledger, Paths(x)
  PROVE  Paths(Noted(x))
<1>1. Followed(x) \subseteq Named(x.ledger)
  BY DEF Followed, Named
<1> QED BY <1>1, NotedType DEF Paths, OwedIsNamed

LEMMA PathInit == Init => PathInv
  BY DEF Init, PathInv, PathsAreKept, OwedIsNamed, Paths, Resting, EmptyDatabase

(* A job that leaves the paths of its database complete.                   *)
LEMMA PathsLeft ==
  ASSUME PathInv, Paths(db'), job' \notin {"drop", "rename"}, UNCHANGED <<packed, base, lost>>
  PROVE  PathInv'
<1>1. Resting' = Resting
  BY DEF Resting
<1> QED BY <1>1 DEF PathInv, PathsAreKept, Paths

LEMMA PathScan ==
  ASSUME IInv, PathInv
  PROVE  /\ \A S \in Batches, late \in Lateness :
              ScanProducts(S, late) \/ ArchiveProducts(S, late) => PathInv'
         /\ \A E \in SUBSET [isin : Isins, at : {now}] :
              RecordLedger(E) \/ AppendShadows(E) => PathInv'
         /\ LabelDue => PathInv'
<1>1. Sound(db) /\ db \in Databases /\ db.shadows \subseteq db.ledger /\ now \in Ticks
  BY KeptStates DEF IInv, Sound, TypeOK
<1>2. job \notin {"drop", "rename"} => Paths(db)
  BY DEF PathInv, PathsAreKept, Paths
<1>3. ASSUME NEW S \in Batches, NEW late \in Lateness,
             ScanProducts(S, late) \/ ArchiveProducts(S, late)
      PROVE  PathInv'
  <2> DEFINE x == [db EXCEPT !.quotes = @ \cup Observed(S, late)]
  <2>1. /\ x \in Databases /\ x.quotes = db.quotes \cup Observed(S, late)
        /\ x.ledger = db.ledger /\ x.shadows = db.shadows /\ x.owed = db.owed
    BY <1>1, ObservedType DEF Databases
  <2>2. db' \in {db, Noted(x)} /\ job \in {"idle", "archive"} /\ job' \in {"record", "compact"}
        /\ UNCHANGED <<packed, base, lost>>
    BY <1>3 DEF ScanProducts, ArchiveProducts
  <2> HIDE DEF x
  <2>3. Paths(x)
    BY <1>2, <2>1, <2>2 DEF Paths, OwedIsNamed
  <2>4. Paths(db')
    BY <1>1, <1>2, <2>1, <2>2, <2>3, NotedPaths
  <2> QED BY <2>2, <2>4, PathsLeft
<1>4. ASSUME NEW E \in SUBSET [isin : Isins, at : {now}], RecordLedger(E) PROVE PathInv'
  <2> DEFINE x == [db EXCEPT !.ledger = @ \cup E, !.open = @ \cup E]
  <2>1. /\ x \in Databases /\ x.quotes = db.quotes
        /\ x.ledger = db.ledger \cup E /\ x.shadows = db.shadows /\ x.owed = db.owed
    BY <1>1 DEF Databases, Entries
  <2>2. db' = Noted(x) /\ job = "record" /\ job' = "shadow" /\ UNCHANGED <<packed, base, lost>>
    BY <1>4 DEF RecordLedger
  <2> HIDE DEF x
  <2>3. Paths(x)
    BY <1>2, <2>1, <2>2, NamedGrows DEF Paths, OwedIsNamed
  <2>4. Paths(db')
    BY <1>1, <2>1, <2>2, <2>3, NotedPaths
  <2> QED BY <2>2, <2>4, PathsLeft
<1>5. ASSUME NEW A \in SUBSET [isin : Isins, at : {now}], AppendShadows(A) PROVE PathInv'
  <2> DEFINE x == [db EXCEPT !.shadows = @ \cup A]
  <2>1. A \subseteq db.ledger
    BY <1>5 DEF AppendShadows
  <2>2. /\ x \in Databases /\ x.quotes = db.quotes
        /\ x.ledger = db.ledger /\ x.shadows = db.shadows \cup A /\ x.owed = db.owed
    BY <1>1, <2>1 DEF Databases
  <2>3. db' = Noted(x) /\ job = "shadow" /\ job' = "compact" /\ UNCHANGED <<packed, base, lost>>
    BY <1>5 DEF AppendShadows
  <2> HIDE DEF x
  <2>4. Paths(x)
    BY <1>2, <2>2, <2>3 DEF Paths, OwedIsNamed
  <2>5. Paths(db')
    BY <1>1, <2>1, <2>2, <2>3, <2>4, NotedPaths
  <2> QED BY <2>3, <2>5, PathsLeft
<1>6. ASSUME LabelDue PROVE PathInv'
  <2>1. db'.quotes = db.quotes /\ db'.ledger = db.ledger /\ db'.owed = db.owed
    BY <1>1, <1>6 DEF LabelDue, Databases
  <2>2. Paths(db')
    BY <1>2, <1>6, <2>1 DEF LabelDue, Paths, OwedIsNamed
  <2> QED BY <1>6, <2>2, PathsLeft DEF LabelDue
<1> QED BY <1>3, <1>4, <1>5, <1>6

LEMMA PathCompact ==
  ASSUME IInv, PathInv
  PROVE  /\ \A firsts : Rebuild(firsts) => PathInv'
         /\ DropOld => PathInv'
         /\ Rename => PathInv'
         /\ \A lacking : Rewrite(lacking) => PathInv'
<1>1. db \in Databases
  BY DEF IInv, TypeOK
<1>2. ASSUME UNCHANGED <<packed, base, lost>> PROVE Resting' = Resting
  BY <1>2 DEF Resting
<1>3. ASSUME NEW firsts, Rebuild(firsts) PROVE PathInv'
  <2>1. /\ db'.quotes = db.quotes /\ db'.ledger = db.ledger /\ db'.owed = db.owed
        /\ db'.compact = Survivors(db, firsts)
    BY <1>1, <1>3 DEF Rebuild, Databases
  <2>2. db.owed \subseteq db.quotes
    BY <1>3 DEF PathInv, PathsAreKept, Rebuild
  <2>3. db.owed \subseteq Survivors(db, firsts)
    BY <2>2 DEF PathInv, OwedIsNamed, Survivors, Protected
  <2> QED BY <1>2, <1>3, <2>1, <2>2, <2>3 DEF PathInv, PathsAreKept, OwedIsNamed, Rebuild
<1>4. ASSUME DropOld PROVE PathInv'
  <2>1. db'.ledger = db.ledger /\ db'.owed = db.owed /\ db'.compact = db.compact
    BY <1>1, <1>4 DEF DropOld, Databases
  <2> QED BY <1>2, <1>4, <2>1 DEF PathInv, PathsAreKept, OwedIsNamed, DropOld
<1>5. ASSUME Rename PROVE PathInv'
  <2>1. db'.ledger = db.ledger /\ db'.owed = db.owed /\ db'.quotes = db.compact
    BY <1>1, <1>5 DEF Rename, Databases
  <2> QED BY <1>2, <1>5, <2>1 DEF PathInv, PathsAreKept, OwedIsNamed, Rename
<1>6. ASSUME NEW lacking, Rewrite(lacking) PROVE PathInv'
  <2>1. db' = db
    BY <1>6, RewriteInv
  <2> QED BY <1>2, <1>6, <2>1 DEF PathInv, PathsAreKept, OwedIsNamed, Rewrite
<1> QED BY <1>3, <1>4, <1>5, <1>6

(* On a runner, what a job leaves behind half done is not there for the    *)
(* next.                                                                   *)
LEMMA PathPlaces ==
  ASSUME Runner, IInv, PathInv
  PROVE  /\ \A done : LabelRaises(done) => PathInv'
         /\ Pack \/ Crash \/ KeepBase \/ ResumeFromBase \/ MergeCrashes => PathInv'
<1>1. Paths(packed) /\ (base # NoState => Paths(base)) /\ \A i \in 1..Len(lost) : Paths(lost[i])
  BY DEF PathInv, Resting
<1>2. job \notin {"drop", "rename"} => Paths(db)
  BY DEF PathInv, PathsAreKept, Paths
<1>3. ASSUME \A d \in Resting' : Paths(d), Paths(db'), job' \notin {"drop", "rename"} PROVE PathInv'
  BY <1>3 DEF PathInv, PathsAreKept, Paths
<1>4. ASSUME NEW done, LabelRaises(done) PROVE PathInv'
  <2>1. Paths(db') /\ Resting' = Resting /\ job' = "idle"
    BY <1>1, <1>4 DEF LabelRaises, Resting
  <2> QED BY <1>3, <2>1 DEF PathInv
<1>5. ASSUME Pack PROVE PathInv'
  <2>1. Paths(db') /\ job' = "idle" /\ Resting' \subseteq Resting \cup {db}
    BY <1>2, <1>5 DEF Pack, Resting
  <2> QED BY <1>2, <1>3, <1>5, <2>1 DEF PathInv, Pack
<1>6. ASSUME Crash PROVE PathInv'
  <2>1. Paths(db') /\ job' = "idle" /\ Resting' = Resting
    BY <1>1, <1>6 DEF Crash, Fallback, Resting
  <2> QED BY <1>3, <2>1 DEF PathInv
<1>7. ASSUME KeepBase PROVE PathInv'
  <2>1. Paths(db') /\ job' = "idle" /\ Resting' \subseteq Resting
    BY <1>2, <1>7 DEF KeepBase, Resting
  <2> QED BY <1>3, <2>1 DEF PathInv
<1>8. ASSUME ResumeFromBase PROVE PathInv'
  <2>1. lost \in Seq(Databases) /\ packed \in Databases
    BY DEF IInv, TypeOK
  <2>2. /\ Len(lost') = Len(lost) + 1 /\ Len(lost) \in Nat
        /\ \A i \in 1..Len(lost') : lost'[i] = IF i = Len(lost) + 1 THEN packed ELSE lost[i]
    BY <1>8, <2>1 DEF ResumeFromBase
  <2>3. \A i \in 1..Len(lost') : Paths(lost'[i])
    BY <1>1, <2>2
  <2>4. base # NoState /\ base' \in {base, NoState} /\ db' = base /\ packed' = base /\ job' = "idle"
    BY <1>8 DEF ResumeFromBase
  <2>5. \A d \in Resting' : Paths(d)
    BY <1>1, <2>3, <2>4 DEF Resting
  <2> QED BY <1>1, <1>3, <2>4, <2>5
<1>9. ASSUME MergeCrashes PROVE PathInv'
  <2>1. Paths(db) /\ Paths(packed)
    BY <1>1, <1>2, <1>9 DEF MergeCrashes
  <2>2. db' \in {db, packed} /\ packed' = db' /\ job' = "idle" /\ UNCHANGED <<base, lost>>
    BY <1>9 DEF MergeCrashes
  <2>3. Resting' \subseteq Resting \cup {db, packed}
    BY <2>2 DEF Resting
  <2> QED BY <1>3, <2>1, <2>2, <2>3 DEF PathInv
<1> QED BY <1>4, <1>5, <1>6, <1>7, <1>8, <1>9

LEMMA PathMerge ==
  ASSUME IInv, PathInv, MergeTable
  PROVE  PathInv'
<1> DEFINE a == lost[(merge \div 4) + 1]
           k == (merge % 4) + 1
<1>1. /\ Sound(db) /\ Sound(a) /\ k \in 1..4
      /\ db' = Merged(db, a, Tables[k])
      /\ k \in {2, 4} => a.ledger \subseteq db.ledger
  BY MergeTableAdds
<1> HIDE DEF a, k
<1>2. /\ Sound(db') /\ db.quotes \subseteq db'.quotes /\ db.ledger \subseteq db'.ledger
      /\ db'.owed = db.owed \cup {r \in db'.quotes : r.isin \in Followed(db')}
  BY <1>1, MergedTable
<1>3. Followed(db') \subseteq Named(db'.ledger)
  BY <1>2 DEF Sound, Followed, Named
<1>4. db.owed \subseteq db.quotes /\ OwedIsNamed(db)
  BY DEF PathInv, PathsAreKept, MergeTable
<1>5. Paths(db')
  BY <1>2, <1>3, <1>4, NamedGrows DEF Paths, OwedIsNamed
<1> QED BY <1>5, PathsLeft DEF MergeTable

LEMMA PathStep ==
  ASSUME Runner, IInv, PathInv, [Next]_vars
  PROVE  PathInv'
<1>1. CASE UNCHANGED vars
  BY <1>1 DEF vars, PathInv, PathsAreKept, OwedIsNamed, Paths, Resting
<1>2. CASE Tick \/ StartMerge \/ EndMerge
  <2>1. Paths(db') /\ job' \notin {"drop", "rename"} /\ UNCHANGED <<packed, base, lost>>
    BY <1>2 DEF Tick, StartMerge, EndMerge, PathInv, PathsAreKept, Paths
  <2> QED BY <2>1, PathsLeft
<1>3. CASE Next
  BY <1>2, <1>3, PathScan, PathCompact, PathPlaces, PathMerge DEF Next
<1> QED BY <1>1, <1>3

(* On a runner the quotes of every product an entry or a baseline arm      *)
(* follows are complete from then on: no compaction, copy, crash, lost     *)
(* archive or merge takes one away, for any products, cut-offs and losses. *)
THEOREM PathsKept == ASSUME Runner PROVE Spec => []PathsAreKept
<1>1. PathInv => PathsAreKept
  BY DEF PathInv
<1>2. IInv /\ PathInv /\ [Next]_vars => PathInv'
  BY PathStep
<1> QED BY <1>1, <1>2, PathInit, Invariant, PTL DEF Spec

(* What the history of the ledger's products is promised holds on a        *)
(* runner: between DROP and RENAME it is in the rebuilt table, which no    *)
(* later job of a runner gets to destroy.                                  *)
THEOREM HistoryKept == ASSUME Runner PROVE Spec => []HistoryIsSomewhere
<1>1. PathsAreKept => HistoryIsSomewhere
  BY DEF PathsAreKept, HistoryIsSomewhere
<1> QED BY <1>1, PathsKept, PTL

-----------------------------------------------------------------------------
(* The days.                                                               *)

Represented(cut, rows, d) ==
  \A r \in d.ever :
    (\A s \in d.ever : SameDay(r, s) => s.seen >= cut) => \E s \in rows : SameDay(r, s)

Days(d) == d.quotes \subseteq d.ever /\ Represented(HardCutoff, d.quotes, d)

(* While compaction exchanges the tables, the rebuilt one has the days.    *)
DaysInv ==
  /\ DaysAreRepresented
  /\ db.quotes \subseteq db.ever
  /\ job \in {"drop", "rename"} =>
       db.compact \subseteq db.ever /\ Represented(HardCutoff, db.compact, db)
  /\ \A d \in Resting : Days(d)

LEMMA DaysHere ==
  ASSUME DaysInv, job # "rename"
  PROVE  Days(db)
  BY DEF DaysInv, DaysAreRepresented, Days, Represented

(* The rows of a day that has one have one with the last quote.            *)
LEMMA LastQuoteExists ==
  ASSUME NEW rows \in SUBSET Rows, NEW r \in rows
  PROVE  \E t \in LastQuotes(rows) : SameDay(r, t)
<1> DEFINE Same == {s \in rows : SameDay(r, s)}
           age(s) == MaxTick - s.quote
           A == {age(s) : s \in Same}
           R == OpToRel(<, Nat)
<1>1. \A s \in rows : s.quote \in Int /\ s.quote =< MaxTick /\ age(s) \in Nat
  <2>1. \A s \in rows : s.quote \in (0 - MaxLateness)..MaxTick
    BY DEF Rows
  <2> QED BY <2>1, StoreAssumption
<1>2. A \subseteq Nat
  BY <1>1
<1>3. r \in Same
  BY DEF SameDay
<1>4. A # {}
  BY <1>3
<1>5. IsWellFoundedOn(R, Nat)
  BY NatLessThanWellFounded
<1>6. \A x, y \in Nat : x < y => <<x, y>> \in R
  BY DEF OpToRel
<1>7. \E x \in A : \A y \in A : ~(<<y, x>> \in R)
  <2> HIDE DEF R, A
  <2> QED BY <1>2, <1>4, <1>5, WFMin
<1>8. PICK x \in A : \A y \in A : ~(y < x)
  <2> HIDE DEF R, A
  <2> QED BY <1>2, <1>6, <1>7
<1>9. PICK t \in Same : x = age(t)
  BY <1>8
<1>10. \A s \in Same : s.quote =< t.quote
  <2> TAKE s \in Same
  <2>1. ~(age(s) < age(t))
    BY <1>8, <1>9
  <2>2. s.quote \in Int /\ t.quote \in Int /\ MaxTick \in Int
    BY <1>1, StoreAssumption
  <2> QED BY <2>1, <2>2
<1>11. t \in LastQuotes(rows)
  <2>1. \A s \in rows : SameDay(t, s) => s \in Same
    BY <1>9 DEF SameDay
  <2> QED BY <1>10, <2>1 DEF LastQuotes
<1> QED BY <1>11

LEMMA DaysInit == Init => DaysInv
<1> SUFFICES ASSUME Init PROVE DaysInv
  OBVIOUS
<1>1. db = EmptyDatabase /\ Resting = {EmptyDatabase} /\ job = "idle"
  BY DEF Init, Resting
<1>2. EmptyDatabase.ever = {} /\ EmptyDatabase.quotes = {}
  BY DEF EmptyDatabase
<1> QED BY <1>1, <1>2 DEF DaysInv, DaysAreRepresented, Days, Represented

(* Rows that come are noted with those of their day.                       *)
LEMMA DaysGrow ==
  ASSUME NEW cut, NEW d, NEW e, Represented(cut, d.quotes, d),
         d.quotes \subseteq e.quotes, e.ever = d.ever \cup e.quotes
  PROVE  e.quotes \subseteq e.ever /\ Represented(cut, e.quotes, e)
<1>1. ASSUME NEW r \in e.ever, \A s \in e.ever : SameDay(r, s) => s.seen >= cut
      PROVE  \E s \in e.quotes : SameDay(r, s)
  <2>1. CASE r \in e.quotes
    BY <2>1 DEF SameDay
  <2>2. CASE r \in d.ever
    BY <1>1, <2>2 DEF Represented
  <2> QED BY <2>1, <2>2
<1> QED BY <1>1 DEF Represented

(* A job that leaves the days of its database represented.                 *)
LEMMA DaysLeft ==
  ASSUME DaysInv, db'.quotes \subseteq db'.ever, Represented(HardCutoff, db'.quotes, db'),
         job' \notin {"drop", "rename"}, UNCHANGED <<now, packed, base, lost>>
  PROVE  DaysInv'
<1>1. Resting' = Resting /\ HardCutoff' = HardCutoff
  BY DEF Resting, HardCutoff, KeepCutoff
<1> QED BY <1>1 DEF DaysInv, DaysAreRepresented, Days, Represented

(* Scans, entries, arms and labels.                                        *)
LEMMA DaysScan ==
  ASSUME IInv, DaysInv
  PROVE  /\ \A S \in Batches, late \in Lateness :
              ScanProducts(S, late) \/ ArchiveProducts(S, late) => DaysInv'
         /\ \A E \in SUBSET [isin : Isins, at : {now}] :
              RecordLedger(E) \/ AppendShadows(E) => DaysInv'
         /\ LabelDue => DaysInv'
<1>1. Sound(db) /\ db \in Databases /\ now \in Ticks
  BY KeptStates DEF IInv, Sound, TypeOK
<1>2. job # "rename" => Days(db)
  BY DaysHere
<1>3. ASSUME NEW x \in Databases, db.quotes \subseteq x.quotes, x.ever = db.ever,
             db' = Noted(x), job \notin {"drop", "rename"}, job' \notin {"drop", "rename"},
             UNCHANGED <<now, packed, base, lost>>
      PROVE  DaysInv'
  <2>1. db'.quotes = x.quotes /\ db'.ever = db.ever \cup db'.quotes
    BY <1>3, NotedType
  <2>2. db'.quotes \subseteq db'.ever /\ Represented(HardCutoff, db'.quotes, db')
    BY <1>2, <1>3, <2>1, DaysGrow DEF Days
  <2> QED BY <1>3, <2>2, DaysLeft
<1>4. ASSUME db'.quotes = db.quotes, db'.ever = db.ever,
             job \notin {"drop", "rename"}, job' \notin {"drop", "rename"},
             UNCHANGED <<now, packed, base, lost>>
      PROVE  DaysInv'
  <2>1. db'.quotes \subseteq db'.ever /\ Represented(HardCutoff, db'.quotes, db')
    BY <1>2, <1>4 DEF Days, Represented
  <2> QED BY <1>4, <2>1, DaysLeft
<1>5. ASSUME NEW S \in Batches, NEW late \in Lateness,
             ScanProducts(S, late) \/ ArchiveProducts(S, late)
      PROVE  DaysInv'
  <2> DEFINE x == [db EXCEPT !.quotes = @ \cup Observed(S, late)]
  <2>1. x \in Databases /\ x.quotes = db.quotes \cup Observed(S, late) /\ x.ever = db.ever
    BY <1>1, ObservedType DEF Databases
  <2>2. db' \in {db, Noted(x)} /\ job \in {"idle", "archive"} /\ job' \in {"record", "compact"}
        /\ UNCHANGED <<now, packed, base, lost>>
    BY <1>5 DEF ScanProducts, ArchiveProducts
  <2> HIDE DEF x
  <2> QED BY <1>3, <1>4, <2>1, <2>2
<1>6. ASSUME NEW E \in SUBSET [isin : Isins, at : {now}], RecordLedger(E) PROVE DaysInv'
  <2> DEFINE x == [db EXCEPT !.ledger = @ \cup E, !.open = @ \cup E]
  <2>1. x \in Databases /\ x.quotes = db.quotes /\ x.ever = db.ever
    BY <1>1 DEF Databases, Entries
  <2>2. db' = Noted(x) /\ job = "record" /\ job' = "shadow"
        /\ UNCHANGED <<now, packed, base, lost>>
    BY <1>6 DEF RecordLedger
  <2> HIDE DEF x
  <2> QED BY <1>3, <2>1, <2>2
<1>7. ASSUME NEW A \in SUBSET [isin : Isins, at : {now}], AppendShadows(A) PROVE DaysInv'
  <2> DEFINE x == [db EXCEPT !.shadows = @ \cup A]
  <2>1. A \subseteq db.ledger
    BY <1>7 DEF AppendShadows
  <2>2. x \in Databases /\ x.quotes = db.quotes /\ x.ever = db.ever
    BY <1>1, <2>1 DEF Databases
  <2>3. db' = Noted(x) /\ job = "shadow" /\ job' = "compact"
        /\ UNCHANGED <<now, packed, base, lost>>
    BY <1>7 DEF AppendShadows
  <2> HIDE DEF x
  <2> QED BY <1>3, <2>2, <2>3
<1>8. ASSUME LabelDue PROVE DaysInv'
  <2>1. db'.quotes = db.quotes /\ db'.ever = db.ever
    BY <1>1, <1>8 DEF LabelDue, Databases
  <2> QED BY <1>4, <1>8, <2>1 DEF LabelDue
<1> QED BY <1>5, <1>6, <1>7, <1>8

(* Thinning keeps the last quote of a day, unless a row of that day is too *)
(* old.                                                                    *)
LEMMA SurvivorsRepresent ==
  ASSUME NEW d \in Databases, Days(d), NEW firsts,
         firsts \subseteq LastQuotes(d.quotes), IsRanking(firsts, d.quotes)
  PROVE  Survivors(d, firsts) \subseteq d.ever
         /\ Represented(HardCutoff, Survivors(d, firsts), d)
<1>1. Survivors(d, firsts) \subseteq d.ever
  BY DEF Survivors, Days
<1>2. ASSUME NEW r \in d.ever, \A s \in d.ever : SameDay(r, s) => s.seen >= HardCutoff
      PROVE  \E s \in Survivors(d, firsts) : SameDay(r, s)
  <2>1. PICK s \in d.quotes : SameDay(r, s)
    BY <1>2 DEF Days, Represented
  <2>2. d.quotes \in SUBSET Rows
    BY DEF Databases
  <2>3. PICK t \in LastQuotes(d.quotes) : SameDay(s, t)
    BY <2>2, LastQuoteExists
  <2>4. PICK u \in firsts : SameDay(t, u)
    BY <2>3 DEF IsRanking
  <2>5. SameDay(r, u) /\ u \in d.quotes
    BY <2>1, <2>3, <2>4 DEF SameDay, LastQuotes
  <2>6. u.seen >= HardCutoff
    BY <1>2, <2>5 DEF Days
  <2> QED BY <2>4, <2>5, <2>6 DEF Survivors
<1> QED BY <1>1, <1>2 DEF Represented

LEMMA DaysCompact ==
  ASSUME IInv, DaysInv
  PROVE  /\ \A firsts : Rebuild(firsts) => DaysInv'
         /\ DropOld => DaysInv'
         /\ Rename => DaysInv'
         /\ \A lacking : Rewrite(lacking) => DaysInv'
<1>1. db \in Databases
  BY DEF IInv, TypeOK
<1>2. ASSUME UNCHANGED <<now, packed, base, lost>>
      PROVE  HardCutoff' = HardCutoff /\ \A d \in Resting' : Days(d)'
  BY <1>2 DEF Resting, HardCutoff, KeepCutoff, DaysInv, Days
<1>3. ASSUME NEW firsts, Rebuild(firsts) PROVE DaysInv'
  <2>1. /\ db'.quotes = db.quotes /\ db'.ever = db.ever
        /\ db'.compact = Survivors(db, firsts)
        /\ job = "compact" /\ job' = "drop" /\ UNCHANGED <<now, packed, base, lost>>
    BY <1>1, <1>3 DEF Rebuild, Databases
  <2>2. Days(db)
    BY <2>1, DaysHere
  <2>3. /\ Survivors(db, firsts) \subseteq db.ever
        /\ Represented(HardCutoff, Survivors(db, firsts), db)
    BY <1>1, <1>3, <2>2, SurvivorsRepresent DEF Rebuild
  <2>4. DaysAreRepresented'
    BY <1>2, <2>1, <2>2 DEF Days, Represented, DaysAreRepresented
  <2>5. (db.compact \subseteq db.ever /\ Represented(HardCutoff, db.compact, db))'
    BY <1>2, <2>1, <2>3 DEF Represented
  <2>6. (db.quotes \subseteq db.ever)'
    BY <2>1, <2>2 DEF Days
  <2> QED BY <1>2, <2>1, <2>4, <2>5, <2>6 DEF DaysInv
<1>4. ASSUME DropOld PROVE DaysInv'
  <2>1. /\ db'.quotes = {} /\ db'.ever = db.ever /\ db'.compact = db.compact
        /\ job = "drop" /\ job' = "rename" /\ UNCHANGED <<now, packed, base, lost>>
    BY <1>1, <1>4 DEF DropOld, Databases
  <2>2. (db.compact \subseteq db.ever /\ Represented(HardCutoff, db.compact, db))'
    BY <1>2, <2>1 DEF DaysInv, Represented
  <2> QED BY <1>2, <2>1, <2>2 DEF DaysInv, DaysAreRepresented
<1>5. ASSUME Rename PROVE DaysInv'
  <2>1. /\ db'.ever = db.ever /\ db'.quotes = db.compact
        /\ job = "rename" /\ job' = "rewrite" /\ UNCHANGED <<now, packed, base, lost>>
    BY <1>1, <1>5 DEF Rename, Databases
  <2>2. db'.quotes \subseteq db'.ever /\ Represented(HardCutoff, db'.quotes, db')
    BY <2>1 DEF DaysInv, Represented
  <2> QED BY <2>1, <2>2, DaysLeft
<1>6. ASSUME NEW lacking, Rewrite(lacking) PROVE DaysInv'
  <2>1. db' = db /\ job = "rewrite" /\ job' = "pack" /\ UNCHANGED <<now, packed, base, lost>>
    BY <1>6, RewriteInv DEF Rewrite
  <2>2. db'.quotes \subseteq db'.ever /\ Represented(HardCutoff, db'.quotes, db')
    BY <2>1, DaysHere DEF Days
  <2> QED BY <2>1, <2>2, DaysLeft
<1> QED BY <1>3, <1>4, <1>5, <1>6

(* Databases are exchanged for others that rest.                           *)
LEMMA DaysPlaced ==
  ASSUME DaysInv, UNCHANGED now, job' \notin {"drop", "rename"},
         Days(db'), \A d \in Resting' : Days(d)
  PROVE  DaysInv'
<1>1. HardCutoff' = HardCutoff
  BY DEF HardCutoff, KeepCutoff
<1>2. Days(db)' /\ (\A d \in Resting : Days(d))'
  BY <1>1 DEF Days
<1> QED BY <1>2 DEF DaysInv, DaysAreRepresented, Days, Represented

LEMMA DaysPlaces ==
  ASSUME Runner, IInv, DaysInv
  PROVE  /\ \A done : LabelRaises(done) => DaysInv'
         /\ Pack \/ Crash \/ KeepBase \/ ResumeFromBase \/ MergeCrashes => DaysInv'
<1>1. Days(packed) /\ (base # NoState => Days(base)) /\ \A i \in 1..Len(lost) : Days(lost[i])
  BY DEF DaysInv, Resting
<1>2. job # "rename" => Days(db)
  BY DaysHere
<1>3. \A d \in Resting : Days(d)
  BY DEF DaysInv
<1>4. ASSUME NEW done, LabelRaises(done) PROVE DaysInv'
  <2>1. db' = packed /\ job' = "idle" /\ UNCHANGED <<now, packed, base, lost>>
    BY <1>4 DEF LabelRaises
  <2>2. Resting' = Resting
    BY <2>1 DEF Resting
  <2> QED BY <1>1, <1>3, <2>1, <2>2, DaysPlaced
<1>5. ASSUME Pack PROVE DaysInv'
  <2>1. job # "rename" /\ db' = db /\ job' = "idle" /\ now' = now /\ packed' = db
        /\ UNCHANGED <<base, lost>>
    BY <1>5 DEF Pack
  <2>2. Resting' \subseteq Resting \cup {db}
    BY <2>1 DEF Resting
  <2> QED BY <1>2, <1>3, <2>1, <2>2, DaysPlaced
<1>6. ASSUME Crash PROVE DaysInv'
  <2>1. db' = packed /\ packed' = packed /\ job' = "idle" /\ UNCHANGED <<now, base, lost>>
    BY <1>6 DEF Crash, Fallback
  <2>2. Resting' = Resting
    BY <2>1 DEF Resting
  <2> QED BY <1>1, <1>3, <2>1, <2>2, DaysPlaced
<1>7. ASSUME KeepBase PROVE DaysInv'
  <2>1. job = "idle" /\ job' = "idle" /\ base' = packed /\ UNCHANGED <<now, db, packed, lost>>
    BY <1>7 DEF KeepBase
  <2>2. Resting' \subseteq Resting
    BY <2>1 DEF Resting
  <2> QED BY <1>2, <1>3, <2>1, <2>2, DaysPlaced
<1>8. ASSUME ResumeFromBase PROVE DaysInv'
  <2>1. lost \in Seq(Databases) /\ packed \in Databases
    BY DEF IInv, TypeOK
  <2>2. /\ Len(lost') = Len(lost) + 1 /\ Len(lost) \in Nat
        /\ \A i \in 1..Len(lost') : lost'[i] = IF i = Len(lost) + 1 THEN packed ELSE lost[i]
    BY <1>8, <2>1 DEF ResumeFromBase
  <2>3. \A i \in 1..Len(lost') : Days(lost'[i])
    BY <1>1, <2>2
  <2>4. base # NoState /\ base' \in {base, NoState} /\ db' = base /\ packed' = base
        /\ job' = "idle" /\ now' = now
    BY <1>8 DEF ResumeFromBase
  <2>5. \A d \in Resting' : Days(d)
    BY <1>1, <2>3, <2>4 DEF Resting
  <2> QED BY <1>1, <2>4, <2>5, DaysPlaced
<1>9. ASSUME MergeCrashes PROVE DaysInv'
  <2>1. job # "rename"
    BY <1>9 DEF MergeCrashes
  <2>2. db' \in {db, packed} /\ packed' = db' /\ job' = "idle" /\ UNCHANGED <<now, base, lost>>
    BY <1>9 DEF MergeCrashes
  <2>3. Resting' \subseteq Resting \cup {db, packed}
    BY <2>2 DEF Resting
  <2> QED BY <1>1, <1>2, <1>3, <2>1, <2>2, <2>3, DaysPlaced
<1> QED BY <1>4, <1>5, <1>6, <1>7, <1>8, <1>9

LEMMA DaysMerge ==
  ASSUME IInv, DaysInv, MergeTable
  PROVE  DaysInv'
<1> DEFINE a == lost[(merge \div 4) + 1]
           k == (merge % 4) + 1
<1>1. /\ Sound(db) /\ Sound(a) /\ k \in 1..4
      /\ db' = Merged(db, a, Tables[k])
      /\ k \in {2, 4} => a.ledger \subseteq db.ledger
  BY MergeTableAdds
<1> HIDE DEF a, k
<1>2. db.quotes \subseteq db'.quotes /\ db'.ever = db.ever \cup db'.quotes
  BY <1>1, MergedTable
<1>3. Days(db)
  BY DaysHere DEF MergeTable
<1>4. db'.quotes \subseteq db'.ever /\ Represented(HardCutoff, db'.quotes, db')
  BY <1>2, <1>3, DaysGrow DEF Days
<1> QED BY <1>4, DaysLeft DEF MergeTable

(* The cut-off only moves on, and asks less.                               *)
LEMMA DaysTick ==
  ASSUME IInv, DaysInv, Tick
  PROVE  DaysInv'
<1>1. /\ now \in Int /\ now' = now + 1 /\ UNCHANGED <<db, packed, base, lost, job>>
      /\ job = "idle"
  BY DEF IInv, TypeOK, Ticks, Tick
<1>2. HardCutoff \in Int /\ HardCutoff' \in Int /\ HardCutoff' >= HardCutoff
  <2>1. HardDays \in Int /\ TicksPerDay \in Int
    BY StoreAssumption
  <2>2. HardDays * TicksPerDay \in Int
    BY <2>1
  <2> QED BY <1>1, <2>2 DEF HardCutoff
<1>3. Resting' = Resting /\ \A d \in Resting \cup {db} : Days(d) /\ d \in Databases
  <2>1. Resting \subseteq Databases
    BY DEF Resting, IInv, Kept, Sound
  <2> QED BY <1>1, <2>1, DaysHere DEF Resting, DaysInv, IInv, TypeOK
<1>4. ASSUME NEW d \in Resting \cup {db}
      PROVE  Represented(HardCutoff', d.quotes, d)
  <2>1. \A s \in d.ever : s.seen \in Int
    BY <1>3 DEF Databases, Rows, Ticks
  <2>2. \A s \in d.ever : s.seen >= HardCutoff' => s.seen >= HardCutoff
    BY <1>2, <2>1
  <2> QED BY <1>3, <2>2 DEF Days, Represented
<1>5. (\A d \in Resting : Days(d))'
  BY <1>3, <1>4 DEF Days
<1>6. Represented(HardCutoff', db.quotes, db) /\ db.quotes \subseteq db.ever
  BY <1>3, <1>4 DEF Days
<1>7. DaysAreRepresented'
  BY <1>1, <1>6 DEF DaysAreRepresented, Represented
<1> QED BY <1>1, <1>5, <1>6, <1>7 DEF DaysInv

LEMMA DaysStep ==
  ASSUME Runner, IInv, DaysInv, [Next]_vars
  PROVE  DaysInv'
<1>1. CASE UNCHANGED vars
  BY <1>1 DEF vars, DaysInv, DaysAreRepresented, Days, Represented, Resting, HardCutoff
<1>2. CASE StartMerge \/ EndMerge
  <2>1. /\ db' = db /\ UNCHANGED <<now, packed, base, lost>>
        /\ job # "rename" /\ job' \notin {"drop", "rename"}
    BY <1>2 DEF StartMerge, EndMerge
  <2>2. db'.quotes \subseteq db'.ever /\ Represented(HardCutoff, db'.quotes, db')
    BY <2>1, DaysHere DEF Days
  <2> QED BY <2>1, <2>2, DaysLeft
<1>3. CASE Next
  BY <1>2, <1>3, DaysScan, DaysCompact, DaysPlaces, DaysMerge, DaysTick DEF Next
<1> QED BY <1>1, <1>3

(* On a runner a product keeps a quote of every day it was ever quoted on, *)
(* until a row of that day is past the hard cut-off: whatever is thinned,  *)
(* copied, interrupted, lost and merged, for any cut-offs and lateness.    *)
THEOREM DaysKept == ASSUME Runner PROVE Spec => []DaysAreRepresented
<1>1. DaysInv => DaysAreRepresented
  BY DEF DaysInv
<1>2. IInv /\ DaysInv /\ [Next]_vars => DaysInv'
  BY DaysStep
<1> QED BY <1>1, <1>2, DaysInit, Invariant, PTL DEF Spec

-----------------------------------------------------------------------------
(* The labels.                                                             *)

(* An entry that is open has no label, and an entry at the tick has been   *)
(* made by the scan of that tick.                                          *)
Consistent(d) ==
  /\ d.open \cap d.labels = {}
  /\ \A e \in d.ledger : e.at =< now /\ (~scanned => e.at < now)

LabelInv ==
  lost = <<>> =>
    /\ \A d \in Kept : Consistent(d)
    /\ job = "record" => scanned /\ \A e \in db.ledger : e.at < now
    /\ job \notin {"merge", "merged"}

LEMMA LabelInit == Init => LabelInv
<1> SUFFICES ASSUME Init PROVE LabelInv
  OBVIOUS
<1>1. Kept = {EmptyDatabase} /\ job = "idle"
  BY DEF Init, Kept
<1>2. Consistent(EmptyDatabase)
  BY DEF Consistent, EmptyDatabase
<1> QED BY <1>1, <1>2 DEF LabelInv

(* A job that leaves its database consistent.                              *)
LEMMA LabelsLeft ==
  ASSUME LabelInv, lost = <<>>, UNCHANGED <<now, packed, base, lost>>,
         scanned' = scanned \/ scanned' = TRUE, scanned \in BOOLEAN,
         Consistent(db)', job' \notin {"record", "merge", "merged"}
  PROVE  LabelInv'
<1>1. \A d \in Kept : Consistent(d)'
  BY DEF LabelInv, Consistent
<1>2. Kept' \subseteq Kept \cup {db'}
  BY Framed
<1>3. \A d \in Kept' : Consistent(d)'
  BY <1>1, <1>2
<1> QED BY <1>3 DEF LabelInv

(* The same, of a job that leaves entries and labels alone.                *)
LEMMA LabelsAlone ==
  ASSUME LabelInv, lost = <<>>, UNCHANGED <<now, packed, base, lost>>,
         scanned' = scanned \/ scanned' = TRUE, scanned \in BOOLEAN,
         db'.ledger = db.ledger, db'.open = db.open, db'.labels = db.labels,
         job' \notin {"record", "merge", "merged"}
  PROVE  LabelInv'
<1>1. Consistent(db)
  BY KeptStates DEF LabelInv
<1>2. Consistent(db)'
  BY <1>1 DEF Consistent
<1> QED BY <1>2, LabelsLeft

LEMMA LabelScan ==
  ASSUME IInv, LabelInv, lost = <<>>
  PROVE  /\ \A S \in Batches, late \in Lateness :
              ScanProducts(S, late) \/ ArchiveProducts(S, late) => LabelInv'
         /\ \A E \in SUBSET [isin : Isins, at : {now}] :
              RecordLedger(E) \/ AppendShadows(E) => LabelInv'
         /\ LabelDue => LabelInv'
<1>1. /\ Sound(db) /\ db \in Databases /\ now \in Ticks /\ scanned \in BOOLEAN
      /\ Consistent(db) /\ db.labels \subseteq db.ledger /\ db.ledger \subseteq Entries
  BY KeptStates DEF IInv, Sound, TypeOK, LabelInv, Databases
<1>2. ASSUME NEW S \in Batches, NEW late \in Lateness,
             ScanProducts(S, late) \/ ArchiveProducts(S, late)
      PROVE  LabelInv'
  <2> DEFINE x == [db EXCEPT !.quotes = @ \cup Observed(S, late)]
  <2>1. x \in Databases /\ x.ledger = db.ledger /\ x.open = db.open /\ x.labels = db.labels
    BY <1>1, ObservedType DEF Databases
  <2>2. db' \in {db, Noted(x)} /\ scanned' = TRUE /\ UNCHANGED <<now, packed, base, lost>>
    BY <1>2 DEF ScanProducts, ArchiveProducts
  <2> HIDE DEF x
  <2>3. db'.ledger = db.ledger /\ db'.open = db.open /\ db'.labels = db.labels
    BY <2>1, <2>2, NotedType
  <2>4. CASE ArchiveProducts(S, late)
    BY <1>1, <2>2, <2>3, <2>4, LabelsAlone DEF ArchiveProducts
  <2>5. CASE ScanProducts(S, late)
    <3>1. ~scanned /\ job' = "record"
      BY <2>5 DEF ScanProducts
    <3>2. \A e \in db'.ledger : e.at < now
      BY <1>1, <2>3, <3>1 DEF Consistent
    <3>3. \A d \in Kept \cup {db'} : Consistent(d)'
      BY <1>1, <2>2, <2>3 DEF LabelInv, Consistent
    <3>4. Kept' \subseteq Kept \cup {db'}
      BY <2>2, Framed
    <3> QED BY <2>2, <3>1, <3>2, <3>3, <3>4 DEF LabelInv
  <2> QED BY <1>2, <2>4, <2>5
<1>3. ASSUME NEW E \in SUBSET [isin : Isins, at : {now}], RecordLedger(E) PROVE LabelInv'
  <2> DEFINE x == [db EXCEPT !.ledger = @ \cup E, !.open = @ \cup E]
  <2>1. /\ x \in Databases /\ x.labels = db.labels
        /\ x.ledger = db.ledger \cup E /\ x.open = db.open \cup E
    BY <1>1 DEF Databases, Entries
  <2>2. /\ db' = Noted(x) /\ job = "record" /\ job' = "shadow"
        /\ UNCHANGED <<now, scanned, packed, base, lost>>
    BY <1>3 DEF RecordLedger
  <2> HIDE DEF x
  <2>3. db'.ledger = db.ledger \cup E /\ db'.open = db.open \cup E /\ db'.labels = db.labels
    BY <2>1, <2>2, NotedType
  <2>4. scanned /\ now \in Int /\ \A e \in db.ledger : e.at < now
    BY <1>1, <2>2 DEF LabelInv, Ticks
  <2>5. \A e \in E : e.at = now
    OBVIOUS
  <2>6. E \cap db.labels = {}
    BY <1>1, <2>4, <2>5
  <2>7. Consistent(db)'
    BY <1>1, <2>2, <2>3, <2>4, <2>5, <2>6 DEF Consistent
  <2> QED BY <1>1, <2>2, <2>7, LabelsLeft
<1>4. ASSUME NEW A \in SUBSET [isin : Isins, at : {now}], AppendShadows(A) PROVE LabelInv'
  <2> DEFINE x == [db EXCEPT !.shadows = @ \cup A]
  <2>1. A \subseteq db.ledger
    BY <1>4 DEF AppendShadows
  <2>2. /\ x \in Databases /\ x.ledger = db.ledger /\ x.open = db.open
        /\ x.labels = db.labels
    BY <1>1, <2>1 DEF Databases
  <2>3. db' = Noted(x) /\ job' = "compact" /\ UNCHANGED <<now, scanned, packed, base, lost>>
    BY <1>4 DEF AppendShadows
  <2> HIDE DEF x
  <2>4. db'.ledger = db.ledger /\ db'.open = db.open /\ db'.labels = db.labels
    BY <2>2, <2>3, NotedType
  <2> QED BY <1>1, <2>3, <2>4, LabelsAlone
<1>5. ASSUME LabelDue PROVE LabelInv'
  <2>1. /\ db'.ledger = db.ledger /\ db'.labels = db.labels \cup Due
        /\ db'.open = db.open \ Due /\ job' = "archive"
        /\ UNCHANGED <<now, scanned, packed, base, lost>>
    BY <1>1, <1>5 DEF LabelDue, Databases
  <2>2. Consistent(db)'
    BY <1>1, <2>1 DEF Consistent
  <2> QED BY <1>1, <2>1, <2>2, LabelsLeft
<1> QED BY <1>2, <1>3, <1>4, <1>5

LEMMA LabelCompact ==
  ASSUME IInv, LabelInv, lost = <<>>
  PROVE  /\ \A firsts : Rebuild(firsts) => LabelInv'
         /\ DropOld \/ Rename => LabelInv'
         /\ \A lacking : Rewrite(lacking) => LabelInv'
<1>1. db \in Databases /\ scanned \in BOOLEAN
  BY DEF IInv, TypeOK
<1>2. ASSUME NEW firsts, Rebuild(firsts) PROVE LabelInv'
  <2>1. db'.ledger = db.ledger /\ db'.open = db.open /\ db'.labels = db.labels
    BY <1>1, <1>2 DEF Rebuild, Databases
  <2> QED BY <1>1, <1>2, <2>1, LabelsAlone DEF Rebuild
<1>3. ASSUME DropOld \/ Rename PROVE LabelInv'
  <2>1. db'.ledger = db.ledger /\ db'.open = db.open /\ db'.labels = db.labels
    BY <1>1, <1>3 DEF DropOld, Rename, Databases
  <2> QED BY <1>1, <1>3, <2>1, LabelsAlone DEF DropOld, Rename
<1>4. ASSUME NEW lacking, Rewrite(lacking) PROVE LabelInv'
  BY <1>1, <1>4, RewriteInv, LabelsAlone DEF Rewrite
<1> QED BY <1>2, <1>3, <1>4

(* Nothing is left behind yet, so all databases are those of one history.  *)
LEMMA LabelPlaces ==
  ASSUME IInv, LabelInv, lost = <<>>
  PROVE  /\ \A done : ~LabelRaises(done)
         /\ Pack \/ Crash \/ KeepBase => LabelInv'
         /\ ResumeFromBase => LabelInv'
         /\ Tick => LabelInv'
         /\ ~(StartMerge \/ MergeTable \/ EndMerge \/ MergeCrashes)
<1>1. /\ \A d \in Kept : Consistent(d) /\ Sound(d)
      /\ job \notin {"merge", "merged"}
  BY DEF LabelInv, IInv
<1>2. ASSUME NEW done, LabelRaises(done) PROVE FALSE
  BY <1>1, <1>2, KeptStates DEF LabelRaises, Due, Consistent
<1>3. ASSUME Pack \/ Crash \/ KeepBase PROVE LabelInv'
  <2>1. /\ job' = "idle" /\ UNCHANGED <<now, scanned, lost>>
        /\ db' \in Kept /\ packed' \in Kept /\ base' \in {base, packed}
    BY <1>3, KeptStates DEF Pack, Crash, Fallback, KeepBase
  <2>2. Kept' \subseteq Kept
    BY <2>1 DEF Kept
  <2> QED BY <1>1, <2>1, <2>2 DEF LabelInv, Consistent
<1>4. ASSUME ResumeFromBase PROVE LabelInv'
  <2>1. lost' # <<>>
    BY <1>4 DEF ResumeFromBase, IInv, TypeOK
  <2> QED BY <2>1 DEF LabelInv
<1>5. ASSUME Tick PROVE LabelInv'
  <2>1. /\ now' = now + 1 /\ scanned' = FALSE /\ now \in Int /\ job = "idle" /\ job' = "idle"
        /\ UNCHANGED <<db, packed, base, lost>>
    BY <1>5 DEF Tick, IInv, TypeOK, Ticks
  <2>2. Kept' = Kept
    BY <2>1 DEF Kept
  <2>3. ASSUME NEW d \in Kept PROVE Consistent(d)'
    <3>1. \A e \in d.ledger : e.at \in Int /\ e.at =< now
      BY <1>1 DEF Consistent, Sound, Databases, Entries, Ticks
    <3> QED BY <1>1, <2>1, <3>1 DEF Consistent
  <2> QED BY <2>1, <2>2, <2>3 DEF LabelInv
<1>6. ~(StartMerge \/ MergeTable \/ EndMerge \/ MergeCrashes)
  BY <1>1 DEF StartMerge, MergeTable, EndMerge, MergeCrashes
<1> QED BY <1>2, <1>3, <1>4, <1>5, <1>6

LEMMA LabelStep == IInv /\ LabelInv /\ [Next]_vars => LabelInv'
<1> SUFFICES ASSUME IInv, LabelInv, [Next]_vars PROVE LabelInv'
  OBVIOUS
<1>1. CASE lost # <<>>
  <2>1. lost' = lost \/ ResumeFromBase
    BY DEF Next, vars, ScanProducts, ArchiveProducts, RecordLedger, AppendShadows, LabelDue,
       LabelRaises, Rebuild, DropOld, Rename, Rewrite, Pack, Crash, Tick, KeepBase, StartMerge,
       MergeTable, EndMerge, MergeCrashes
  <2>2. ResumeFromBase => lost' # <<>>
    BY DEF ResumeFromBase, IInv, TypeOK
  <2> QED BY <1>1, <2>1, <2>2 DEF LabelInv
<1>2. CASE lost = <<>> /\ UNCHANGED vars
  BY <1>2 DEF vars, LabelInv, Kept, Consistent
<1>3. CASE lost = <<>> /\ Next
  BY <1>3, LabelScan, LabelCompact, LabelPlaces DEF Next
<1> QED BY <1>1, <1>2, <1>3

(* As long as the pipeline has not resumed from an older state, no entry   *)
(* that is due has a label already, whatever runs, crashes and raises: the *)
(* label job is stopped by a merge only.                                   *)
THEOREM OnlyLossContradicts == Spec => [](lost = <<>> => RecoveredStateCanBeLabeled)
<1>1. LabelInv => (lost = <<>> => RecoveredStateCanBeLabeled)
  BY KeptStates DEF LabelInv, Consistent, RecoveredStateCanBeLabeled, Due
<1> QED BY <1>1, LabelInit, LabelStep, Invariant, PTL DEF Spec

=============================================================================
