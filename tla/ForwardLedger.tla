---------------------------- MODULE ForwardLedger ----------------------------
(***************************************************************************)
(* The forward ledger and its labeler: a scan records entries before       *)
(* anything is known of their outcome; from the day an entry's exit is due *)
(* the label job resolves the exit from the quotes and bars stored so far  *)
(* and attaches a label, once and for ever (learning/ledger.py,            *)
(* learning/labeler.py, Store.attach_ledger_label).  The baseline arms of  *)
(* the shadow portfolio are scored by the same rules in the same job.      *)
(*                                                                         *)
(* Time is a slot: day d has slot 2d, before the exit quote hour (15:30 in *)
(* Berlin), and slot 2d + 1, after it.  A quote is the slot it is stored   *)
(* in, so an exit is known by its slot and prices do not appear; a "bare"  *)
(* quote has a bid and no timestamp of its source.  Every product has one  *)
(* ledger entry and one shadow position, of the same scan.                 *)
(***************************************************************************)
EXTENDS Integers, FiniteSets, FiniteSetsExt

CONSTANTS
  Products,     \* the products entered, as numbers: the ledger's label order
  MiniFutures,  \* those that leave a residual value when knocked out
  Horizon,      \* days from entry to exit_due
  Grace,        \* exit_quote_grace_trading_days
  LastDay,      \* bound: days modelled; entries whose grace ends later are
                \* left out
  MaxCrashes,   \* bound: crashes of the label job
  QuoteKinds,   \* the kinds of quotes that may follow the entry's own
  Barred        \* products whose barrier the stored bars may cross

ASSUME LedgerAssumption ==
  /\ Products \subseteq Nat
  /\ MiniFutures \subseteq Products
  /\ Horizon \in Nat /\ Grace \in Nat
  /\ LastDay \in Nat /\ MaxCrashes \in Nat
  /\ QuoteKinds \subseteq {"bid", "bare", "no_bid", "knocked_out"}
  /\ Barred \subseteq Products

VARIABLES
  now,       \* the current slot
  entered,   \* slot of each product's entry, or NoSlot
  quotes,    \* stored product_snapshots: <<slot, kind>>
  touched,   \* days whose stored bar crosses the product's barrier
  status,    \* the entry's status in forward_ledger
  label,     \* the entry's row in ledger_labels, or NoLabel
  shadow,    \* the shadow position's resolution, or NoLabel
  job,       \* what the label job is doing
  todo,      \* entries or positions it has still to visit
  ran,       \* the job has run in this slot
  crashes

vars == <<now, entered, quotes, touched, status, label, shadow,
          job, todo, ran, crashes>>

NoSlot   == 0 - 1
LastSlot == 2 * LastDay + 1
Slots    == 0..LastSlot
Day(s)   == s \div 2

Kinds    == {"bid", "bare", "no_bid", "knocked_out"}
Reasons  == {"HORIZON", "KO", "NO_EXIT_QUOTE_CONSERVATIVE", "EXPIRED_NO_DATA"}
Statuses == {"none", "open", "labeled", "expired_no_data"}
Jobs     == {"idle", "entries", "half", "shadows"}

NoLabel == [reason |-> "none", exit |-> NoSlot]

TypeOK ==
  /\ now \in Slots
  /\ entered \in [Products -> Slots \cup {NoSlot}]
  /\ quotes \in [Products -> SUBSET (Slots \X Kinds)]
  /\ touched \in [Products -> SUBSET (0..LastDay)]
  /\ status \in [Products -> Statuses]
  /\ \A f \in {label, shadow} :
       f \in [Products -> [reason : Reasons \cup {"none"}, exit : Slots \cup {NoSlot}]]
  /\ job \in Jobs
  /\ todo \subseteq Products
  /\ ran \in BOOLEAN
  /\ crashes \in 0..MaxCrashes

Init ==
  /\ now = 0
  /\ entered = [p \in Products |-> NoSlot]
  /\ quotes = [p \in Products |-> {}]
  /\ touched = [p \in Products |-> {}]
  /\ status = [p \in Products |-> "none"]
  /\ label = [p \in Products |-> NoLabel]
  /\ shadow = [p \in Products |-> NoLabel]
  /\ job = "idle"
  /\ todo = {}
  /\ ran = FALSE
  /\ crashes = 0

-----------------------------------------------------------------------------
(* Exit resolution, from what is stored at the moment of the call.         *)

Due(p)      == Day(entered[p]) + Horizon
Deadline(p) == 2 * Due(p) + 1               \* exit_due, 15:30 in Berlin
WindowEnd(p) == 2 * (Due(p) + Grace) + 1

Window(p, start) == {q \in quotes[p] : q[1] \in start..WindowEnd(p)}
Bids(p, start)   == {q[1] : q \in {w \in Window(p, start) : w[2] \in {"bid", "bare"}}}

(* The first knock-out the feed reports anywhere in the window.            *)
FeedKnockOuts(p, start) ==
  {q[1] : q \in {w \in Window(p, start) : w[2] = "knocked_out"}}

(* Bars count from the day of the entry up to the day the exit is due.     *)
BarKnockOuts(p) == touched[p] \cap (Day(entered[p])..Due(p))

(* A turbo is worth nothing once knocked out; a mini future is worth its   *)
(* first bid from the feed's report on, or from the end of the bar's day.  *)
KnockedOut(p, start) ==
  LET feed  == FeedKnockOuts(p, start)
      from  == IF feed # {} THEN Min(feed) ELSE 2 * Min(BarKnockOuts(p)) + 2
      after == {s \in Bids(p, start) : s >= from}
  IN [reason |-> "KO",
      exit   |-> IF p \in MiniFutures /\ after # {} THEN Min(after) ELSE NoSlot]

(* Mutant: the last bid of the window is the exit, not the first after the *)
(* exit is due.                                                            *)
ExitIsTheLastBid(p, bids) == Max(bids)

(* The first timestamped bid from the deadline on, or the last bid.        *)
ExitQuote(p, bids) ==
  LET preferred == {s \in bids : s >= Deadline(p) /\ <<s, "bid">> \in quotes[p]}
  IN IF preferred # {} THEN Min(preferred) ELSE Max(bids)

(* resolve_exit_with_fallback, for a product entered at start whose entry  *)
(* bid the caller knows or does not know.                                  *)
Resolution(p, start, entryBidKnown) ==
  LET bids == Bids(p, start)
  IN IF FeedKnockOuts(p, start) # {} \/ BarKnockOuts(p) # {}
       THEN KnockedOut(p, start)
     ELSE IF bids # {}
       THEN [reason |-> "HORIZON", exit |-> ExitQuote(p, bids)]
     ELSE IF entryBidKnown
       THEN [reason |-> "NO_EXIT_QUOTE_CONSERVATIVE", exit |-> entered[p]]
     ELSE [reason |-> "EXPIRED_NO_DATA", exit |-> NoSlot]

(* The window of an entry starts at the timestamp of its quote, and where  *)
(* the source gave none, at the evaluation that followed the quote: then   *)
(* the entry's own quote lies outside.  A shadow position reconstructs its *)
(* terms from the stored quote, which is always inside.                    *)
EntryResolution(p) ==
  Resolution(p, IF <<entered[p], "bid">> \in quotes[p] THEN entered[p]
                ELSE entered[p] + 1, TRUE)

ShadowResolution(p) == Resolution(p, entered[p], FALSE)

-----------------------------------------------------------------------------
(* The world: scans, quotes, bars, time.                                   *)

(* A scan prices a product, stores its quote and records the entry and the *)
(* shadow position.                                                        *)
Record(p, k) ==
  /\ k \in {"bid", "bare"}
  /\ job = "idle"
  /\ Day(now) + Horizon + Grace =< LastDay
  /\ status[p] = "none"
  /\ entered' = [entered EXCEPT ![p] = now]
  /\ quotes' = [quotes EXCEPT ![p] = {<<now, k>>}]
  /\ status' = [status EXCEPT ![p] = "open"]
  /\ UNCHANGED <<now, touched, label, shadow, job, todo, ran, crashes>>

(* A later scan, or the evening's archive of all products, stores a quote. *)
Quote(p, k) ==
  /\ k \in QuoteKinds
  /\ job = "idle"
  /\ status[p] # "none"
  /\ \A q \in quotes[p] : q[1] < now
  /\ quotes' = [quotes EXCEPT ![p] = @ \cup {<<now, k>>}]
  /\ UNCHANGED <<now, entered, touched, status, label, shadow, job,
                 todo, ran, crashes>>

(* A bar that crosses the barrier is stored, on its day or the day after.  *)
Bar(p, d) ==
  /\ job = "idle"
  /\ p \in Barred
  /\ status[p] # "none"
  /\ d \in {Day(now) - 1, Day(now)} /\ d >= Day(entered[p])
  /\ d \notin touched[p]
  /\ touched' = [touched EXCEPT ![p] = @ \cup {d}]
  /\ UNCHANGED <<now, entered, quotes, status, label, shadow, job,
                 todo, ran, crashes>>

Tick ==
  /\ job = "idle"
  /\ now < LastSlot
  /\ now' = now + 1
  /\ ran' = FALSE
  /\ UNCHANGED <<entered, quotes, touched, status, label, shadow,
                 job, todo, crashes>>

-----------------------------------------------------------------------------
(* The label job.                                                          *)

DueEntries == {p \in Products : status[p] = "open" /\ Due(p) =< Day(now)}

DueShadows == {p \in Products : /\ status[p] # "none"
                                /\ shadow[p] = NoLabel
                                /\ Due(p) =< Day(now)}

(* label_due_entries reads what is due.  The eod run is in the evening; at *)
(* the end of the days modelled it is repeated.                            *)
StartJob ==
  /\ job = "idle"
  /\ now % 2 = 1
  /\ ~ran \/ now = LastSlot
  /\ job' = "entries"
  /\ todo' = DueEntries
  /\ UNCHANGED <<now, entered, quotes, touched, status, label,
                 shadow, ran, crashes>>

MayLabel(p) == label[p] = NoLabel

(* The label row is inserted ...                                           *)
InsertLabel(p) ==
  /\ job = "entries"
  /\ todo # {} /\ p = Min(todo)
  /\ MayLabel(p)
  /\ label' = [label EXCEPT ![p] = EntryResolution(p)]
  /\ job' = "half"
  /\ UNCHANGED <<now, entered, quotes, touched, status, shadow,
                 todo, ran, crashes>>

(* Mutant: the status is the reason of the exit.                           *)
StatusIsReason(p) == label[p].reason

(* Mutant: an entry without an exit quote stays open.                      *)
ExpiredStaysOpen(p) == IF label[p].reason \in {"EXPIRED_NO_DATA", "KO"}
                         THEN "open" ELSE "labeled"

FinalStatus(p) == IF label[p].reason = "EXPIRED_NO_DATA"
                    THEN "expired_no_data" ELSE "labeled"

(* ... and then the entry's status is updated, in a statement of its own.  *)
UpdateStatus(p) ==
  /\ job = "half"
  /\ p = Min(todo)
  /\ status' = [status EXCEPT ![p] = FinalStatus(p)]
  /\ todo' = todo \ {p}
  /\ job' = "entries"
  /\ UNCHANGED <<now, entered, quotes, touched, label, shadow, ran,
                 crashes>>

(* An entry that has a label already makes attach_ledger_label raise; the  *)
(* error ends the job, before the entries and positions behind it.         *)
AlreadyLabeled(p) ==
  /\ job = "entries"
  /\ todo # {} /\ p = Min(todo)
  /\ ~MayLabel(p)
  /\ job' = "idle"
  /\ todo' = {}
  /\ ran' = TRUE
  /\ UNCHANGED <<now, entered, quotes, touched, status, label,
                 shadow, crashes>>

EntriesDone ==
  /\ job = "entries"
  /\ todo = {}
  /\ job' = "shadows"
  /\ todo' = DueShadows
  /\ UNCHANGED <<now, entered, quotes, touched, status, label,
                 shadow, ran, crashes>>

(* A position whose exit has no data is left for the next job.             *)
LabelShadow(p) ==
  /\ job = "shadows"
  /\ p \in todo
  /\ todo' = todo \ {p}
  /\ shadow' = IF ShadowResolution(p).reason = "EXPIRED_NO_DATA" THEN shadow
               ELSE [shadow EXCEPT ![p] = ShadowResolution(p)]
  /\ UNCHANGED <<now, entered, quotes, touched, status, label, job,
                 ran, crashes>>

ShadowsDone ==
  /\ job = "shadows"
  /\ todo = {}
  /\ job' = "idle"
  /\ ran' = TRUE
  /\ UNCHANGED <<now, entered, quotes, touched, status, label,
                 shadow, todo, crashes>>

(* The process dies; what it committed stays in the database.              *)
Crash ==
  /\ job # "idle"
  /\ crashes < MaxCrashes
  /\ crashes' = crashes + 1
  /\ job' = "idle"
  /\ todo' = {}
  /\ UNCHANGED <<now, entered, quotes, touched, status, label,
                 shadow, ran>>

JobStep ==
  \/ \E p \in Products : \/ InsertLabel(p) \/ UpdateStatus(p)
                         \/ AlreadyLabeled(p) \/ LabelShadow(p)
  \/ EntriesDone
  \/ ShadowsDone

Next ==
  \/ \E p \in Products :
       \/ \E k \in Kinds : Record(p, k) \/ Quote(p, k)
       \/ \E d \in 0..LastDay : Bar(p, d)
  \/ Tick
  \/ StartJob
  \/ JobStep
  \/ Crash

Spec == Init /\ [][Next]_vars

(* Time passes, the eod workflow is scheduled and a started job runs.      *)
FairSpec == Spec /\ WF_vars(Tick) /\ WF_vars(StartJob) /\ WF_vars(JobStep)

-----------------------------------------------------------------------------
(* Properties.                                                             *)

(* A label is a final fact: no job, and no job after a crash, writes an    *)
(* entry's label a second time, though the data it would use has grown.    *)
LabelIsFinal ==
  [][\A p \in Products : label[p] # NoLabel => label'[p] = label[p]]_vars

(* Status and label of an entry can disagree only where a crash fell       *)
(* between the two statements of attach_ledger_label.                      *)
DisagreementIsACrash ==
  job # "half" =>
    Cardinality({p \in Products :
                   (status[p] \in {"labeled", "expired_no_data"}) # (label[p] # NoLabel)})
      =< crashes

(* A label that found a timestamped quote after the due time does not      *)
(* depend on when the job ran: resolved again with all that is known now,  *)
(* the exit is the same quote, unless a knock-out has come to light since. *)
DueExitIsStable ==
  \A p \in Products :
    /\ label[p].reason = "HORIZON" /\ label[p].exit >= Deadline(p)
    /\ <<label[p].exit, "bid">> \in quotes[p]
    /\ EntryResolution(p).reason # "KO"
    => label[p].exit = EntryResolution(p).exit

(* Every entry a scan recorded gets its label in the end, unless a label   *)
(* job died between its two statements.                                    *)
EveryEntryIsLabeled ==
  \A p \in Products :
    (status[p] = "open") ~> (\/ status[p] \in {"labeled", "expired_no_data"}
                             \/ crashes > 0)

(* labeler.py: "Label every forward-ledger entry whose exit_due has        *)
(* arrived", a crash of one job notwithstanding.                           *)
CrashDelaysNoOthers ==
  \A p \in Products :
    (status[p] = "open" /\ label[p] = NoLabel) ~> (label[p] # NoLabel)

=============================================================================
