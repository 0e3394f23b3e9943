------------------------ MODULE ForwardLedger_proofs ------------------------
(***************************************************************************)
(* Labels are right for any number of products, any horizon, any grace and *)
(* any number of crashes: an exit found from the due time on is the one    *)
(* every later job would find, and status and label disagree at most once  *)
(* a crash.                                                                *)
(***************************************************************************)
EXTENDS ForwardLedger, FiniteSetTheorems, WellFoundedInduction, TLAPS

-----------------------------------------------------------------------------
(* Bounded sets of numbers have a least and a greatest member.             *)

LEMMA MinSpec ==
  ASSUME NEW S \in SUBSET Nat, S # {}
  PROVE  Min(S) \in S /\ \A y \in S : Min(S) =< y
<1> DEFINE R == OpToRel(<, Nat)
<1>1. IsWellFoundedOn(R, Nat)
  BY NatLessThanWellFounded
<1>2. \A x, y \in Nat : x < y => <<x, y>> \in R
  BY DEF OpToRel
<1>3. \E x \in S : \A y \in S : ~(<<y, x>> \in R)
  <2> HIDE DEF R
  <2> QED BY <1>1, WFMin
<1>4. \E x \in S : \A y \in S : x =< y
  <2> HIDE DEF R
  <2>1. PICK x \in S : \A y \in S : ~(<<y, x>> \in R)
    BY <1>3
  <2>2. \A y \in S : x =< y
    <3> TAKE y \in S
    <3>1. x \in Nat /\ y \in Nat
      OBVIOUS
    <3>2. ~(y < x)
      BY <1>2, <2>1, <3>1
    <3> QED BY <3>1, <3>2
  <2> QED BY <2>2
<1> QED BY <1>4 DEF Min

LEMMA MaxSpec ==
  ASSUME NEW b \in Nat, NEW S \in SUBSET (0..b), S # {}
  PROVE  Max(S) \in S /\ \A y \in S : Max(S) >= y
<1> DEFINE T == {b - s : s \in S}
<1>1. T \in SUBSET Nat /\ T # {}
  <2>1. \A s \in S : b - s \in Nat
    OBVIOUS
  <2> QED BY <2>1
<1>2. Min(T) \in T /\ \A y \in T : Min(T) =< y
  <2> HIDE DEF T
  <2> QED BY <1>1, MinSpec
<1>3. PICK m \in S : Min(T) = b - m
  BY <1>2
<1>4. \A y \in S : m >= y
  <2> TAKE y \in S
  <2>1. b - m =< b - y
    BY <1>2, <1>3
  <2> QED BY <2>1
<1> QED BY <1>3, <1>4 DEF Max

-----------------------------------------------------------------------------
(* The inductive invariant.                                                *)

EntryStart(p) == IF <<entered[p], "bid">> \in quotes[p] THEN entered[p]
                 ELSE entered[p] + 1

EntryBids(p) == Bids(p, EntryStart(p))

(* The timestamped bids of an entry from its due time on.                  *)
DueBids(p) == {s \in EntryBids(p) : s >= Deadline(p) /\ <<s, "bid">> \in quotes[p]}

(* Quotes are stored in the order of their slots, the entry's own first.   *)
QuotesInOrder ==
  \A p \in Products :
    /\ \A q \in quotes[p] : q[1] =< now
    /\ status[p] # "none" =>
         <<entered[p], "bid">> \in quotes[p] \/ <<entered[p], "bare">> \in quotes[p]

(* Only entries have labels; a horizon exit is a bid of the window, and    *)
(* one from the due time on is the first there is.                         *)
ExitsAreFirst ==
  \A p \in Products :
    /\ label[p] # NoLabel => status[p] # "none"
    /\ label[p].reason = "HORIZON" =>
         /\ label[p].exit \in EntryBids(p)
         /\ label[p].exit \in DueBids(p) => \A s \in DueBids(p) : label[p].exit =< s

Closed(p) == status[p] \in {"labeled", "expired_no_data"}

Disagreeing == {p \in Products : ~(Closed(p) <=> label[p] # NoLabel)}

(* The job works on entries, before the shadow positions on open ones.     *)
TodoIsRecorded ==
  /\ job = "half" => todo # {}
  /\ \A p \in todo : /\ status[p] # "none"
                     /\ job \in {"entries", "half"} => status[p] = "open"

(* While a label waits for its status, one disagreement is not a crash's.  *)
CrashesCovered ==
  /\ IsFiniteSet(Disagreeing)
  /\ job = "half" =>
       /\ label[Min(todo)] # NoLabel
       /\ Cardinality(Disagreeing \ {Min(todo)}) =< crashes
  /\ job # "half" => Cardinality(Disagreeing) =< crashes

IInv == TypeOK /\ QuotesInOrder /\ ExitsAreFirst /\ TodoIsRecorded /\ CrashesCovered

-----------------------------------------------------------------------------
(* Windows, and what a resolution returns.                                 *)

LEMMA BidsMember ==
  ASSUME TypeOK, NEW p \in Products, NEW start, NEW s
  PROVE  s \in Bids(p, start)
           <=> /\ s \in start..WindowEnd(p)
               /\ <<s, "bid">> \in quotes[p] \/ <<s, "bare">> \in quotes[p]
<1>1. \A q \in quotes[p] : q = <<q[1], q[2]>> /\ q \in Slots \X Kinds
  BY DEF TypeOK
<1>2. s \in Bids(p, start) <=> \E q \in quotes[p] :
          /\ q[1] \in start..WindowEnd(p) /\ q[2] \in {"bid", "bare"} /\ s = q[1]
  BY DEF Bids, Window
<1> QED BY <1>1, <1>2

LEMMA BidsMemberNext ==
  ASSUME TypeOK', NEW p \in Products, NEW s
  PROVE  s \in EntryBids(p)'
           <=> /\ s \in EntryStart(p)'..WindowEnd(p)'
               /\ <<s, "bid">> \in quotes'[p] \/ <<s, "bare">> \in quotes'[p]
<1>1. \A q \in quotes'[p] : q = <<q[1], q[2]>> /\ q \in Slots \X Kinds
  BY DEF TypeOK
<1>2. s \in EntryBids(p)' <=> \E q \in quotes'[p] :
          /\ q[1] \in EntryStart(p)'..WindowEnd(p)'
          /\ q[2] \in {"bid", "bare"} /\ s = q[1]
  BY DEF EntryBids, Bids, Window
<1> QED BY <1>1, <1>2

LEMMA BidsAreSlots ==
  ASSUME TypeOK, NEW p \in Products, NEW start
  PROVE  Bids(p, start) \subseteq Slots
<1> SUFFICES ASSUME NEW s \in Bids(p, start) PROVE s \in Slots
  OBVIOUS
<1>1. <<s, "bid">> \in quotes[p] \/ <<s, "bare">> \in quotes[p]
  BY BidsMember
<1> QED BY <1>1 DEF TypeOK

LEMMA SlotsAreBounded ==
  /\ LastSlot \in Nat /\ Slots = 0..LastSlot
  /\ \A S \in SUBSET Slots : S # {} => /\ Min(S) \in S /\ \A y \in S : Min(S) =< y
                                      /\ Max(S) \in S
<1>1. LastSlot \in Nat /\ Slots = 0..LastSlot
  BY LedgerAssumption DEF LastSlot, Slots
<1>2. \A S \in SUBSET Slots : S # {} => Min(S) \in S /\ \A y \in S : Min(S) =< y
  BY <1>1, MinSpec
<1>3. \A S \in SUBSET Slots : S # {} => Max(S) \in S
  BY <1>1, MaxSpec
<1> QED BY <1>1, <1>2, <1>3

(* What a horizon exit is.                                                 *)
LEMMA ExitQuoteSpec ==
  ASSUME TypeOK, NEW p \in Products, EntryBids(p) # {}
  PROVE  LET e == ExitQuote(p, EntryBids(p))
         IN /\ e \in EntryBids(p)
            /\ e \in DueBids(p) => \A s \in DueBids(p) : e =< s
            /\ DueBids(p) # {} => e = Min(DueBids(p))
<1> DEFINE e == ExitQuote(p, EntryBids(p))
<1>1. EntryBids(p) \subseteq Slots /\ DueBids(p) \subseteq EntryBids(p)
  BY BidsAreSlots DEF EntryBids, DueBids
<1>2. CASE DueBids(p) # {}
  <2>1. e = Min(DueBids(p))
    BY <1>2 DEF ExitQuote, DueBids
  <2>2. e \in DueBids(p) /\ \A s \in DueBids(p) : e =< s
    BY <1>1, <1>2, <2>1, SlotsAreBounded
  <2> QED BY <1>1, <2>1, <2>2
<1>3. CASE DueBids(p) = {}
  <2>1. e = Max(EntryBids(p))
    BY <1>3 DEF ExitQuote, DueBids
  <2>2. e \in EntryBids(p)
    BY <1>1, <2>1, SlotsAreBounded
  <2> QED BY <1>3, <2>2
<1> QED BY <1>2, <1>3

Resolved == [reason : Reasons, exit : Slots \cup {NoSlot}]

LEMMA ResolutionTyped ==
  ASSUME TypeOK, NEW p \in Products, NEW start, NEW known \in BOOLEAN,
         entered[p] \in Slots
  PROVE  Resolution(p, start, known) \in Resolved
<1>1. Bids(p, start) \subseteq Slots
  BY BidsAreSlots
<1>2. KnockedOut(p, start) \in Resolved
  <2> DEFINE from == IF FeedKnockOuts(p, start) # {} THEN Min(FeedKnockOuts(p, start))
                     ELSE 2 * Min(BarKnockOuts(p)) + 2
             after == {s \in Bids(p, start) : s >= from}
  <2>1. after \subseteq Slots
    BY <1>1
  <2>2. after # {} => Min(after) \in Slots
    <3> HIDE DEF after
    <3> QED BY <2>1, SlotsAreBounded
  <2>3. KnockedOut(p, start) = [reason |-> "KO",
            exit |-> IF p \in MiniFutures /\ after # {} THEN Min(after) ELSE NoSlot]
    BY DEF KnockedOut
  <2> HIDE DEF after
  <2> QED BY <2>2, <2>3 DEF Resolved, Reasons
<1>3. Bids(p, start) # {} => ExitQuote(p, Bids(p, start)) \in Slots
  <2> DEFINE preferred == {s \in Bids(p, start) : s >= Deadline(p) /\ <<s, "bid">> \in quotes[p]}
  <2>1. ExitQuote(p, Bids(p, start))
          = IF preferred # {} THEN Min(preferred) ELSE Max(Bids(p, start))
    BY DEF ExitQuote
  <2>2. preferred \subseteq Slots
    BY <1>1
  <2> HIDE DEF preferred
  <2> QED BY <1>1, <2>1, <2>2, SlotsAreBounded
<1> QED BY <1>2, <1>3 DEF Resolution, Resolved, Reasons

LEMMA EntryResolutionSpec ==
  ASSUME TypeOK, NEW p \in Products, entered[p] \in Slots
  PROVE  LET r == EntryResolution(p)
         IN /\ r \in Resolved /\ r # NoLabel
            /\ r.reason = "HORIZON" =>
                 /\ r.exit \in EntryBids(p)
                 /\ r.exit \in DueBids(p) => \A s \in DueBids(p) : r.exit =< s
<1> DEFINE r == EntryResolution(p)
<1>1. r = Resolution(p, EntryStart(p), TRUE)
  BY DEF EntryResolution, EntryStart
<1>2. r \in Resolved
  BY <1>1, ResolutionTyped
<1>3. r # NoLabel
  BY <1>2 DEF Resolved, Reasons, NoLabel
<1>4. ASSUME r.reason = "HORIZON"
      PROVE  EntryBids(p) # {} /\ r.exit = ExitQuote(p, EntryBids(p))
  BY <1>1, <1>4 DEF Resolution, KnockedOut, EntryBids
<1>5. ASSUME r.reason = "HORIZON"
      PROVE  /\ r.exit \in EntryBids(p)
             /\ r.exit \in DueBids(p) => \A s \in DueBids(p) : r.exit =< s
  BY <1>4, <1>5, ExitQuoteSpec
<1> QED BY <1>2, <1>3, <1>5

-----------------------------------------------------------------------------
(* Types.                                                                  *)

LEMMA EnteredWhereOpen ==
  ASSUME TypeOK, QuotesInOrder, NEW p \in Products, status[p] # "none"
  PROVE  entered[p] \in Slots /\ entered[p] =< now
<1>1. PICK k \in Kinds : <<entered[p], k>> \in quotes[p]
  BY DEF QuotesInOrder, Kinds
<1>2. <<entered[p], k>> \in Slots \X Kinds
  BY <1>1 DEF TypeOK
<1>3. <<entered[p], k>>[1] =< now
  BY <1>1 DEF QuotesInOrder
<1> QED BY <1>2, <1>3

LEMMA TodoIsOpen ==
  ASSUME TypeOK, todo # {}
  PROVE  Min(todo) \in todo /\ Min(todo) \in Products
BY LedgerAssumption, MinSpec DEF TypeOK

LEMMA TypeStep ==
  ASSUME TypeOK, QuotesInOrder, TodoIsRecorded, [Next]_vars
  PROVE  TypeOK'
<1>1. ASSUME NEW p \in Products, NEW k \in Kinds, Record(p, k) PROVE TypeOK'
  <2>1. /\ entered' \in [Products -> Slots \cup {NoSlot}]
        /\ quotes' \in [Products -> SUBSET (Slots \X Kinds)]
        /\ status' \in [Products -> Statuses]
    BY <1>1 DEF TypeOK, Record, Statuses, Kinds
  <2> QED BY <1>1, <2>1 DEF TypeOK, Record
<1>2. ASSUME NEW p \in Products, NEW k \in Kinds, Quote(p, k) PROVE TypeOK'
  BY <1>2 DEF TypeOK, Quote
<1>3. ASSUME NEW p \in Products, NEW d \in 0..LastDay, Bar(p, d) PROVE TypeOK'
  BY <1>3 DEF TypeOK, Bar
<1>4. CASE Tick
  <2>1. now' \in Slots
    BY <1>4, SlotsAreBounded DEF TypeOK, Tick
  <2> QED BY <1>4, <2>1 DEF TypeOK, Tick
<1>5. CASE StartJob
  BY <1>5 DEF TypeOK, StartJob, DueEntries, Jobs
<1>6. ASSUME NEW p \in Products, InsertLabel(p) PROVE TypeOK'
  <2>1. EntryResolution(p) \in [reason : Reasons \cup {"none"}, exit : Slots \cup {NoSlot}]
    <3>1. status[p] = "open"
      BY <1>6, TodoIsOpen DEF InsertLabel, TodoIsRecorded
    <3> QED BY <3>1, EnteredWhereOpen, EntryResolutionSpec DEF Resolved
  <2> QED BY <1>6, <2>1 DEF TypeOK, InsertLabel, Jobs
<1>7. ASSUME NEW p \in Products, UpdateStatus(p) PROVE TypeOK'
  BY <1>7 DEF TypeOK, UpdateStatus, FinalStatus, Statuses, Jobs
<1>8. ASSUME NEW p \in Products, AlreadyLabeled(p) PROVE TypeOK'
  BY <1>8 DEF TypeOK, AlreadyLabeled, Jobs
<1>9. CASE EntriesDone
  BY <1>9 DEF TypeOK, EntriesDone, DueShadows, Jobs
<1>10. ASSUME NEW p \in Products, LabelShadow(p) PROVE TypeOK'
  <2>1. entered[p] \in Slots => ShadowResolution(p) \in Resolved
    BY ResolutionTyped DEF ShadowResolution
  <2>2. status[p] # "none"
    BY <1>10 DEF LabelShadow, TodoIsRecorded
  <2> QED BY <1>10, <2>1, <2>2, EnteredWhereOpen DEF TypeOK, LabelShadow, Resolved
<1>11. CASE ShadowsDone
  BY <1>11 DEF TypeOK, ShadowsDone, Jobs
<1>12. CASE Crash
  BY <1>12, LedgerAssumption DEF TypeOK, Crash, Jobs
<1>13. CASE UNCHANGED vars
  BY <1>13 DEF TypeOK, vars
<1> QED BY <1>1, <1>2, <1>3, <1>4, <1>5, <1>6, <1>7, <1>8, <1>9, <1>10,
           <1>11, <1>12, <1>13 DEF Next, JobStep

-----------------------------------------------------------------------------
(* Quotes and exits.                                                       *)

(* An entry's window is fixed by its own quote; a later quote is not       *)
(* before any bid that has been there.                                     *)
LEMMA LaterQuote ==
  ASSUME TypeOK, TypeOK', QuotesInOrder, NEW p \in Products, NEW k \in Kinds,
         Quote(p, k)
  PROVE  /\ EntryStart(p)' = EntryStart(p)
         /\ EntryBids(p) \subseteq EntryBids(p)'
         /\ \A s \in DueBids(p)' : s \in DueBids(p) \/ s = now
         /\ \A s \in EntryBids(p) : s < now /\ (s \in DueBids(p)' => s \in DueBids(p))
<1>1. /\ quotes[p]' = quotes[p] \cup {<<now, k>>}
      /\ entered' = entered /\ now' = now /\ now \in Nat
      /\ \A q \in quotes[p] : q[1] < now
      /\ status[p] # "none"
  BY SlotsAreBounded DEF Quote, TypeOK
<1>2. /\ WindowEnd(p)' = WindowEnd(p) /\ Deadline(p)' = Deadline(p)
  BY <1>1 DEF WindowEnd, Deadline, Due
<1>3. \A s, x : <<s, x>> \in quotes[p] => s < now
  BY <1>1
<1>4. <<entered[p], "bid">> \in quotes[p]' <=> <<entered[p], "bid">> \in quotes[p]
  <2>1. entered[p] < now
    BY <1>1, <1>3 DEF QuotesInOrder
  <2>2. entered[p] # now
    BY <1>1, <2>1, EnteredWhereOpen, SlotsAreBounded
  <2> QED BY <1>1, <2>2
<1>5. EntryStart(p)' = EntryStart(p)
  BY <1>1, <1>4 DEF EntryStart
<1>6. \A s : s \in EntryBids(p)
            <=> /\ s \in EntryStart(p)..WindowEnd(p)
                /\ <<s, "bid">> \in quotes[p] \/ <<s, "bare">> \in quotes[p]
  BY BidsMember DEF EntryBids
<1>7. \A s : s \in EntryBids(p)'
            <=> /\ s \in EntryStart(p)'..WindowEnd(p)'
                /\ <<s, "bid">> \in quotes'[p] \/ <<s, "bare">> \in quotes'[p]
  BY BidsMemberNext
<1>8. EntryBids(p) \subseteq EntryBids(p)'
  BY <1>1, <1>2, <1>5, <1>6, <1>7
<1>9. ASSUME NEW s \in DueBids(p)' PROVE s \in DueBids(p) \/ s = now
  <2>1. s \in EntryBids(p)' /\ s >= Deadline(p) /\ <<s, "bid">> \in quotes[p]'
    BY <1>2, <1>9 DEF DueBids
  <2>2. CASE s = now
    BY <2>2
  <2>3. CASE s # now
    BY <1>1, <1>2, <1>5, <1>6, <1>7, <2>1, <2>3 DEF DueBids
  <2> QED BY <2>2, <2>3
<1>10. ASSUME NEW s \in EntryBids(p)
       PROVE  s < now /\ (s \in DueBids(p)' => s \in DueBids(p))
  <2>1. s < now
    BY <1>3, <1>6
  <2>2. s \in Nat
    BY BidsAreSlots, SlotsAreBounded DEF EntryBids
  <2> QED BY <1>1, <1>9, <2>1, <2>2
<1> QED BY <1>5, <1>8, <1>9, <1>10

(* Where quotes, entry and label of an entry stay, so do their relations.  *)
LEMMA Untouched ==
  ASSUME NEW p \in Products,
         quotes'[p] = quotes[p], entered'[p] = entered[p]
  PROVE  /\ EntryBids(p)' = EntryBids(p)
         /\ DueBids(p)' = DueBids(p)
<1>1. WindowEnd(p)' = WindowEnd(p) /\ Deadline(p)' = Deadline(p)
  BY DEF WindowEnd, Deadline, Due
<1>2. EntryStart(p)' = EntryStart(p)
  BY DEF EntryStart
<1>3. EntryBids(p)' = EntryBids(p)
  BY <1>1, <1>2 DEF EntryBids, Bids, Window
<1> QED BY <1>1, <1>3 DEF DueBids

LEMMA QuotesStep ==
  ASSUME TypeOK, QuotesInOrder, TodoIsRecorded, [Next]_vars
  PROVE  QuotesInOrder'
<1>1. ASSUME NEW p \in Products, NEW k \in Kinds, Record(p, k) PROVE QuotesInOrder'
  <2> SUFFICES ASSUME NEW r \in Products
               PROVE  /\ \A q \in quotes'[r] : q[1] =< now'
                      /\ status'[r] # "none" =>
                           \/ <<entered'[r], "bid">> \in quotes'[r]
                           \/ <<entered'[r], "bare">> \in quotes'[r]
    BY DEF QuotesInOrder
  <2>1. CASE r = p
    <3>1. quotes'[r] = {<<now, k>>} /\ entered'[r] = now /\ now' = now
      BY <1>1, <2>1 DEF Record, TypeOK
    <3> QED BY <1>1, <3>1, SlotsAreBounded DEF Record, TypeOK
  <2>2. CASE r # p
    BY <1>1, <2>2 DEF Record, TypeOK, QuotesInOrder
  <2> QED BY <2>1, <2>2
<1>2. ASSUME NEW p \in Products, NEW k \in Kinds, Quote(p, k) PROVE QuotesInOrder'
  <2>1. \A r \in Products : /\ quotes[r] \subseteq quotes'[r]
                            /\ \A q \in quotes'[r] : q \in quotes[r] \/ q = <<now, k>>
    BY <1>2 DEF Quote, TypeOK
  <2>2. entered' = entered /\ status' = status /\ now' = now /\ now =< now
    BY <1>2, SlotsAreBounded DEF Quote, TypeOK
  <2> QED BY <2>1, <2>2 DEF QuotesInOrder
<1>3. CASE Tick
  <2>1. /\ now' >= now /\ now \in Nat /\ now' \in Nat
        /\ \A r \in Products : \A q \in quotes[r] : q[1] \in Nat
    BY <1>3, SlotsAreBounded DEF Tick, TypeOK
  <2> QED BY <1>3, <2>1 DEF Tick, QuotesInOrder
<1>4. ASSUME UNCHANGED <<now, entered, quotes>>,
             \A p \in Products : status[p] = "none" => status'[p] = "none"
      PROVE  QuotesInOrder'
  BY <1>4 DEF QuotesInOrder
<1>5. ASSUME NEW p \in Products, UpdateStatus(p) PROVE QuotesInOrder'
  <2>1. status[p] # "none"
    BY <1>5, TodoIsOpen DEF UpdateStatus, TodoIsRecorded
  <2> QED BY <1>4, <1>5, <2>1 DEF UpdateStatus, TypeOK
<1>6. CASE \/ StartJob \/ EntriesDone \/ ShadowsDone \/ Crash \/ UNCHANGED vars
          \/ \E p \in Products : \/ InsertLabel(p) \/ AlreadyLabeled(p)
                                 \/ LabelShadow(p)
                                 \/ \E d \in 0..LastDay : Bar(p, d)
  BY <1>4, <1>6 DEF StartJob, EntriesDone, ShadowsDone, Crash, vars, InsertLabel,
                    AlreadyLabeled, LabelShadow, Bar
<1> QED BY <1>1, <1>2, <1>3, <1>5, <1>6 DEF Next, JobStep

LEMMA ExitsStep ==
  ASSUME TypeOK, TypeOK', QuotesInOrder, ExitsAreFirst, TodoIsRecorded, [Next]_vars
  PROVE  ExitsAreFirst'
<1> DEFINE Right(r) ==
      /\ label[r] # NoLabel => status[r] # "none"
      /\ label[r].reason = "HORIZON" =>
           /\ label[r].exit \in EntryBids(r)
           /\ label[r].exit \in DueBids(r) => \A s \in DueBids(r) : label[r].exit =< s
<1>1. ASSUME NEW r \in Products, quotes'[r] = quotes[r], entered'[r] = entered[r],
             label'[r] = label[r], status[r] # "none" => status'[r] # "none"
      PROVE  Right(r)'
  <2>1. EntryBids(r)' = EntryBids(r) /\ DueBids(r)' = DueBids(r)
    BY <1>1, Untouched
  <2> QED BY <1>1, <2>1 DEF ExitsAreFirst
<1>2. ASSUME NEW p \in Products, NEW k \in Kinds, Record(p, k) PROVE ExitsAreFirst'
  <2>1. Right(p)'
    <3>1. label'[p] = NoLabel
      BY <1>2 DEF Record, ExitsAreFirst
    <3> QED BY <3>1 DEF NoLabel
  <2>2. ASSUME NEW r \in Products, r # p PROVE Right(r)'
    BY <1>1, <1>2, <2>2 DEF Record, TypeOK
  <2> QED BY <2>1, <2>2 DEF ExitsAreFirst
<1>3. ASSUME NEW p \in Products, NEW k \in Kinds, Quote(p, k) PROVE ExitsAreFirst'
  <2>1. Right(p)'
    <3>1. label'[p] = label[p] /\ status'[p] = status[p] /\ now \in Nat
      BY <1>3, SlotsAreBounded DEF Quote, TypeOK
    <3>2. ASSUME label[p].reason = "HORIZON"
          PROVE  /\ label[p].exit \in EntryBids(p)'
                 /\ label[p].exit \in DueBids(p)' =>
                      \A s \in DueBids(p)' : label[p].exit =< s
      <4>1. /\ label[p].exit \in EntryBids(p)
            /\ label[p].exit \in DueBids(p) => \A s \in DueBids(p) : label[p].exit =< s
        BY <3>2 DEF ExitsAreFirst
      <4>2. label[p].exit \in Nat /\ label[p].exit < now
        BY <1>3, <4>1, LaterQuote, BidsAreSlots, SlotsAreBounded DEF EntryBids
      <4> QED BY <1>3, <3>1, <4>1, <4>2, LaterQuote
    <3> QED BY <3>1, <3>2 DEF ExitsAreFirst
  <2>2. ASSUME NEW r \in Products, r # p PROVE Right(r)'
    BY <1>1, <1>3, <2>2 DEF Quote, TypeOK
  <2> QED BY <2>1, <2>2 DEF ExitsAreFirst
<1>4. ASSUME NEW p \in Products, InsertLabel(p) PROVE ExitsAreFirst'
  <2>1. Right(p)'
    <3>1. label'[p] = EntryResolution(p) /\ status'[p] = status[p] /\ status[p] # "none"
      BY <1>4, TodoIsOpen DEF InsertLabel, TypeOK, TodoIsRecorded
    <3>2. EntryBids(p)' = EntryBids(p) /\ DueBids(p)' = DueBids(p)
      BY <1>4, Untouched DEF InsertLabel
    <3> QED BY <3>1, <3>2, EnteredWhereOpen, EntryResolutionSpec
  <2>2. ASSUME NEW r \in Products, r # p PROVE Right(r)'
    BY <1>1, <1>4, <2>2 DEF InsertLabel, TypeOK
  <2> QED BY <2>1, <2>2 DEF ExitsAreFirst
<1>5. ASSUME UNCHANGED <<entered, quotes, label>>,
             \A r \in Products : status[r] # "none" => status'[r] # "none"
      PROVE  ExitsAreFirst'
  BY <1>1, <1>5 DEF ExitsAreFirst
<1>6. ASSUME NEW p \in Products, UpdateStatus(p) PROVE ExitsAreFirst'
  <2>1. \A r \in Products : status[r] # "none" => status'[r] # "none"
    BY <1>6 DEF UpdateStatus, TypeOK, FinalStatus
  <2> QED BY <1>5, <1>6, <2>1 DEF UpdateStatus
<1>7. CASE \/ Tick \/ StartJob \/ EntriesDone \/ ShadowsDone \/ Crash
          \/ UNCHANGED vars
          \/ \E p \in Products : \/ AlreadyLabeled(p) \/ LabelShadow(p)
                                 \/ \E d \in 0..LastDay : Bar(p, d)
  BY <1>5, <1>7 DEF Tick, StartJob, EntriesDone, ShadowsDone, Crash, vars,
                    AlreadyLabeled, LabelShadow, Bar
<1> QED BY <1>2, <1>3, <1>4, <1>6, <1>7 DEF Next, JobStep

-----------------------------------------------------------------------------
(* The label job.                                                          *)

LEMMA TodoStep ==
  ASSUME TypeOK, TodoIsRecorded, [Next]_vars
  PROVE  TodoIsRecorded'
<1>1. ASSUME NEW p \in Products, NEW k \in Kinds, Record(p, k) PROVE TodoIsRecorded'
  BY <1>1 DEF Record, TypeOK, TodoIsRecorded
<1>2. CASE StartJob
  BY <1>2 DEF StartJob, DueEntries, TodoIsRecorded
<1>3. CASE EntriesDone
  BY <1>3 DEF EntriesDone, DueShadows, TodoIsRecorded
<1>4. ASSUME NEW p \in Products, InsertLabel(p) PROVE TodoIsRecorded'
  BY <1>4 DEF InsertLabel, TodoIsRecorded
<1>5. ASSUME NEW p \in Products, UpdateStatus(p) PROVE TodoIsRecorded'
  BY <1>5 DEF UpdateStatus, TypeOK, TodoIsRecorded
<1>6. ASSUME NEW p \in Products, LabelShadow(p) PROVE TodoIsRecorded'
  BY <1>6 DEF LabelShadow, TodoIsRecorded
<1>7. CASE \/ Tick \/ ShadowsDone \/ Crash \/ UNCHANGED vars
          \/ \E p \in Products : \/ AlreadyLabeled(p)
                                 \/ \E d \in 0..LastDay : Bar(p, d)
                                 \/ \E k \in Kinds : Quote(p, k)
  BY <1>7 DEF Tick, ShadowsDone, Crash, vars, AlreadyLabeled, Bar, Quote, TodoIsRecorded
<1> QED BY <1>1, <1>2, <1>3, <1>4, <1>5, <1>6, <1>7 DEF Next, JobStep

LEMMA CrashesStep ==
  ASSUME TypeOK, QuotesInOrder, ExitsAreFirst, TodoIsRecorded, CrashesCovered,
         [Next]_vars
  PROVE  CrashesCovered'
<1> USE FS_CardinalityType
<1>0. crashes \in Nat
  BY LedgerAssumption DEF TypeOK
<1>1. ASSUME UNCHANGED <<label, crashes>>,
             \A p \in Products : Closed(p)' <=> Closed(p),
             job # "half", job' # "half"
      PROVE  CrashesCovered'
  BY <1>1 DEF CrashesCovered, Disagreeing
<1>2. ASSUME NEW p \in Products, NEW k \in Kinds, Record(p, k) PROVE CrashesCovered'
  <2>1. \A r \in Products : Closed(r)' <=> Closed(r)
    BY <1>2 DEF Record, TypeOK, Closed
  <2> QED BY <1>1, <1>2, <2>1 DEF Record
<1>3. ASSUME NEW p \in Products, InsertLabel(p) PROVE CrashesCovered'
  <2>1. /\ p \in todo /\ status[p] = "open" /\ label[p] = NoLabel
        /\ label' = [label EXCEPT ![p] = EntryResolution(p)]
        /\ job # "half" /\ job' = "half" /\ Min(todo)' = p
        /\ UNCHANGED <<status, todo, crashes>>
    BY <1>3, TodoIsOpen DEF InsertLabel, MayLabel, TodoIsRecorded
  <2>2. EntryResolution(p) # NoLabel
    BY <2>1, EnteredWhereOpen, EntryResolutionSpec
  <2>3. label'[p] # NoLabel /\ \A r \in Products : r # p => label'[r] = label[r]
    BY <2>1, <2>2 DEF TypeOK
  <2>4. Disagreeing' = Disagreeing \cup {p} /\ p \notin Disagreeing
    BY <2>1, <2>3 DEF Disagreeing, Closed
  <2>5. IsFiniteSet(Disagreeing') /\ Disagreeing' \ {p} = Disagreeing
    BY <2>4, FS_AddElement DEF CrashesCovered
  <2> QED BY <2>1, <2>3, <2>5 DEF CrashesCovered
<1>4. ASSUME NEW p \in Products, UpdateStatus(p) PROVE CrashesCovered'
  <2>1. /\ p = Min(todo) /\ label[p] # NoLabel /\ job = "half" /\ job' = "entries"
        /\ status' = [status EXCEPT ![p] = FinalStatus(p)]
        /\ UNCHANGED <<label, crashes>>
    BY <1>4 DEF UpdateStatus, CrashesCovered
  <2>2. Closed(p)' /\ \A r \in Products : r # p => (Closed(r)' <=> Closed(r))
    BY <2>1 DEF FinalStatus, Closed, TypeOK
  <2>3. Disagreeing' = Disagreeing \ {p}
    BY <2>1, <2>2 DEF Disagreeing
  <2>4. IsFiniteSet(Disagreeing')
    BY <2>3, FS_RemoveElement DEF CrashesCovered
  <2> QED BY <2>1, <2>3, <2>4 DEF CrashesCovered
<1>5. CASE Crash
  <2>1. /\ Disagreeing' = Disagreeing /\ crashes' = crashes + 1 /\ job' = "idle"
        /\ IsFiniteSet(Disagreeing) /\ Cardinality(Disagreeing) \in Nat
    BY <1>5 DEF Crash, Disagreeing, Closed, CrashesCovered
  <2>2. CASE job = "half"
    <3>1. Cardinality(Disagreeing \ {Min(todo)}) =< crashes
      BY <2>2 DEF CrashesCovered
    <3> DEFINE m == Min(todo)
               D == Disagreeing
    <3> HIDE DEF m, D
    <3>a. IsFiniteSet(D) /\ Cardinality(D) \in Nat
      BY <2>1 DEF D
    <3>b. Cardinality(D \ {m}) = IF m \in D THEN Cardinality(D) - 1 ELSE Cardinality(D)
      BY <3>a, FS_RemoveElement
    <3>c. Cardinality(D) =< Cardinality(D \ {m}) + 1
      BY <3>a, <3>b
    <3>d. crashes \in Nat /\ Cardinality(D \ {m}) \in Nat /\ Cardinality(D \ {m}) =< crashes
      BY <1>0, <3>1, <3>a, FS_RemoveElement, FS_CardinalityType DEF D, m
    <3>2. Cardinality(Disagreeing) =< crashes + 1
      <4>1. Cardinality(D) =< crashes + 1
        BY <3>a, <3>c, <3>d
      <4> QED BY <4>1 DEF D
    <3> QED BY <2>1, <3>2 DEF CrashesCovered
  <2>3. CASE job # "half"
    BY <1>0, <2>1, <2>3 DEF CrashesCovered
  <2> QED BY <2>2, <2>3
<1>6. CASE \/ Tick \/ StartJob \/ EntriesDone \/ ShadowsDone
          \/ \E p \in Products : \/ AlreadyLabeled(p) \/ LabelShadow(p)
                                 \/ \E d \in 0..LastDay : Bar(p, d)
                                 \/ \E k \in Kinds : Quote(p, k)
  <2>1. UNCHANGED <<label, crashes, status>> /\ job # "half" /\ job' # "half"
    BY <1>6 DEF Tick, StartJob, EntriesDone, ShadowsDone, AlreadyLabeled, LabelShadow,
                Bar, Quote
  <2> QED BY <1>1, <2>1 DEF Closed
<1>7. CASE UNCHANGED vars
  BY <1>7 DEF vars, CrashesCovered, Disagreeing, Closed
<1> QED BY <1>2, <1>3, <1>4, <1>5, <1>6, <1>7 DEF Next, JobStep

-----------------------------------------------------------------------------

LEMMA InitHolds == Init => IInv
<1> SUFFICES ASSUME Init PROVE IInv
  OBVIOUS
<1>1. TypeOK
  <2>1. now \in Slots /\ crashes \in 0..MaxCrashes
    BY LedgerAssumption, SlotsAreBounded DEF Init
  <2>2. /\ entered \in [Products -> Slots \cup {NoSlot}]
        /\ quotes \in [Products -> SUBSET (Slots \X Kinds)]
        /\ touched \in [Products -> SUBSET (0..LastDay)]
        /\ status \in [Products -> Statuses]
    BY DEF Init, Statuses
  <2>3. NoLabel \in [reason : Reasons \cup {"none"}, exit : Slots \cup {NoSlot}]
    BY DEF NoLabel
  <2>4. \A f \in {label, shadow} :
          f \in [Products -> [reason : Reasons \cup {"none"}, exit : Slots \cup {NoSlot}]]
    BY <2>3 DEF Init
  <2>5. job \in Jobs /\ todo \subseteq Products /\ ran \in BOOLEAN
    BY DEF Init, Jobs
  <2> QED BY <2>1, <2>2, <2>4, <2>5 DEF TypeOK
<1>2. QuotesInOrder /\ ExitsAreFirst /\ TodoIsRecorded
  BY DEF Init, QuotesInOrder, ExitsAreFirst, TodoIsRecorded, NoLabel
<1>3. Disagreeing = {}
  BY DEF Init, Disagreeing, Closed
<1>4. CrashesCovered
  BY <1>3, FS_EmptySet DEF Init, CrashesCovered
<1> QED BY <1>1, <1>2, <1>4 DEF IInv

LEMMA StepHolds == IInv /\ [Next]_vars => IInv'
<1> SUFFICES ASSUME IInv, [Next]_vars PROVE IInv'
  OBVIOUS
<1>1. TypeOK' /\ QuotesInOrder' /\ TodoIsRecorded' /\ CrashesCovered'
  BY TypeStep, QuotesStep, TodoStep, CrashesStep DEF IInv
<1>2. ExitsAreFirst'
  BY <1>1, ExitsStep DEF IInv
<1> QED BY <1>1, <1>2 DEF IInv

(* The invariant on which the properties rest holds in every state.        *)
THEOREM Inductive == Spec => []IInv
BY InitHolds, StepHolds, PTL DEF Spec

(* Entries, quotes, labels and the job keep their types.                   *)
THEOREM TypeCorrect == Spec => []TypeOK
<1>1. IInv => TypeOK
  BY DEF IInv
<1> QED BY <1>1, Inductive, PTL

(* A label that found a timestamped quote after the due time is the one    *)
(* any later job would write, unless a knock-out has come to light.        *)
THEOREM DueExitsAreStable == Spec => []DueExitIsStable
<1>1. IInv => DueExitIsStable
  <2> SUFFICES ASSUME IInv, NEW p \in Products,
                      label[p].reason = "HORIZON", label[p].exit >= Deadline(p),
                      <<label[p].exit, "bid">> \in quotes[p],
                      EntryResolution(p).reason # "KO"
               PROVE  label[p].exit = EntryResolution(p).exit
    BY DEF DueExitIsStable
  <2>1. TypeOK /\ EntryBids(p) # {} /\ label[p].exit \in DueBids(p)
        /\ \A s \in DueBids(p) : label[p].exit =< s
    BY DEF IInv, ExitsAreFirst, DueBids
  <2>2. EntryResolution(p).exit = ExitQuote(p, EntryBids(p))
    BY <2>1 DEF EntryResolution, EntryStart, EntryBids, Resolution, KnockedOut
  <2>3. EntryResolution(p).exit = Min(DueBids(p))
    BY <2>1, <2>2, ExitQuoteSpec
  <2>4. DueBids(p) \subseteq Slots
    BY <2>1, BidsAreSlots DEF DueBids, EntryBids
  <2>5. Min(DueBids(p)) \in DueBids(p) /\ Min(DueBids(p)) =< label[p].exit
    BY <2>1, <2>4, SlotsAreBounded
  <2> QED BY <2>1, <2>3, <2>4, <2>5, SlotsAreBounded
<1> QED BY <1>1, Inductive, PTL

(* Between two statements apart, status and label disagree at most once a  *)
(* crash of the label job.                                                 *)
THEOREM OnlyCrashesDisagree == Spec => []DisagreementIsACrash
<1>1. IInv => DisagreementIsACrash
  <2>1. Disagreeing = {p \in Products :
           (status[p] \in {"labeled", "expired_no_data"}) # (label[p] # NoLabel)}
    BY DEF Disagreeing, Closed
  <2> QED BY <2>1 DEF IInv, CrashesCovered, DisagreementIsACrash
<1> QED BY <1>1, Inductive, PTL

(* No label is written twice.                                              *)
THEOREM LabelsAreFinal == Spec => LabelIsFinal
<1>1. IInv /\ [Next]_vars
        => [\A p \in Products : label[p] # NoLabel => label'[p] = label[p]]_vars
  <2> SUFFICES ASSUME IInv, Next, NEW p \in Products, label[p] # NoLabel
               PROVE  label'[p] = label[p]
    OBVIOUS
  <2>1. ASSUME NEW r \in Products, InsertLabel(r) PROVE label'[p] = label[p]
    BY <2>1 DEF InsertLabel, MayLabel, IInv, TypeOK
  <2>2. (\A r \in Products : ~InsertLabel(r)) => label' = label
    BY DEF Next, JobStep, Record, Quote, Bar, Tick, StartJob, UpdateStatus,
           AlreadyLabeled, LabelShadow, EntriesDone, ShadowsDone, Crash
  <2> QED BY <2>1, <2>2
<1> QED BY <1>1, Inductive, PTL DEF Spec, LabelIsFinal

=============================================================================
