----------------------------- MODULE ScanRisk -------------------------------
(* One batch of pipeline/scan_all.py after another: which candidates of a  *)
(* scan become ACTIONABLE proposals, sized and gated against the capital   *)
(* that held positions and open proposals already use.  Fractions of the   *)
(* research capital are counted in whole units.  Of a scan's candidates    *)
(* only those appear whose own gates pass: every other one is recorded as  *)
(* WATCH, REJECT or DATA_QUALITY and uses no budget.                       *)
EXTENDS Integers, FiniteSets, FiniteSetsExt, Functions, Bags

CONSTANTS
  Underlyings, Issuers, Clusters,
  Unknown,               \* a position whose ISIN no scan has seen
  Clusterings,           \* what compute_clusters may return (numerics)
  MaxPosition, MaxCluster, MaxIssuer, MaxTotal,   \* SizingConfig
  MaxActive,             \* ClusterConfig.max_active_positions_per_cluster
  MaxBatches,            \* bound: scan-all runs
  MaxHeld, HeldSizes     \* bounds: manual positions, their fractions

ASSUME CapsAssumption ==
  /\ {MaxPosition, MaxCluster, MaxIssuer, MaxTotal, MaxActive} \subseteq Nat \ {0}
  /\ HeldSizes \subseteq Nat \ {0}
ASSUME UnknownAssumption == Unknown \notin Underlyings \cup Issuers
ASSUME ClusteringsAssumption ==
  /\ IsFiniteSet(Clusters)
  /\ Clusterings # {} /\ Clusterings \subseteq [Underlyings -> Clusters]

VARIABLES
  positions,    \* bag of the open manual positions
  ledger,       \* bag of the open ACTIONABLE entries of the forward ledger
  phase, todo, clusterOf, passed,          \* the batch
  use, unattributed, total, issuerUsed,    \* the batch's accumulators
  current, covered, healthy, running, new, \* the scan of one underlying
  orphans,      \* history: what scans of this batch recorded and then failed
  batches

store == <<positions, ledger>>
acc   == <<use, unattributed, total, issuerUsed>>
batch == <<todo, clusterOf, passed, acc, orphans>>
scan  == <<current, covered, healthy, running, new>>
vars  == <<store, phase, batch, scan, batches>>

Position == [underlying : Underlyings \cup {Unknown},
             issuer : Issuers \cup {Unknown}, fraction : HeldSizes]
Entry    == [underlying : Underlyings, issuer : Issuers,
             fraction : 1..MaxPosition, shadow : BOOLEAN, healthy : BOOLEAN]

Load(n, cap) == [n |-> n, cap |-> cap]   \* positions and capital of a cluster

-----------------------------------------------------------------------------
(* positions/usage.py: what held positions and open proposals use.  A      *)
(* proposal counts from the moment it is stored until it is labeled,       *)
(* unless it is a shadow pick.                                             *)

SumOf(bag, part) ==
  SumFunctionOnSet([e \in DOMAIN bag |-> e.fraction * bag[e]], DOMAIN bag \cap part)
CountOf(bag, part) == SumFunctionOnSet(bag, DOMAIN bag \cap part)

ReservedOf(bag) == [e \in {x \in DOMAIN bag : ~x.shadow} |-> bag[e]]
Reserved        == ReservedOf(ledger)
Book            == DOMAIN positions \cup DOMAIN Reserved

UsedBy(part)     == SumOf(positions, part) + SumOf(Reserved, part)
ClusterUse(f, c) ==
  LET part == {e \in Book : e.underlying # Unknown /\ f[e.underlying] = c}
  IN  Load(CountOf(positions, part) + CountOf(Reserved, part), UsedBy(part))
IssuerUse(i)     == UsedBy({e \in Book : e.issuer = i})
TotalUse         == UsedBy(Book)
UnattributedUse  == UsedBy({e \in Book : e.underlying = Unknown})

(* portfolio_risk_verdict: fails closed, also on what cannot be attributed *)
WithinCaps(f) ==
  /\ TotalUse =< MaxTotal
  /\ \A c \in Clusters : ClusterUse(f, c).cap =< MaxCluster
  /\ \A i \in Issuers : IssuerUse(i) =< MaxIssuer
  /\ \A p \in DOMAIN positions : Unknown \notin {p.underlying, p.issuer}

-----------------------------------------------------------------------------
(* The gates of one candidate.                                             *)

Room(cap, used) == Max({0, cap - used})

(* Mutant: nobody supplies total_risk_used.                                *)
SizeIgnoresTotal(want, c, i) ==
  Min({want, MaxPosition, Room(MaxCluster, use[c].cap),
       Room(MaxIssuer, issuerUsed[i])})

(* ranking/sizing.py: what Kelly wants, under each cap net of what was     *)
(* used when the scan began.                                               *)
Size(want, c, i) ==
  Min({want, MaxPosition, Room(MaxCluster, use[c].cap),
       Room(MaxIssuer, issuerUsed[i]), Room(MaxTotal, total)})

(* Mutant: the check counts what was open when the scan began.             *)
ClusterPassOfBaseline(fraction) ==
  /\ use[clusterOf[current]].n + 1 =< MaxActive
  /\ use[clusterOf[current]].cap + fraction =< MaxCluster

(* ranking/cluster.py: within both caps of the cluster, counting what this *)
(* scan has admitted before.                                               *)
ClusterPass(fraction) ==
  /\ running.n + 1 =< MaxActive
  /\ running.cap + fraction =< MaxCluster

(* Mutant: a candidate without a size is a proposal.                        *)
ActionableAtZero(fraction) == ClusterPass(fraction) /\ covered /\ passed

(* ranking/gates.py: the preconditions beyond the candidate's own data.    *)
Actionable(fraction) ==
  fraction > 0 /\ ClusterPass(fraction) /\ covered /\ passed

(* Which candidates the forecast pipeline evaluates.  The prefilter takes  *)
(* WATCH candidates, of which there are none if every source is unhealthy; *)
(* the shadow sample is drawn from all that have a price.                  *)
Sampled(shadow) == healthy \/ shadow

-----------------------------------------------------------------------------
(* The batch.                                                              *)

NoUse       == [c \in Clusters |-> Load(0, 0)]
NoClusters  == CHOOSE f \in Clusterings : TRUE

Init ==
  /\ positions = EmptyBag /\ ledger = EmptyBag /\ batches = 0
  /\ phase = "idle" /\ todo = {} /\ clusterOf = NoClusters
  /\ passed = FALSE /\ orphans = EmptyBag
  /\ use = NoUse /\ unattributed = 0 /\ total = 0
  /\ issuerUsed = [i \in Issuers |-> 0]
  /\ current = Unknown /\ covered = FALSE /\ healthy = FALSE
  /\ running = Load(0, 0) /\ new = EmptyBag

(* What the process held of a scan, and of a batch, is gone.               *)
ForgetScan ==
  /\ current' = Unknown /\ covered' = FALSE /\ healthy' = FALSE
  /\ running' = Load(0, 0) /\ new' = EmptyBag

ForgetBatch ==
  /\ phase' = "idle" /\ todo' = {} /\ clusterOf' = NoClusters
  /\ passed' = FALSE /\ orphans' = EmptyBag
  /\ use' = NoUse /\ unattributed' = 0 /\ total' = 0
  /\ issuerUsed' = [i \in Issuers |-> 0]

(* Clusters are computed anew for every batch.  Without a known capital    *)
(* nothing can be counted and the verdict is negative.                     *)
StartBatch(f, known) ==
  /\ phase = "idle" /\ batches < MaxBatches
  /\ batches' = batches + 1
  /\ phase' = "batch" /\ todo' = Underlyings /\ clusterOf' = f
  /\ passed' = (known /\ WithinCaps(f))
  /\ use' = [c \in Clusters |-> IF known THEN ClusterUse(f, c) ELSE Load(0, 0)]
  /\ unattributed' = IF known THEN UnattributedUse ELSE 0
  /\ total' = IF known THEN TotalUse ELSE 0
  /\ issuerUsed' = [i \in Issuers |-> IF known THEN IssuerUse(i) ELSE 0]
  /\ orphans' = EmptyBag
  /\ UNCHANGED <<store, scan>>

(* The data of one underlying arrive and its candidates get their first    *)
(* category; whether a production alpha covers it is read from the store.  *)
StartScan(u) ==
  /\ phase = "batch" /\ u \in todo
  /\ phase' = "scan" /\ todo' = todo \ {u} /\ current' = u
  /\ covered' \in BOOLEAN /\ healthy' \in BOOLEAN
  /\ running' = use[clusterOf[u]] /\ new' = EmptyBag
  /\ UNCHANGED <<store, clusterOf, passed, acc, orphans, batches>>

(* One candidate in the loop over the evaluated ones, best score first.    *)
Admit(i, want, shadow) ==
  LET fraction == Size(want, clusterOf[current], i)
  IN  /\ phase = "scan" /\ Sampled(shadow) /\ Actionable(fraction)
      /\ running' = Load(running.n + 1, running.cap + fraction)
      /\ new' = new (+) SetToBag({[underlying |-> current, issuer |-> i,
                                   fraction |-> fraction, shadow |-> shadow,
                                   healthy |-> healthy]})
      /\ UNCHANGED <<store, phase, batch, current, covered, healthy, batches>>

(* The entries of the scan are written before the proposals are mailed and *)
(* before the candidates and the reports are stored.                       *)
Record ==
  /\ phase = "scan" /\ phase' = "recorded"
  /\ ledger' = ledger (+) new
  /\ UNCHANGED <<positions, batch, scan, batches>>

(* Mutant: the issuers' budgets are those of the batch's beginning.        *)
ReturnForgetsIssuers ==
  LET u == [use EXCEPT ![clusterOf[current]] = running]
  IN  /\ phase = "recorded" /\ phase' = "batch"
      /\ use' = u
      /\ total' = unattributed + SumFunction([c \in Clusters |-> u[c].cap])
      /\ ForgetScan
      /\ UNCHANGED <<store, todo, clusterOf, passed, unattributed, issuerUsed,
                     orphans, batches>>

(* The scan returns: the accumulators take over what it admitted, the      *)
(* issuers' from the entries read back.                                    *)
Return ==
  LET u == [use EXCEPT ![clusterOf[current]] = running]
  IN  /\ phase = "recorded" /\ phase' = "batch"
      /\ use' = u
      /\ total' = unattributed + SumFunction([c \in Clusters |-> u[c].cap])
      /\ issuerUsed' = [i \in Issuers |-> issuerUsed[i]
                          + SumOf(ReservedOf(new), {e \in DOMAIN new : e.issuer = i})]
      /\ ForgetScan
      /\ UNCHANGED <<store, todo, clusterOf, passed, unattributed, orphans,
                     batches>>

(* The scan raises: the underlying is skipped and no accumulator changes,  *)
(* although the entries may have been stored before.                       *)
Skip ==
  /\ phase \in {"scan", "recorded"} /\ phase' = "batch"
  /\ orphans' = IF phase = "recorded" THEN orphans (+) new ELSE orphans
  /\ ForgetScan
  /\ UNCHANGED <<store, todo, clusterOf, passed, acc, batches>>

(* The batch ends, or its process dies.                                    *)
EndBatch ==
  /\ phase = "batch" /\ todo = {}
  /\ ForgetBatch
  /\ UNCHANGED <<store, scan, batches>>

Crash ==
  /\ phase # "idle"
  /\ ForgetBatch /\ ForgetScan
  /\ UNCHANGED <<store, batches>>

-----------------------------------------------------------------------------
(* Between batches an entry is labeled, or the operator records or closes  *)
(* a position, of a product of this system or of another.                  *)

Label(e) ==
  /\ phase = "idle" /\ e \in DOMAIN ledger
  /\ ledger' = ledger (-) SetToBag({e})
  /\ UNCHANGED <<positions, phase, batch, scan, batches>>

Open(p) ==
  /\ phase = "idle" /\ BagCardinality(positions) < MaxHeld
  /\ positions' = positions (+) SetToBag({p})
  /\ UNCHANGED <<ledger, phase, batch, scan, batches>>

Close(p) ==
  /\ phase = "idle" /\ p \in DOMAIN positions
  /\ positions' = positions (-) SetToBag({p})
  /\ UNCHANGED <<ledger, phase, batch, scan, batches>>

Next ==
  \/ \E f \in Clusterings, known \in BOOLEAN : StartBatch(f, known)
  \/ \E u \in Underlyings : StartScan(u)
  \/ \E i \in Issuers, want \in 0..MaxPosition, shadow \in BOOLEAN :
       Admit(i, want, shadow)
  \/ Record \/ Return \/ Skip \/ EndBatch \/ Crash
  \/ \E e \in Entry : Label(e)
  \/ \E p \in Position : Open(p) \/ Close(p)

Spec == Init /\ [][Next]_vars

-----------------------------------------------------------------------------
(* Properties.                                                             *)

IsBagOf(bag, S) == DOMAIN bag \subseteq S /\ IsABag(bag)

TypeOK ==
  /\ IsBagOf(positions, Position) /\ IsBagOf(ledger, Entry)
  /\ IsBagOf(new, Entry) /\ IsBagOf(orphans, Entry)
  /\ phase \in {"idle", "batch", "scan", "recorded"}
  /\ todo \subseteq Underlyings /\ clusterOf \in Clusterings
  /\ {passed, covered, healthy} \subseteq BOOLEAN
  /\ use \in [Clusters -> [n : Nat, cap : Nat]] /\ running \in [n : Nat, cap : Nat]
  /\ {unattributed, total, batches} \subseteq Nat /\ issuerUsed \in [Issuers -> Nat]
  /\ current \in Underlyings \cup {Unknown}

(* What the batch's failed scans had recorded, of a part of it: the only   *)
(* proposals that no budget of the batch knows of.                         *)
Uncounted(part) == LET r == ReservedOf(orphans)
                   IN  Load(CountOf(r, part), SumOf(r, part))

UncountedOf(i) == Uncounted({e \in DOMAIN orphans : e.issuer = i})
UncountedIn(c) == Uncounted({e \in DOMAIN orphans : clusterOf[e.underlying] = c})

(* Between two scans of a batch the budgets the next one is sized against  *)
(* cover what is stored, all but what failed scans of the batch recorded.  *)
BudgetsCoverTheStore ==
  phase = "batch" /\ passed =>
    /\ TotalUse =< total + Uncounted(DOMAIN orphans).cap
    /\ \A i \in Issuers : IssuerUse(i) =< issuerUsed[i] + UncountedOf(i).cap
    /\ \A c \in Clusters :
         /\ ClusterUse(clusterOf, c).cap =< use[c].cap + UncountedIn(c).cap
         /\ ClusterUse(clusterOf, c).n =< use[c].n + UncountedIn(c).n

Recording == phase = "scan" /\ phase' = "recorded"

(* A scan that records more capital in a cluster leaves the cluster within *)
(* both of its caps, whatever the batch admitted before, but for what the  *)
(* batch's failed scans recorded in that cluster.                          *)
ClusterCapIsKept ==
  [][Recording =>
       \A c \in Clusters :
         LET before == ClusterUse(clusterOf, c)
             after  == ClusterUse(clusterOf, c)'
         IN  after.cap > before.cap =>
               /\ after.cap =< MaxCluster + UncountedIn(c).cap
               /\ after.n =< MaxActive + UncountedIn(c).n]_vars

(* A scan adds nothing to a portfolio or an issuer at its cap, and beyond  *)
(* the cap less than one cluster's cap, although its candidates do not see *)
(* each other there: excesses do not add up over a batch, but for what its *)
(* failed scans recorded.                                                  *)
OvershootIsOneScan ==
  [][Recording =>
       /\ TotalUse' > TotalUse =>
            LET limit == MaxTotal + Uncounted(DOMAIN orphans).cap
            IN  TotalUse < limit /\ TotalUse' < limit + MaxCluster
       /\ \A i \in Issuers : IssuerUse(i)' > IssuerUse(i) =>
            LET limit == MaxIssuer + UncountedOf(i).cap
            IN  IssuerUse(i) < limit /\ IssuerUse(i)' < limit + MaxCluster]_vars

(* docs/data_sources.md: of a failing source, products are excluded via    *)
(* the data_health_pass gate.                                              *)
UnhealthyIsNotActionable == \A e \in DOMAIN ledger : e.healthy

=============================================================================
