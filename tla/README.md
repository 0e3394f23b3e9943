# TurboEdge: TLA+ models, model checking and proofs

This directory holds the TLA+ specifications of TurboEdge, a research system for
German turbo certificates (`src/src/turboedge`) that runs as scheduled GitHub Actions
jobs (`src/.github/workflows/pipeline.yml`) around one DuckDB file. Paths below are
relative to the repository.

## 1. The system: components, state, interaction

| component | state it keeps | operations | interacts with |
|---|---|---|---|
| state chain (`pipeline.yml`, actions `turboedge-state`, `turboedge-state-pack`) | one encrypted archive per run (14 days), a second weekly one (90 days) | trigger, restore, data steps, pack, upload, backend push | every other component: all of them live in the archive |
| durable backend (`state/backend.py`, `backend_s3.py`) | versioned objects with a checksum sidecar | put, get, list | the chain, as a fallback |
| archive (`state/archive.py`, `crypto.py`) | the state directory | pack, unpack (swap), subset unpack | the chain, recovery |
| recovery and retention (`state/recovery.py`, `retention.py`) | product snapshots, all tables | insert-only merge, compaction | the store |
| store (`storage/duckdb.py`) | all tables; each statement autocommits | insert, upsert, label, dedup | everything |
| trial registry (`learning/trials.py`, `failed_hypotheses.py`) | `research_trials`, dormant hypotheses | register within the quarterly budget, backfill | research loop |
| model registry, posteriors, drift (`learning/registry.py`, `posterior.py`, `drift.py`) | champion and challenger rows, weights | register, set status, promote | learn |
| forward ledger (`learning/ledger.py`, `labeler.py`) | ledger entries and labels | insert, label when due | scan writes, eod labels, learn reads |
| research loop (`research/step.py`, `controller.py`, `harness.py`) | screens, trials, queue priorities | decide, execute a screen, retry, record | queue, trials, mail |
| research queue (`meta/research_queue.py`) | lifecycle of every research question | seed, approve, transition, rescore | research loop |
| alpha registry (`alpha/schemas.py`, `registry.py`, `promotion.py`) | status and history of every alpha | register, transition, record evidence | research loop, reports |
| notifications (`notifications/*`) | dedup rows | build, send up to three times, record | scan, research loop, chain |
| external data factory (`external/*`, most of `adapters/*`) | observations, raw archive, triggers | ingest, readiness | queue |
| scan pipeline (`pipeline/*`, `universe/*`, `ranking/*`, `positions/*`) | snapshots, recommendations, positions | scan, gate, size, reevaluate | store, mail |
| monitoring (`monitoring/*`) | none; reads the Actions API | classify the health of runs and sources | chain |
| numerical code (`models/`, `backtest/`, `simulation/`, `pricing/`, `features/`) | none | pure floating-point functions | scan, learn |
| reporting, CLI | none | render | everything |

Behaviours that are hard here:

* nothing but the archive carries state from one run to the next, so which archive a
  restore picks decides what the ledger's past is;
* the store commits every statement on its own, so an operation of two statements can
  stop between them, and the archive may then keep the half that was written;
* lifecycles (research questions, alphas, screens, models) span months and many callers;
* the research loop is limited by a quarterly budget, a retry policy and human approval;
* mail is sent before the state that remembers it is saved.

What makes the components correct:

| component | what makes it correct |
|---|---|
| state chain, backend, archive | no published history is lost unless a run recorded why; broken runs leave nothing behind; no silent empty start; the group never blocks |
| recovery, retention | the quotes a labeler will read are complete; a thinned product keeps a quote of every day; a recovery that ends has brought everything back, and the state it leaves can be worked on |
| forward ledger | every entry gets one label, and the exit does not depend on when the job ran |
| research loop | one question is not asked of the same method again; the quarter's cap bounds the invocations; support stops the loop; every screen is counted as a trial |
| research queue | a question is worked on only after a named human approved it and with a trial; a seed never resets one |
| external data | one trigger a milestone and policy, in order; questions about data rest on stored triggers; a ready series gets its question |
| alpha lifecycle, registry | nothing earns that was not confirmed; allocation grows one rung at a time; history equals the row's path |
| scan and ranking | proposals stay within the caps of cluster, issuer and portfolio, whatever fails in between; products of an unhealthy source are not proposed |
| notifications | at least once, and not again after a saved success |

## 2. The plan and where it stands

The order is by what a failure costs: first what carries all state, then the places where a
wrong step rewrites evidence (alphas, labels), then the loop that spends the research budget,
then what feeds it and what it feeds.

| step | module | abstract promise, interaction | status |
|---|---|---|---|
| 1 | `StateChain`, `StateChain_proofs` | the chain of archives is linear | checked, proved |
| 2 | `AlphaLifecycle`, `AlphaLifecycle_proofs` | the abstract specification of an alpha's career | checked, proved |
| 3 | `AlphaRegistry`, `AlphaRegistry_proofs` | the registry's two-statement writes refine `AlphaLifecycle` | checked, proved |
| 4 | `ForwardLedger`, `ForwardLedger_proofs` | scan, quotes, bars and the label job, with a crash between its statements | checked, proved |
| 5 | `ResearchStep`, `ResearchStep_proofs` | the weekly loop with claims, retries, cap, support and alert | checked, proved |
| 6 | `ScanRisk`, `ScanRisk_proofs` | the batch of scans: budgets in memory against proposals in the store | checked, proved |
| 7 | `ResearchQueue`, `DataFactory`, `DataFactory_proofs` | the queue's promise, and the ingest, hand-off, seeding and outcome commands that refine it | checked, proved |
| 8 | `SnapshotStore`, `SnapshotStore_proofs` | composes scans, labels, compaction, pack, fallback and the recovery merge on one database | checked, proved |
| 9 | open | the directory swap of `state unpack`; deduplicated mails other than the screen's alert; the position update mail; the failure memory file | not modelled, section 7 |

## 3. Modules

Each module names its mutants (`(* Mutant: ... *)`) beside the definition they replace.
They are plausible bugs of the code; every checked property is violated by one of them.

### StateChain

Runs are numbered in creation order. The content of a state directory is abstracted to the
set of runs whose writes it holds (`history`). `phase` is where the run's job is: waiting
for the concurrency group (`queued`), in the restore action, in its mode's commands
(`data`), at the pack step, behind the upload, or concluded. `base`, `note` and `skipped`
record how the restore step ended.

| action | code |
|---|---|
| `Trigger`, `Start` | cron and dispatch triggers, the `turboedge-state` concurrency group of `pipeline.yml` |
| `RestoreFirstRun`, `RestoreArtifact`, `RestoreBackend`, `RestoreFresh`, `RestoreRefused` | the three cases of `.github/actions/turboedge-state/action.yml`, with the listing limit and its lag, the newest-first loop and the backend fallback |
| `DataSteps`, `DataStepFails` | the mode's own steps; `external` is `continue-on-error` |
| `PackAndUpload`, `SkipPack`, `Finish` | `turboedge-state-pack` under `if: success()`, then the backend push and the weekly copy |
| `Abort` | any failing step, cancellation and `timeout-minutes` |
| `Expire` | `retention-days` |

### AlphaLifecycle and AlphaRegistry

`AlphaLifecycle` is the abstract specification: the transition table of `alpha/schemas.py`
and the freeze rule, with two history variables (`passed`, the research states since the last
start; `rung`, the last rung of the allocation ladder) that let whole careers be judged.
`AlphaRegistry` is the code of `alpha/registry.py` over its two tables: a status change is
`UpsertAlphaSource` (inside `Register` or `Transition`) and then `AppendAlphaStatusChange`,
two statements, and `Crash` may fall between them. A caller passes any `now` it likes
(`registry.py:256`): `Instant` takes one later than all before, or one that is not, which
`skews` counts. The history variable `moves` is the path a row took with its instants; `Told`
are the moves no crash cut off, and `Kept` those of them whose key no later one took, since the
table is written with INSERT OR REPLACE. `HistoryTellsThePath` compares these with the table,
and, as long as no `now` ran backwards or repeated, their order with the one
`list_alpha_status_history` reads (`ListedInOrder`). `row` maps to the abstract variables by
`INSTANCE ... WITH`; the history table, the clock and crashes map to stuttering.

### ResearchStep

Questions are numbered by their rank in the queue, so `Min` is "the first of the ranking".
Rows of the current quarter are the state, because `run_research_step` reads no other.
`phase` is the position of the process in its run:

| phase | action, code (`research/step.py`, `research/controller.py`) |
|---|---|
| `idle` | `Tick`, `DataChange`, `FamilyFails`, `NewHarness`: the world between runs; `StartRun` |
| `decide` | `Shelve`, `Decide`, `OutOfDecisions`: `decide_next_action` in the loop of `run_research_step` |
| `execute` | `NoApprovedHarness`, `Claim`: the branches of `_execute_screen` |
| `unharnessed`, `claimed` | `MirrorUnharnessed`, `MirrorAndInvoke`: the trial row, a statement of its own |
| `running` | `HarnessFails`, `HarnessReturns` |
| `notify` | `Notify`: the alert of a supported screen |
| `record` | `RecordDecision` |

`Crash` may fall in every phase. A behaviour worth knowing: a question that was recorded as
having no approved harness stays set aside for the rest of the quarter, also if a human
registers one meanwhile (`Pending` looks at the row of version 0).

### ForwardLedger

Time is a slot, two per day, before and after the hour at which an exit quote counts.
A quote is the slot it was stored in, so which quote is the exit is all that is compared, and
no price appears. `Resolution` is `resolve_exit_with_fallback`: knock-out by feed or bar,
else the first timestamped bid from the deadline on, else the last bid of the window, else a
conservative exit or no data. The label job is `StartJob` (reads what is due), `InsertLabel`
and `UpdateStatus` (the two statements of `Store.attach_ledger_label`), `AlreadyLabeled` (the
`StoreError` that ends the job), then the shadow positions; `Crash` may fall anywhere in it.

### ScanRisk

One `scan-all` after another. `StartBatch` is the beginning of `run_scan_all`: clusters, the
portfolio's use and the verdict on it. `StartScan`, `Admit`, `Record` and `Return` are one
`_run_scan_body`: the candidates that pass the gates are admitted one by one against the
cluster's running load, but sized against the issuer and portfolio budgets of the scan's
beginning; the entries are stored; the accumulators take over what was admitted. `Skip` is the
`except` of the loop, which changes no accumulator even if the entries are stored already, and
`Crash` the end of the process. Fractions of capital are counted in units. `orphans` is a
history variable, which no action reads: the entries of this batch's scans that failed after
recording. The properties allow for these entries (`Uncounted`, `UncountedOf`, `UncountedIn`) and
for nothing else, so after such a failure everything is still asserted, with that much slack.

### ResearchQueue and DataFactory

`ResearchQueue` is what the queue promises of one question: `Propose` (a new row), `Approve`,
`MoveOn` along `ALLOWED_TRANSITIONS`. `DataFactory` is the commands that use it. An ingest run
is `StartIngest`, then per series `IngestOne` (the readiness record) and `StoreTrigger` (each a
statement), `AllEvaluated`, and the hand-off: `SeedFromDataReadiness` and `MarkHandedOff` per
trigger. `SeedFromCatalog`, `HumanMove` and the outcome commands (`ApplyOutcome`, `ApplyMove`,
`EndApply`) come in between runs. What a series' evidence is, is any; what state follows from
it, is `Readiness`. `Crash` may fall everywhere.

### SnapshotStore

A row of `product_snapshots` is a product, the tick it was observed and the tick of its quote;
an entry is a product and the tick of its scan; no price appears. A database (`db`, the
working one; `packed`, what the next job restores; `base`, an older state; `lost`, the archives
of runs the pipeline left behind) is a record of the four tables whose rows refer to each other,
and of what is owed to it: every row of a product from the moment an entry, its alternatives or
a baseline arm follows it. `job` is the step of the running job:

| job | action, code |
|---|---|
| `idle` | `Tick`; `ScanProducts`, `LabelDue`, `LabelRaises`: a `scan` or an `eod` job begins; `KeepBase`, `ResumeFromBase`: the loss of 2026-10-24; `StartMerge` |
| `record`, `shadow` | `RecordLedger`, `AppendShadows`: `_run_scan_body` |
| `archive` | `ArchiveProducts`: `run_product_archive` |
| `compact`, `drop`, `rename` | `Rebuild`, `DropOld`, `Rename`: the three committed statements of `compact_product_snapshots` |
| `rewrite` | `Rewrite`: `_rewrite_database_file`, whose copy may lack rows |
| `pack` | `Pack`: the state of a job that succeeded |
| `merge`, `merged` | `MergeTable`, `EndMerge`, `MergeCrashes`: `merge_recovered_state`, archive by archive and table by table in the order of their names |

`Crash` may fall at every step. `Runner` says what is there afterwards: on a runner the packed
state, on another machine the database as it is.

## 4. Runs

| run | bounds | what it shows |
|---|---|---|
| `state_chain` | 3 runs, listing window 2, lag 1, one flaky restore, backend on | `LossIsExplained`, `NoBrokenRunLeaks`, `NoSilentEmptyStart`, `NewestBase`, and `EveryRunConcludes` under fairness. Three runs are the fewest in which an archive expires, falls out of the window or fails to download while a newer one exists; the proofs have no bound. |
| `alpha_registry` | one version, 9 calls, 1 crash, 1 call whose `now` is an earlier call's or earlier still | the registry refines the lifecycle; production implies confirmation and promotion is one rung at a time; the history is the row's path minus what a crash cut off and what a later change to the same status at the same instant replaced; failure memory, a rejection's row included. Nine calls take a version through production to a health reading and another allocation, or through a stop and a retest, and let a status be entered twice at one instant. One version is enough, since rows and history rows of different versions have different keys; the proofs cover any number of versions, calls, crashes and such instants. |
| `research_step` | 2 questions of 2 families, one without a harness at first, cap 2, 2 attempts, retry after 1 week, a quarter of 3 weeks and the first week of the next, 2 harness versions, one decision a run, 1 crash | `DecidedIsOpen`, `InvocationsAreBounded`, `UnmirroredIsACrash`, `AnswersAreFinal`, `SupportStopsTheLoop`, and `ReadyIsScreened` under fairness. A retry, a new version between the attempts and the quarter's end all fit; the cap is reached by two questions or by two versions of one. |
| `forward_ledger` | one mini future, horizon 1, grace 1, 3 days, quotes with and without a timestamp and knock-outs, late bars, 1 crash | `DueExitIsStable`, at most one disagreement a crash, and every entry labeled if no crash came. Products interact through the job's order only, which the next run needs. |
| `forward_ledger_poisoned` (violation) | 2 products, 1 crash | one half-written label blocks the entries behind it for ever |
| `scan_risk` | 2 underlyings in one cluster or two, 2 issuers, caps of 2 (position), 2 (issuer), 3 (cluster) and 3 (portfolio) units, 2 positions a cluster, one held position of 1 or 2, 3 batches | `BudgetsCoverTheStore`, `ClusterCapIsKept`, `OvershootIsOneScan`. Each cap of a cluster binds where the other does not: a third position of one unit fails the count with the capital kept, two positions of two units fail the capital with the count kept. Later batches start from what earlier ones stored, labeled or lost. Shadow picks reserve nothing, so states that differ in stored shadow picks only are explored once (`BudgetView`). |
| `scan_risk_health` (violation) | one batch, nothing held | a shadow pick of an unhealthy scan becomes ACTIONABLE |
| `data_factory` | 2 series with a question each, a question with a known outcome, 2 milestones, 2 policies, 2 moves by people, 1 crash | `HandoffIsSound`, `TrialDiscipline`, and the factory refines the queue. Two milestones are needed for order, two policies for a milestone that is earned again, two moves for an approval and what follows it. |
| `data_factory_handoff` (violation) | one milestone, one policy, 1 crash | a trigger stored by an interrupted run is never proposed |
| `snapshot_store` | 2 products, one the alternative of the other, 4 ticks of half a day, rows older than one day thinned, an exit after one day, quotes late by up to 1 tick, one loss | `PathsAreKept`, `DaysAreRepresented`, `RecoveryIsComplete`. At the last tick the first is old enough to be thinned, and a day has two quotes of which one is the last; a lost run has scanned, labeled or compacted before the merge. Rows are never hard-deleted here, which is the default; the proofs cover every cut-off. |
| `snapshot_store_merge` (violation) | the same, quotes on time | the merge brings the label of an entry the live state holds open, and no later label job gets past it |
| `snapshot_store_crash` (violation) | no loss, a machine that keeps its directory | a compaction that dies between DROP and RENAME, and the next one, destroy the history of a product of the ledger |

Deadlock is off where a bound, or the real system, ends every behaviour (runs, calls, days,
batches). The `MC` modules give constants their values; the configurations of the ledger and of
the alpha registry assign them directly.

**Fairness.** `StateChain`: weak fairness of a job step, since GitHub starts a pending run
once its group is free and every job ends by itself or by its timeout; nothing forces a
trigger or an expiry. `ResearchStep` and `ForwardLedger`: weak fairness of time, of the
scheduled start of a run (cron) and of the steps of a run that has started. `DataFactory`: weak
fairness of the scheduled ingest, its steps and the steps of a running command. No fairness is
assumed of the environment (data becoming ready, quotes, a delivered mail, a human).
`EveryEntryIsLabeled` and `ReadyIsScreened` speak of behaviours without a crash: what one does
to the ledger is the question of `forward_ledger_poisoned`.

## 5. Proofs

TLAPS proves the following for all values of the constants that satisfy the modules'
assumptions (`ChainAssumption`, `RegistryAssumption`, `StepAssumption`, `LedgerAssumption`,
`QueueAssumption`, `FactoryAssumption`, `StoreAssumption`, `CapsAssumption`, `UnknownAssumption`, `ClusteringsAssumption`).

| module | theorems | argument |
|---|---|---|
| `StateChain_proofs` | `TypeCorrect`, `ChainIsLinear`, `RestoresNewest`, `BrokenRunsLeaveNoTrace`, `EmptyStartIsFirst` | none of the properties is inductive: that a run's archive contains its predecessors' needs that runs are serialised (`Serial`, `Phases`), that a base is older and published (`Order`), that artifacts expire oldest first (`Fifo`), that an archive holds its base's history (`Grows`), that a live state directory holds writes of healthy runs or its own only (`Clean`), and that only run 1 can be taken for a first run (`FirstIsFirst`) |
| `AlphaLifecycle_proofs` | `TypeCorrect`, `ProductionIsConfirmed`, `PromotionEarned` | `PassedFits` says what each status must have passed, `RungFits` which rungs it may hold; both are closed under the table |
| `AlphaRegistry_proofs` | `TypeCorrect`, `HistoryComplete`, `RegistryImplementsLifecycle`, `StoredProductionIsConfirmed`, `StoredPromotionIsEarned`, `ForgetsNothing` | the initial state maps to the initial state and every step to a step of `AlphaLifecycle` or a stutter, given the types of rows (`RowsTyped`), and the theorems of `AlphaLifecycle_proofs`, instantiated under the mapping, carry over; that the history is the path needs an invariant of its own (`PathInv`): a row is where its last move took it, a rejection is a last move, crashes lose only moves that were made, and the change being written is the last move of its version (`MovesFit`); the table holds exactly the moves told whose key no later one took (`HistoryFits`); while no `now` ran backwards or repeated, no move is younger than the clock and the moves are in the order of their instants (`InOrder`). Failure memory follows: the row that INSERT OR REPLACE replaces has the key of the one being written, and it is not a rejection's, because nothing is written after a rejection. Neither theorem restricts the instants callers pass |
| `ForwardLedger_proofs` | `TypeCorrect`, `DueExitsAreStable`, `OnlyCrashesDisagree`, `LabelsAreFinal` | no stored quote lies in the future (`QuotesInOrder`), so the first timestamped bid from the due time on stays the first once it exists (`ExitsAreFirst`); what the job has yet to visit is recorded, and open while it visits entries (`TodoIsRecorded`); disagreeing entries are counted by crashes plus the one being written (`CrashesCovered`) |
| `ResearchStep_proofs` | `TypeCorrect`, `DecisionsAreOpen`, `RecordsAreBacked`, `OnlyCrashesHide`, `BudgetIsKept`, `NoSecondAnswer`, `SupportIsRespected` | a row without a status is empty and one without a harness is version 0's (`RowsFit`); by phase, the question under execution is still pending, nothing admissible has support, and the screen at work is RUNNING (`RunFits`); the decision about to be recorded rests on a mirrored screen or a support (`ActionIsBacked`), unmirrored screens are counted by crashes plus the current one (`CrashesCovered`). The bound on invocations counts pairs of a screen and one of its attempts: every invocation has one (`BudgetInv`), all belong to executed screens, and before a claim fewer than `Cap` screens are executed, so the pairs lie in a product of fewer than `Cap` screens and `MaxAttempts` numbers and the claim adds one |
| `ScanRisk_proofs` | `TypeCorrect`, `BudgetsCover`, `ClusterCapKept`, `Overshoot` | what is reserved is a sum over a bag of entries and positions; the first half of the module proves the laws of such sums (a sum over a union, over parts, of a bag with one more). The invariant: budgets and what stands apart, the entries of failed scans, are together at least what the store reserves, for each issuer, each cluster and what belongs to none (`BudgetsOK`, `Covers`); the portfolio's total is the sum of its clusters' uses and what belongs to none (`TotalOK`); the running load of a scan is its cluster's budget and what it admitted, within the cluster's caps (`ScanOK`), all of it of one cluster; between its writing and its return a scan's entries stand apart too (`RecordedOK`), and `Return` moves them into the budgets, `Skip` to the orphans. `Overshoot` follows because a candidate is admitted only if the total and its issuer's use at the scan's beginning leave room, and all of a scan goes to one cluster |
| `DataFactory_proofs` | `QueueKeepsTrials`, `QueueKeepsApprovals`, `TypeCorrect`, `HandoffSound`, `HandoffFinal`, `FactoryImplementsQueue`, `TrialsAreKept`, `ApprovalsAreKept` | of the queue: a question nobody approved has no approver (`QueueIInv`). Of the factory: triggers about to be stored are new, and those of lower milestones are stored or about to be (`EarnedFits`); what a run proposed is proposed (`InsertedIsAsked`); a command knows its outcome and path (`ApplyFits`). Every step is then a step of the queue or leaves it alone, and the queue's theorems carry over |
| `SnapshotStore_proofs` | `TypeCorrect`, `RecoveryComplete`, `PathsKept`, `HistoryKept`, `DaysKept`, `OnlyLossContradicts` | over all databases there are (`Kept`): labels and arms lie on entries of the ledger (`Sound`), which a merge preserves because the ledger's table comes before theirs (`MergeProgress`); a product and a tick identify one observation in all of them together (`OneObservation`), so a row the merge skips is the row that is there. For the paths: what is owed belongs to products the ledger names (`OwedIsNamed`), so protecting those is enough; while a compaction runs, they are in the rebuilt table before the old one is dropped (`PathInv`). For the days: every row of a database is noted in its own record (`Days`), a day that has rows has one with the last quote, so the ranking keeps one of it, which survives unless a row of that day is past the hard cut-off; the cut-off only grows (`DaysInv`). These three assume `Runner`; `snapshot_store_crash` shows that they must. `OnlyLossContradicts` is the other side of `snapshot_store_merge`: while nothing is left behind, an open entry has no label, and the entries of a tick are made by its one scan (`LabelInv`), so every label job gets through |

Every invariant and every action property a passing run checks is thus stated by a theorem; only
model-checked are the three liveness properties (`EveryRunConcludes`, `ReadyIsScreened`,
`EveryEntryIsLabeled`), since liveness under fairness and ENABLED are outside the prover's
reach. The inductive invariants were model-checked on the instances of section 4 (those of
`AlphaRegistry` with six calls, two crashes and two instants out of order, that of `ScanRisk` with
smaller caps) before they were proved.

The library's induction theorems take an operator as a parameter, which the installed provers
cannot instantiate. Where a proof needs induction (a least question, a last quote of a day, sums
over finite sets) it is stated about sets, and follows from the existence of minimal elements of a
well-founded relation (`MinIsMember`, `LastQuoteExists`, `NatSetInduction`, `FiniteSetInduction`).
What a recursive function of the community modules computes, here the sum over a finite set, is
derived from its definition (`SumUnfolded` to `SumPeeled` in `ScanRisk_proofs`).

Theorems without a run of their own, `RecordsAreBacked` (a recorded
decision rests on a screen or a support of its quarter), `LabelsAreFinal`, `HandoffFinal`,
`ApprovalsAreKept`, `HistoryKept` and `OnlyLossContradicts`, hold for every instance.

## 6. Where code and text disagree

Five runs show a disagreement of the code with a sentence beside it, quoted in
`PROJECT.json`: the half-written label that stops the job, the unhealthy scan whose shadow pick
is mailed, the interrupted hand-off that is not repeated, the recovered label no labeller gets
past, and the compaction that can destroy what it promises to keep. The first and the last
concern a database that outlives the process, as a local one does; a failed CI job packs no
state, so its half-written rows are gone with its runner.

Observed while modelling and stated without a run of their own:

* `.github/actions/turboedge-state/action.yml:177`: a failed download is taken for a missing
  artifact, so the restore falls back to an older one. `LossIsExplained` counts it as explained
  by the log line.
* `research/step.py:777`: the alert about a supported screen is attempted once; if the mail
  fails nothing tries again, although `_notify_screen` calls the screen eligible for the next run.
* `schemas.py` says an alpha "earns its way up", and its ladder holds; downwards, the path
  through DECAYING goes from NORMAL straight to CANARY and skips LIMITED.
* The grace days after `exit_due` are used only if the job runs late: a job on the due day
  labels with the last bid it has and never waits for a better quote.
* `storage/duckdb.py:1632`: the docstring of `append_alpha_status_change` says "Never updates,
  never deletes", and the statement is INSERT OR REPLACE on a key with the caller's instant in it
  (`:1640`). Two changes of a version to the same status with the same `now` leave one row; with a
  `now` that runs backwards the listing is in an order that never happened. Nothing in the code
  prevents either. `HistoryTellsThePath` and `FailureMemory` say what is lost at most: a change
  that a later one of the same key replaced, and never a rejection.
* `pipeline/scan_all.py:239`: what a scan had recorded before it raised is in no budget of the
  rest of the batch; a cap may be exceeded by that much, and by no more.
* A crash between the row and the history of a rejection leaves a rejected alpha without a
  history row; `HistoryTellsThePath` accounts for it explicitly.
* `pipeline/scan.py:2224`: candidates of one scan are sized against the portfolio's and the
  issuer's use before the scan, so one scan may exceed either cap; by how little is
  `OvershootIsOneScan`.
* `positions/usage.py:341`: ACTIONABLE shadow picks are mailed and not reserved, so the next
  batch proposes their budget again.
* `meta/research_queue.py`: a question approved without a trial can never run, since no later
  call gives it one; a retest of a DORMANT question keeps its old approver and trial, and
  outcomes applied again may take such a retest back; a trigger whose question exists already
  stays pending for ever.
* `apply_measured_outcomes` has no caller outside the tests.
* A recovered entry may follow a product whose quotes the live state has thinned since the loss.
  What was thinned before anything in that state followed the product is not owed to it.

## 7. What is not modelled, and why

The models cover the code whose correctness is a matter of order, interruption and shared
state. Most of the repository's lines are of another kind, and no model of them would say
more than the code:

* Numerical code (`models/`, `backtest/`, `simulation/`, `pricing/`, `features/`, the studies in
  `research/`, posteriors and drift): floating-point functions without state.
* Adapters (`adapters/*`): HTTP clients and parsers of foreign formats. Their failures are in the
  models, as a failing source, a late quote or an evidence that is any.
* Rendering, command-line parsing, the texts and scores of the research catalogue.
* The model registry: nothing outside the tests promotes a model, and `learn` finds none to
  reweight (`cli_learn.py:413-430` says why), so there is no protocol to explore.
* The swap of `state unpack` (two renames), the dedup rows of mails other than the screen's, the
  position update mail, which is marked as sent whether it went out or not, and the JSON file of
  failed hypotheses: listed as hazards, without a module.
* In `StateChain`: encryption and the content of the archive; a wrong key or a corrupt archive
  is a failing step (`Abort`).
* In `ResearchStep`: decision rows that name no experiment, the estimates a screen feeds back
  into the queue (ranks are fixed), and quarters other than the one running, which the code
  does not read.
* In `ForwardLedger`: prices, costs and the counterfactual fields of a label; an exit is
  identified by its quote. A quote's source timestamp is taken to be in the slot it was stored
  in; the code selects by `COALESCE(quote_timestamp, observation_time)` (`duckdb.py:1894-1911`),
  which may be an earlier slot, and orders by the same key. Entries whose grace ends after the last modelled day.
* In `ScanRisk`: pricing, forecasts and utilities; which candidates pass their own gates and
  what Kelly would give them is any.
* In `DataFactory`: scores, the raw archive, `first_reached_at`, which only a report reads.
* In `SnapshotStore`: the tables nothing else refers to, which the merge treats as it treats
  these; the branch that skips a table whose own key is not unique, which no writer of these
  tables brings about; and jobs between a loss and the promotion of its recovery, which is
  modelled as promoted before the next job starts (`state-recovery.yml` has a concurrency
  group of its own, so the code does not rule them out).
