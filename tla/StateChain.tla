----------------------------- MODULE StateChain -----------------------------
(***************************************************************************)
(* The encrypted state chain of pipeline.yml.                              *)
(*                                                                         *)
(* Every scheduled mode (scan, eod, external, research, weekly, monthly)   *)
(* is one run of one workflow.  A run restores the state directory from    *)
(* an artifact some earlier run uploaded, works on it, and uploads the     *)
(* result for the next run.  Nothing else carries state between runs, so   *)
(* a restore that picks the wrong artifact, or an upload by a run that     *)
(* should not have uploaded, silently rewrites the ledger's past.          *)
(*                                                                         *)
(* The content of a state directory is abstracted to the set of runs       *)
(* whose writes it holds.  Runs are numbered in creation order, which is   *)
(* the order `gh run list` returns them in (newest first).                 *)
(***************************************************************************)
EXTENDS Integers, FiniteSets

CONSTANTS
  MaxRuns,            \* bound: number of runs ever created
  Window,             \* `gh run list --limit` of the restore (50 in the code)
  MaxListingLag,      \* newest runs the listing may not show yet
  MaxFlaky,           \* bound: restores that meet a failing download
  Modes,              \* the pipeline modes that are triggered
  BackendConfigured   \* TURBOEDGE_STATE_BACKEND is set

AllModes == {"scan", "eod", "external", "research", "weekly", "monthly"}

(* The listing hides at most the run that asks: runs are serialised, so    *)
(* every older run was created at least one whole run earlier.             *)
ASSUME ChainAssumption ==
  /\ MaxRuns \in Nat
  /\ Window \in Nat \ {0}
  /\ MaxListingLag \in 0..1
  /\ MaxFlaky \in Nat
  /\ Modes \subseteq AllModes
  /\ BackendConfigured \in BOOLEAN

RunId == 1..MaxRuns

PushModes     == {"eod", "external"}   \* push_to_backend: "true"
TolerantModes == {"external"}          \* data steps are continue-on-error

VARIABLES
  created,     \* runs 1..created exist
  mode,        \* resolve-mode's output ("-" unless the job is running)
  fresh,       \* the allow_fresh_state dispatch input of a running job
  phase,       \* where the run's job is, or its conclusion
  healthy,     \* the job status function success()
  note,        \* how the restore step ended
  base,        \* the run whose archive was unpacked (0: none)
  skipped,     \* existing artifacts whose download failed in the restore
  history,     \* runs whose writes are in the run's state directory, or in
               \* the archive packed from it
  published,   \* runs that uploaded turboedge-state-enc
  available,   \* ... whose artifact has not expired
  version,     \* run whose archive is the newest backend version (0: none)
  flaky        \* restores so far that met a failing download

vars == <<created, mode, fresh, phase, healthy, note, base, skipped, history,
          published, available, version, flaky>>

Active      == {"restore", "data", "pack", "uploaded"}
Concluded   == {"success", "failure", "cancelled"}   \* failure: failed or timed out
Notes       == {"none", "artifact", "first_run", "backend", "forced_fresh",
                "refused"}

TypeOK ==
  /\ created \in 0..MaxRuns
  /\ mode \in [RunId -> AllModes \cup {"-"}]
  /\ fresh \in [RunId -> BOOLEAN]
  /\ phase \in [RunId -> {"none", "queued"} \cup Active \cup Concluded]
  /\ healthy \in [RunId -> BOOLEAN]
  /\ note \in [RunId -> Notes]
  /\ base \in [RunId -> 0..MaxRuns]
  /\ skipped \in [RunId -> SUBSET RunId]
  /\ history \in [RunId -> SUBSET RunId]
  /\ published \subseteq RunId
  /\ available \subseteq published
  /\ version \in published \cup {0}
  /\ flaky \in 0..MaxFlaky

Init ==
  /\ created = 0
  /\ mode = [r \in RunId |-> "-"]
  /\ fresh = [r \in RunId |-> FALSE]
  /\ phase = [r \in RunId |-> "none"]
  /\ healthy = [r \in RunId |-> TRUE]
  /\ note = [r \in RunId |-> "none"]
  /\ base = [r \in RunId |-> 0]
  /\ skipped = [r \in RunId |-> {}]
  /\ history = [r \in RunId |-> {}]
  /\ published = {}
  /\ available = {}
  /\ version = 0
  /\ flaky = 0

-----------------------------------------------------------------------------
(* Triggers and the turboedge-state concurrency group.                     *)

(* A cron or workflow_dispatch trigger.  The group keeps one running and   *)
(* one pending run: a newer pending run cancels the older one.             *)
Trigger ==
  LET r == created + 1
  IN /\ created < MaxRuns
     /\ created' = r
     /\ phase' = [p \in RunId |->
                    IF p = r THEN "queued"
                    ELSE IF phase[p] = "queued" THEN "cancelled"
                    ELSE phase[p]]
     /\ UNCHANGED <<mode, fresh, healthy, note, base, skipped, history,
                    published, available, version, flaky>>

(* Mutant: the concurrency group is dropped from the workflow.             *)
NoConcurrencyGroup == TRUE

(* Mutant: a pending run counts as holding the group.                      *)
PendingHoldsGroup == \A p \in RunId : phase[p] \notin Active \cup {"queued"}

GroupFree == \A p \in RunId : phase[p] \notin Active

(* The pending run gets the group and resolves its mode and inputs.        *)
Start(r, m, f) ==
  /\ phase[r] = "queued"
  /\ GroupFree
  /\ mode' = [mode EXCEPT ![r] = m]
  /\ fresh' = [fresh EXCEPT ![r] = f]
  /\ phase' = [phase EXCEPT ![r] = "restore"]
  /\ UNCHANGED <<created, healthy, note, base, skipped, history,
                 published, available, version, flaky>>

(* The job ends and its runner goes, with every file the artifact does not *)
(* hold.                                                                   *)
Conclude(r, c) ==
  /\ phase' = [phase EXCEPT ![r] = c]
  /\ mode' = [mode EXCEPT ![r] = "-"]
  /\ fresh' = [fresh EXCEPT ![r] = FALSE]
  /\ history' = IF r \in published THEN history
                ELSE [history EXCEPT ![r] = {}]

-----------------------------------------------------------------------------
(* The restore step of .github/actions/turboedge-state.                    *)

(* Mutant: the filter the restore used to have, `--status success`.        *)
SuccessfulCandidates(lag) ==
  {p \in RunId : /\ p <= created - lag /\ p > created - lag - Window
                 /\ phase[p] = "success"}

(* The run ids `gh run list --limit Window` prints, whatever the runs'     *)
(* conclusion, when the listing trails by lag runs.                        *)
Candidates(lag) ==
  {p \in RunId : p <= created - lag /\ p > created - lag - Window}

(* Download failures cost one unit of the bound per restore that has one.  *)
CountFlaky(failed) ==
  /\ failed # {} => flaky < MaxFlaky
  /\ flaky' = IF failed = {} THEN flaky ELSE flaky + 1

(* The restore ends with the job's state directory unpacked from run b     *)
(* (0: an empty directory, --allow-missing).                               *)
Unpack(r, b, n) ==
  /\ note' = [note EXCEPT ![r] = n]
  /\ base' = [base EXCEPT ![r] = b]
  /\ history' = [history EXCEPT ![r] = IF b = 0 THEN {} ELSE history[b]]
  /\ phase' = [phase EXCEPT ![r] = "data"]
  /\ UNCHANGED <<created, mode, fresh, healthy, published, available, version>>

(* Mutant: a search that finds no artifact is taken for a first run.       *)
NoArtifactInSight(lag) == Candidates(lag) \cap available = {}

NoPriorRun(lag) == created - lag = 0

(* Case A: the listing is empty.                                           *)
RestoreFirstRun(r, lag) ==
  /\ phase[r] = "restore"
  /\ NoPriorRun(lag)
  /\ Unpack(r, 0, "first_run")
  /\ UNCHANGED <<skipped, flaky>>

(* Case C: walk the candidates newest first; the first download that works *)
(* wins.  Every newer artifact that exists was tried and failed.           *)
RestoreArtifact(r, lag, p) ==
  LET failed == {q \in Candidates(lag) \cap available : q > p}
  IN /\ phase[r] = "restore"
     /\ p \in Candidates(lag) \cap available
     /\ CountFlaky(failed)
     /\ skipped' = [skipped EXCEPT ![r] = failed]
     /\ Unpack(r, p, "artifact")

(* Case B: there are runs, and no candidate's artifact could be fetched.   *)
NothingDownloaded(r, lag) ==
  LET failed == Candidates(lag) \cap available
  IN /\ phase[r] = "restore"
     /\ ~NoPriorRun(lag)
     /\ CountFlaky(failed)
     /\ skipped' = [skipped EXCEPT ![r] = failed]

(* `state backend get --key lean` writes the newest version.               *)
RestoreBackend(r, lag) ==
  /\ NothingDownloaded(r, lag)
  /\ version # 0
  /\ Unpack(r, version, "backend")

(* The backend has nothing, or cannot be reached, and allow_fresh_state    *)
(* is "true".                                                              *)
RestoreFresh(r, lag) ==
  /\ NothingDownloaded(r, lag)
  /\ fresh[r]
  /\ Unpack(r, 0, "forced_fresh")

(* ... and it is not (the backend has nothing or cannot be reached):       *)
(* the step exits 1.                                                       *)
RestoreRefused(r, lag) ==
  /\ NothingDownloaded(r, lag)
  /\ ~fresh[r]
  /\ note' = [note EXCEPT ![r] = "refused"]
  /\ Conclude(r, "failure")
  /\ UNCHANGED <<created, healthy, base, published, available, version>>

-----------------------------------------------------------------------------
(* The rest of the job.                                                    *)

(* A step fails (an unusable key, a failed listing, a corrupt archive, a   *)
(* failed pack, upload or push), or the job runs out of its                *)
(* timeout-minutes or is cancelled.  No later step but the summary runs.   *)
Abort(r) ==
  /\ phase[r] \in Active
  /\ Conclude(r, "failure")
  /\ UNCHANGED <<created, healthy, note, base, skipped, published, available,
                 version, flaky>>

(* The mode's own commands, which write the state directory as they go.    *)
DataSteps(r) ==
  /\ phase[r] = "data"
  /\ history' = [history EXCEPT ![r] = @ \cup {r}]
  /\ phase' = [phase EXCEPT ![r] = "pack"]
  /\ UNCHANGED <<created, mode, fresh, healthy, note, base, skipped,
                 published, available, version, flaky>>

(* A command exits non-zero.  What it had written stays, and the job's     *)
(* status stays success if the step is continue-on-error.                  *)
DataStepFails(r) ==
  /\ phase[r] = "data"
  /\ \E partial \in SUBSET {r} :
       history' = [history EXCEPT ![r] = @ \cup partial]
  /\ healthy' = [healthy EXCEPT ![r] = mode[r] \in TolerantModes]
  /\ phase' = [phase EXCEPT ![r] = "pack"]
  /\ UNCHANGED <<created, mode, fresh, note, base, skipped, published,
                 available, version, flaky>>

(* Mutant: `if: always()`.                                                 *)
AlwaysPack(r) == TRUE

JobSucceeded(r) == healthy[r]

(* Mutant: the backend push before the upload, and the upload lost.        *)
PushBeforeUpload(r) ==
  /\ phase[r] = "pack"
  /\ JobSucceeded(r)
  /\ version' = r
  /\ phase' = [phase EXCEPT ![r] = "uploaded"]
  /\ UNCHANGED <<created, mode, fresh, healthy, note, base, skipped, history,
                 published, available, flaky>>

(* "Pack and upload state", if: success(): pack, then upload.  Only the    *)
(* job's remaining steps can still fail.                                   *)
PackAndUpload(r) ==
  /\ phase[r] = "pack"
  /\ JobSucceeded(r)
  /\ published' = published \cup {r}
  /\ available' = available \cup {r}
  /\ phase' = [phase EXCEPT ![r] = "uploaded"]
  /\ UNCHANGED <<created, mode, fresh, healthy, note, base, skipped, history,
                 version, flaky>>

SkipPack(r) ==
  /\ phase[r] = "pack"
  /\ ~JobSucceeded(r)
  /\ Conclude(r, "failure")
  /\ UNCHANGED <<created, healthy, note, base, skipped, published, available,
                 version, flaky>>

(* After the upload: eod and external `state backend put --key lean` if a  *)
(* backend is configured; weekly uploads a second archive under a name no  *)
(* restore asks for; the other modes are done.                             *)
Finish(r) ==
  /\ phase[r] = "uploaded"
  /\ version' = IF mode[r] \in PushModes /\ BackendConfigured
                THEN r ELSE version
  /\ Conclude(r, "success")
  /\ UNCHANGED <<created, healthy, note, base, skipped, published, available,
                 flaky>>

(* retention-days passes for the oldest artifact; the chain's artifacts    *)
(* all have the same retention.                                            *)
Expire(r) ==
  /\ r \in available
  /\ \A p \in available : r <= p
  /\ available' = available \ {r}
  /\ UNCHANGED <<created, mode, fresh, phase, healthy, note, base, skipped,
                 history, published, version, flaky>>

-----------------------------------------------------------------------------
Restore(r) ==
  \E lag \in 0..MaxListingLag :
    \/ RestoreFirstRun(r, lag)
    \/ \E p \in RunId : RestoreArtifact(r, lag, p)
    \/ RestoreBackend(r, lag)
    \/ RestoreFresh(r, lag)
    \/ RestoreRefused(r, lag)

JobStep(r) ==
  \/ \E m \in Modes, f \in BOOLEAN : Start(r, m, f)
  \/ Restore(r)
  \/ Abort(r)
  \/ DataSteps(r)
  \/ DataStepFails(r)
  \/ PackAndUpload(r)
  \/ SkipPack(r)
  \/ Finish(r)

Next ==
  \/ Trigger
  \/ \E r \in RunId : JobStep(r)
  \/ \E r \in RunId : Expire(r)

Spec == Init /\ [][Next]_vars

(* GitHub starts a pending run once its group is free, and a job ends by   *)
(* itself or by its timeout-minutes.                                       *)
FairSpec == Spec /\ WF_vars(\E r \in RunId : JobStep(r))
-----------------------------------------------------------------------------
(* Properties.                                                             *)

(* A run whose summary says nothing out of the ordinary, and whose restore *)
(* met no failing download, cuts nothing off the chain.                    *)
Cuts(q) == note[q] # "artifact" \/ skipped[q] # {}

(* The concurrency group, the newest-first search and the equal retention  *)
(* of all lean artifacts make the chain linear: whatever an earlier run    *)
(* published is in every later archive, unless a run in between started    *)
(* empty, fell back to the backend, or could not download a newer artifact.*)
LossIsExplained ==
  \A p, r \in published :
    p < r => \/ history[p] \subseteq history[r]
             \/ \E q \in published : p < q /\ q <= r /\ Cuts(q)

(* `if: success()` on the pack step: no archive holds a write of a run     *)
(* that failed, was cancelled in its data steps, or never uploaded itself. *)
NoBrokenRunLeaks ==
  \A r \in published : \A q \in history[r] : q \in published /\ healthy[q]

(* The restore never starts from an empty directory once an artifact was   *)
(* published, unless allow_fresh_state was dispatched (action.yml, "silent *)
(* data loss ... is exactly what this step exists to prevent").            *)
NoSilentEmptyStart ==
  \A r \in RunId : note[r] = "first_run" => \A p \in published : p >= r

(* A run that restored an artifact restored the newest one it could: a     *)
(* published run between its base and itself was tried and not downloaded. *)
NewestBase ==
  \A r \in RunId : \A p \in published :
    note[r] = "artifact" /\ base[r] < p /\ p < r => p \in skipped[r]

(* The group is never blocked: a pending run is replaced, or it runs and   *)
(* reaches a conclusion.                                                   *)
EveryRunConcludes ==
  \A r \in RunId : phase[r] = "queued" ~> phase[r] \in Concluded

=============================================================================
