-------------------------- MODULE StateChain_proofs --------------------------
(***************************************************************************)
(* Proofs about StateChain, for every number of runs, every window, every  *)
(* set of modes and with or without a durable backend.                     *)
(*                                                                         *)
(* The inductive invariant says in which order things happen: the group    *)
(* serialises the jobs (Serial), so a running job is younger than every    *)
(* run that ever uploaded (Order); equal retention expires archives in     *)
(* upload order (Fifo); so the newest archive that can be fetched is the   *)
(* newest there is (NewestBase).  From there the history of an archive     *)
(* grows along the chain of bases (Grows) and LossIsExplained follows.     *)
(***************************************************************************)
EXTENDS StateChain, TLAPS

(* The group admits one job at a time. *)
Serial == \A p, q \in RunId : phase[p] \in Active /\ phase[q] \in Active => p = q

(* What a run has done by the time it is in a phase. *)
Untouched(p) == p \notin published /\ note[p] = "none"

Phases ==
  /\ \A p \in RunId : p > created => phase[p] = "none"
  /\ \A p \in RunId : phase[p] = "queued" => p = created
  /\ \A p \in RunId :
       /\ phase[p] \in {"none", "queued", "cancelled", "restore"} => Untouched(p)
       /\ phase[p] \in {"data", "pack"} => p \notin published
       /\ phase[p] = "uploaded" => p \in published

(* Nothing younger than a running job has started. *)
Order ==
  \A p, r \in RunId :
    phase[r] \in Active /\ p > r => phase[p] \in {"none", "queued", "cancelled"}

(* Artifacts expire in upload order. *)
Fifo == \A p \in available, q \in published : p < q => q \in available

(* A state directory or archive that was restored holds its base. *)
Lives(r) == phase[r] \in {"data", "pack"} \/ r \in published

Grows ==
  \A r \in RunId : Lives(r) /\ note[r] = "artifact" =>
    /\ base[r] \in published
    /\ base[r] < r
    /\ history[base[r]] \subseteq history[r]

(* What is in a live state directory comes from sound archives or from the *)
(* run itself. *)
Clean ==
  \A r \in RunId : phase[r] \in {"data", "pack"} =>
    \A q \in history[r] : q = r \/ (q \in published /\ healthy[q])

FirstIsFirst == \A r \in RunId : note[r] = "first_run" => r = 1

IInv ==
  /\ TypeOK
  /\ Serial
  /\ Phases
  /\ Order
  /\ Fifo
  /\ NewestBase
  /\ Grows
  /\ Clean
  /\ NoBrokenRunLeaks
  /\ FirstIsFirst
  /\ LossIsExplained
-----------------------------------------------------------------------------
LEMMA InitType == Init => TypeOK
  BY ChainAssumption DEF Init, TypeOK, RunId, AllModes, Notes, Active, Concluded

(* What the operators shared by several actions return. *)
LEMMA UnpackType ==
  ASSUME TypeOK, NEW r \in RunId, NEW b \in 0..MaxRuns, NEW n \in Notes,
         Unpack(r, b, n), skipped' \in [RunId -> SUBSET RunId],
         flaky' \in 0..MaxFlaky
  PROVE  TypeOK'
<1>1. history' \in [RunId -> SUBSET RunId]
  <2>1. CASE b = 0
    BY <2>1 DEF TypeOK, Unpack
  <2>2. CASE b # 0
    <3>1. b \in RunId
      BY <2>2, ChainAssumption DEF RunId
    <3>2. QED
      BY <2>2, <3>1 DEF TypeOK, Unpack
  <2>3. QED
    BY <2>1, <2>2
<1>2. note' \in [RunId -> Notes] /\ base' \in [RunId -> 0..MaxRuns]
  BY DEF TypeOK, Unpack
<1>3. phase' \in [RunId -> {"none", "queued"} \cup Active \cup Concluded]
  BY DEF TypeOK, Unpack, Active
<1>4. QED
  BY <1>1, <1>2, <1>3 DEF TypeOK, Unpack

LEMMA ConcludeType ==
  ASSUME TypeOK, NEW r \in RunId, NEW c \in Concluded, Conclude(r, c)
  PROVE  /\ phase' \in [RunId -> {"none", "queued"} \cup Active \cup Concluded]
         /\ mode' \in [RunId -> AllModes \cup {"-"}]
         /\ fresh' \in [RunId -> BOOLEAN]
         /\ history' \in [RunId -> SUBSET RunId]
  BY DEF TypeOK, Conclude

LEMMA FlakyType ==
  ASSUME TypeOK, NEW failed, CountFlaky(failed)
  PROVE  flaky' \in 0..MaxFlaky
  BY ChainAssumption DEF TypeOK, CountFlaky

LEMMA NothingType ==
  ASSUME TypeOK, NEW r \in RunId, NEW lag \in 0..MaxListingLag,
         NothingDownloaded(r, lag)
  PROVE  skipped' \in [RunId -> SUBSET RunId] /\ flaky' \in 0..MaxFlaky
<1>1. flaky' \in 0..MaxFlaky
  BY FlakyType DEF NothingDownloaded
<1>2. QED
  BY <1>1 DEF TypeOK, NothingDownloaded, Candidates

LEMMA RestoreType ==
  ASSUME TypeOK, NEW r \in RunId, Restore(r)
  PROVE  TypeOK'
<1>1. PICK lag \in 0..MaxListingLag :
        \/ RestoreFirstRun(r, lag)
        \/ \E p \in RunId : RestoreArtifact(r, lag, p)
        \/ RestoreBackend(r, lag)
        \/ RestoreFresh(r, lag)
        \/ RestoreRefused(r, lag)
  BY DEF Restore
<1> USE ChainAssumption
<1>2. CASE RestoreFirstRun(r, lag)
  BY <1>2, UnpackType DEF RestoreFirstRun, Notes, TypeOK
<1>3. ASSUME NEW p \in RunId, RestoreArtifact(r, lag, p) PROVE TypeOK'
  <2>1. skipped' \in [RunId -> SUBSET RunId]
    BY <1>3 DEF RestoreArtifact, TypeOK, Candidates
  <2>2. flaky' \in 0..MaxFlaky
    BY <1>3, FlakyType DEF RestoreArtifact
  <2>3. p \in 0..MaxRuns /\ Unpack(r, p, "artifact")
    BY <1>3 DEF RestoreArtifact, RunId
  <2>4. QED
    BY <2>1, <2>2, <2>3, UnpackType DEF Notes
<1>4. CASE RestoreBackend(r, lag)
  <2>1. version \in 0..MaxRuns
    BY DEF TypeOK, RunId
  <2>2. QED
    BY <1>4, <2>1, NothingType, UnpackType DEF RestoreBackend, Notes
<1>5. CASE RestoreFresh(r, lag)
  BY <1>5, NothingType, UnpackType DEF RestoreFresh, Notes
<1>6. CASE RestoreRefused(r, lag)
  <2>1. "failure" \in Concluded /\ note' \in [RunId -> Notes]
    BY <1>6 DEF Concluded, RestoreRefused, TypeOK, Notes
  <2>2. QED
    BY <1>6, <2>1, NothingType, ConcludeType DEF RestoreRefused, TypeOK
<1>7. QED
  BY <1>1, <1>2, <1>3, <1>4, <1>5, <1>6

LEMMA TypeStep == TypeOK /\ Phases /\ [Next]_vars => TypeOK'
<1> SUFFICES ASSUME TypeOK, Phases, [Next]_vars PROVE TypeOK'
  OBVIOUS
<1> USE ChainAssumption
<1>a. "failure" \in Concluded /\ "success" \in Concluded
  BY DEF Concluded
<1>1. CASE Trigger
  BY <1>1 DEF Trigger, TypeOK, RunId, Active, Concluded
<1>2. ASSUME NEW r \in RunId, NEW m \in Modes, NEW f \in BOOLEAN, Start(r, m, f)
      PROVE  TypeOK'
  BY <1>2 DEF Start, TypeOK, Active
<1>3. ASSUME NEW r \in RunId, Restore(r) PROVE TypeOK'
  BY <1>3, RestoreType
<1>4. ASSUME NEW r \in RunId, Abort(r) PROVE TypeOK'
  BY <1>4, <1>a, ConcludeType DEF Abort, TypeOK
<1>5. ASSUME NEW r \in RunId, DataSteps(r) PROVE TypeOK'
  BY <1>5 DEF DataSteps, TypeOK, Active
<1>6. ASSUME NEW r \in RunId, DataStepFails(r) PROVE TypeOK'
  <2>1. history' \in [RunId -> SUBSET RunId]
    BY <1>6 DEF DataStepFails, TypeOK
  <2>2. healthy' \in [RunId -> BOOLEAN]
    BY <1>6 DEF DataStepFails, TypeOK
  <2>3. QED
    BY <1>6, <2>1, <2>2 DEF DataStepFails, TypeOK, Active
<1>7. ASSUME NEW r \in RunId, PackAndUpload(r) PROVE TypeOK'
  BY <1>7 DEF PackAndUpload, TypeOK, Active
<1>8. ASSUME NEW r \in RunId, SkipPack(r) PROVE TypeOK'
  BY <1>8, <1>a, ConcludeType DEF SkipPack, TypeOK
<1>9. ASSUME NEW r \in RunId, Finish(r) PROVE TypeOK'
  BY <1>9, <1>a, ConcludeType DEF Finish, TypeOK, Phases
<1>10. ASSUME NEW r \in RunId, Expire(r) PROVE TypeOK'
  BY <1>10 DEF Expire, TypeOK
<1>11. CASE UNCHANGED vars
  BY <1>11 DEF vars, TypeOK
<1>12. QED
  BY <1>1, <1>2, <1>3, <1>4, <1>5, <1>6, <1>7, <1>8, <1>9, <1>10, <1>11
  DEF Next, JobStep
-----------------------------------------------------------------------------
(* The job's phases. *)

(* What a restore step changes, whatever its outcome. *)
LEMMA RestoreEffect ==
  ASSUME TypeOK, NEW r \in RunId, Restore(r)
  PROVE  /\ phase[r] = "restore"
         /\ \E x \in {"data", "failure"} : phase' = [phase EXCEPT ![r] = x]
         /\ \E n \in Notes : note' = [note EXCEPT ![r] = n]
         /\ UNCHANGED <<created, healthy, published, available, version>>
  BY DEF Restore, RestoreFirstRun, RestoreArtifact, RestoreBackend, RestoreFresh,
         RestoreRefused, NothingDownloaded, Unpack, Conclude, Notes

(* ... and it leaves every other run alone. *)
LEMMA RestoreFrame ==
  ASSUME TypeOK, NEW r \in RunId, Restore(r), NEW q \in RunId, q # r
  PROVE  /\ note'[q] = note[q]
         /\ base'[q] = base[q]
         /\ skipped'[q] = skipped[q]
         /\ history'[q] = history[q]
<1>1. ASSUME NEW b, NEW n, Unpack(r, b, n)
      PROVE  note'[q] = note[q] /\ base'[q] = base[q] /\ history'[q] = history[q]
  BY <1>1 DEF Unpack, TypeOK
<1>2. ASSUME NEW lag, NothingDownloaded(r, lag) PROVE skipped'[q] = skipped[q]
  BY <1>2 DEF NothingDownloaded, TypeOK
<1>3. ASSUME NEW lag, RestoreRefused(r, lag)
      PROVE  note'[q] = note[q] /\ base'[q] = base[q] /\ history'[q] = history[q]
  BY <1>3 DEF RestoreRefused, Conclude, TypeOK
<1>4. ASSUME NEW lag, NEW p, RestoreArtifact(r, lag, p) PROVE skipped'[q] = skipped[q]
  BY <1>4 DEF RestoreArtifact, TypeOK
<1>5. PICK lag \in 0..MaxListingLag :
        \/ RestoreFirstRun(r, lag)
        \/ \E p \in RunId : RestoreArtifact(r, lag, p)
        \/ RestoreBackend(r, lag)
        \/ RestoreFresh(r, lag)
        \/ RestoreRefused(r, lag)
  BY DEF Restore
<1>6. CASE RestoreFirstRun(r, lag)
  BY <1>1, <1>6 DEF RestoreFirstRun
<1>7. CASE \E p \in RunId : RestoreArtifact(r, lag, p)
  <2>1. PICK p \in RunId : RestoreArtifact(r, lag, p)
    BY <1>7
  <2>2. Unpack(r, p, "artifact")
    BY <2>1 DEF RestoreArtifact
  <2>3. QED
    BY <2>1, <2>2, <1>1, <1>4
<1>8. CASE RestoreBackend(r, lag) \/ RestoreFresh(r, lag)
  BY <1>1, <1>2, <1>8 DEF RestoreBackend, RestoreFresh
<1>9. CASE RestoreRefused(r, lag)
  <2>1. NothingDownloaded(r, lag)
    BY <1>9 DEF RestoreRefused
  <2>2. QED
    BY <1>9, <2>1, <1>2, <1>3
<1>10. QED
  BY <1>5, <1>6, <1>7, <1>8, <1>9

(* What a job step after the restore does to the order of the runs. *)
LEMMA WorkEffect ==
  ASSUME TypeOK, NEW r \in RunId,
         \/ Abort(r)
         \/ DataSteps(r)
         \/ DataStepFails(r)
         \/ SkipPack(r)
         \/ Finish(r)
  PROVE  /\ phase[r] \in Active
         /\ \E x \in {"pack", "failure", "success"} :
              /\ phase' = [phase EXCEPT ![r] = x]
              /\ x = "pack" => phase[r] = "data"
         /\ UNCHANGED <<created, note, base, skipped, published, available>>
  BY DEF Abort, DataSteps, DataStepFails, SkipPack, Finish, Conclude, Active

LEMMA SerialStep == TypeOK /\ Serial /\ [Next]_vars => Serial'
<1> SUFFICES ASSUME TypeOK, Serial, [Next]_vars PROVE Serial'
  OBVIOUS
<1> USE DEF Serial, Active
<1>1. CASE Trigger
  BY <1>1 DEF Trigger, TypeOK
<1>2. ASSUME NEW r \in RunId, NEW m \in Modes, NEW f \in BOOLEAN, Start(r, m, f)
      PROVE  Serial'
  BY <1>2 DEF Start, GroupFree, TypeOK
<1>3. ASSUME NEW r \in RunId, Restore(r) PROVE Serial'
  BY <1>3, RestoreEffect DEF TypeOK
<1>4. ASSUME NEW r \in RunId,
             Abort(r) \/ DataSteps(r) \/ DataStepFails(r) \/ SkipPack(r) \/ Finish(r)
      PROVE  Serial'
  BY <1>4, WorkEffect DEF TypeOK
<1>5. ASSUME NEW r \in RunId, PackAndUpload(r) PROVE Serial'
  BY <1>5 DEF PackAndUpload, TypeOK
<1>6. ASSUME NEW r \in RunId, Expire(r) PROVE Serial'
  BY <1>6 DEF Expire
<1>7. CASE UNCHANGED vars
  BY <1>7 DEF vars
<1>8. QED
  BY <1>1, <1>2, <1>3, <1>4, <1>5, <1>6, <1>7 DEF Next, JobStep

LEMMA PhasesStep == TypeOK /\ Phases /\ [Next]_vars => Phases'
<1> SUFFICES ASSUME TypeOK, Phases, [Next]_vars PROVE Phases'
  OBVIOUS
<1> USE DEF Phases, Untouched, Active
<1>1. CASE Trigger
  BY <1>1, ChainAssumption DEF Trigger, TypeOK, RunId
<1>2. ASSUME NEW r \in RunId, NEW m \in Modes, NEW f \in BOOLEAN, Start(r, m, f)
      PROVE  Phases'
  BY <1>2 DEF Start, TypeOK
<1>3. ASSUME NEW r \in RunId, Restore(r) PROVE Phases'
  BY <1>3, RestoreEffect DEF TypeOK
<1>4. ASSUME NEW r \in RunId,
             Abort(r) \/ DataSteps(r) \/ DataStepFails(r) \/ SkipPack(r) \/ Finish(r)
      PROVE  Phases'
  BY <1>4, WorkEffect DEF TypeOK
<1>5. ASSUME NEW r \in RunId, PackAndUpload(r) PROVE Phases'
  BY <1>5 DEF PackAndUpload, TypeOK
<1>6. ASSUME NEW r \in RunId, Expire(r) PROVE Phases'
  BY <1>6 DEF Expire
<1>7. CASE UNCHANGED vars
  BY <1>7 DEF vars
<1>8. QED
  BY <1>1, <1>2, <1>3, <1>4, <1>5, <1>6, <1>7 DEF Next, JobStep

LEMMA OrderStep == TypeOK /\ Phases /\ Serial /\ Order /\ [Next]_vars => Order'
<1> SUFFICES ASSUME TypeOK, Phases, Serial, Order, [Next]_vars PROVE Order'
  OBVIOUS
<1> USE DEF Order, Active
<1>1. CASE Trigger
  BY <1>1 DEF Trigger, TypeOK
<1>2. ASSUME NEW r \in RunId, NEW m \in Modes, NEW f \in BOOLEAN, Start(r, m, f)
      PROVE  Order'
  BY <1>2 DEF Start, GroupFree, TypeOK, Phases
<1>3. ASSUME NEW r \in RunId, Restore(r) PROVE Order'
  BY <1>3, RestoreEffect DEF TypeOK, Serial
<1>4. ASSUME NEW r \in RunId,
             Abort(r) \/ DataSteps(r) \/ DataStepFails(r) \/ SkipPack(r) \/ Finish(r)
      PROVE  Order'
  BY <1>4, WorkEffect DEF TypeOK, Serial
<1>5. ASSUME NEW r \in RunId, PackAndUpload(r) PROVE Order'
  BY <1>5 DEF PackAndUpload, TypeOK, Serial
<1>6. ASSUME NEW r \in RunId, Expire(r) PROVE Order'
  BY <1>6 DEF Expire
<1>7. CASE UNCHANGED vars
  BY <1>7 DEF vars
<1>8. QED
  BY <1>1, <1>2, <1>3, <1>4, <1>5, <1>6, <1>7 DEF Next, JobStep

-----------------------------------------------------------------------------
(* Which archive a run starts from. *)

(* Nothing younger than a running job has uploaded or restored. *)
LEMMA YoungerUntouched ==
  ASSUME Phases, Order, NEW r \in RunId, phase[r] \in Active,
         NEW p \in RunId, p > r
  PROVE  Untouched(p)
  BY DEF Phases, Order

LEMMA FifoStep ==
  TypeOK /\ Phases /\ Order /\ Fifo /\ [Next]_vars => Fifo'
<1> SUFFICES ASSUME TypeOK, Phases, Order, Fifo, [Next]_vars PROVE Fifo'
  OBVIOUS
<1>1. ASSUME NEW r \in RunId, PackAndUpload(r) PROVE Fifo'
  <2>1. \A q \in published : q <= r
    BY <1>1, YoungerUntouched, ChainAssumption
    DEF PackAndUpload, Active, TypeOK, Untouched, RunId
  <2>2. QED
    BY <1>1, <2>1, ChainAssumption DEF PackAndUpload, Fifo, TypeOK, RunId
<1>2. ASSUME NEW r \in RunId, Expire(r) PROVE Fifo'
  BY <1>2, ChainAssumption DEF Expire, Fifo, TypeOK, RunId
<1>3. CASE UNCHANGED <<published, available>>
  BY <1>3 DEF Fifo
<1>4. QED
  BY <1>1, <1>2, <1>3, RestoreEffect, WorkEffect DEF Next, JobStep, Trigger, Start, vars

LEMMA NewestBaseStep ==
  TypeOK /\ Phases /\ Order /\ Fifo /\ NewestBase /\ [Next]_vars => NewestBase'
<1> SUFFICES ASSUME TypeOK, Phases, Order, Fifo, NewestBase, [Next]_vars
             PROVE  NewestBase'
  OBVIOUS
<1>1. ASSUME NEW r \in RunId, NEW lag \in 0..MaxListingLag, NEW b \in RunId,
             RestoreArtifact(r, lag, b)
      PROVE  NewestBase'
  <2>1. r <= created
    BY <1>1, ChainAssumption DEF RestoreArtifact, Phases, TypeOK, RunId
  <2>2. \A p \in published : b < p /\ p < r => p \in Candidates(lag) \cap available
    <3> SUFFICES ASSUME NEW p \in published, b < p, p < r
                 PROVE  p \in Candidates(lag) \cap available
      OBVIOUS
    <3>1. p \in available
      BY <1>1 DEF RestoreArtifact, Fifo
    <3>2. p \in Candidates(lag)
      BY <1>1, <2>1, ChainAssumption DEF RestoreArtifact, Candidates, TypeOK, RunId
    <3>3. QED
      BY <3>1, <3>2
  <2>3. \A p \in published : b < p /\ p < r => p \in skipped'[r]
    BY <1>1, <2>2, ChainAssumption DEF RestoreArtifact, TypeOK, RunId
  <2>4. QED
    BY <1>1, <2>3 DEF RestoreArtifact, Unpack, NewestBase, TypeOK
<1>3. ASSUME NEW r \in RunId, Restore(r) PROVE NewestBase'
  <2>1. PICK lag \in 0..MaxListingLag :
          \/ \E b \in RunId : RestoreArtifact(r, lag, b)
          \/ RestoreFirstRun(r, lag)
          \/ RestoreBackend(r, lag)
          \/ RestoreFresh(r, lag)
          \/ RestoreRefused(r, lag)
    BY <1>3 DEF Restore
  <2>2. CASE RestoreFirstRun(r, lag) \/ RestoreBackend(r, lag)
               \/ RestoreFresh(r, lag) \/ RestoreRefused(r, lag)
    <3>1. note'[r] # "artifact"
      BY <2>2 DEF RestoreFirstRun, RestoreBackend, RestoreFresh, RestoreRefused,
                  Unpack, TypeOK
    <3>2. \A p \in RunId \ {r} :
            note'[p] = note[p] /\ base'[p] = base[p] /\ skipped'[p] = skipped[p]
      BY <1>3, RestoreFrame
    <3>3. published' = published
      BY <1>3, RestoreEffect
    <3>4. QED
      BY <3>1, <3>2, <3>3 DEF NewestBase, TypeOK
  <2>3. QED
    BY <2>1, <2>2, <1>1
<1>4. ASSUME NEW r \in RunId, PackAndUpload(r) PROVE NewestBase'
  <2>1. \A p \in RunId : p > r => note[p] = "none"
    BY <1>4, YoungerUntouched DEF PackAndUpload, Active, Untouched
  <2>2. QED
    BY <1>4, <2>1, ChainAssumption DEF PackAndUpload, NewestBase, TypeOK, RunId
<1>5. CASE UNCHANGED <<published, note, base, skipped>>
  BY <1>5 DEF NewestBase
<1>6. QED
  BY <1>3, <1>4, <1>5, WorkEffect DEF Next, JobStep, Trigger, Start, Expire, vars

LEMMA FirstStep ==
  TypeOK /\ Phases /\ FirstIsFirst /\ [Next]_vars => FirstIsFirst'
<1> SUFFICES ASSUME TypeOK, Phases, FirstIsFirst, [Next]_vars PROVE FirstIsFirst'
  OBVIOUS
<1>1. ASSUME NEW r \in RunId, Restore(r) PROVE FirstIsFirst'
  <2>1. note'[r] = "first_run" => r = 1
    <3>1. ASSUME NEW lag \in 0..MaxListingLag, RestoreFirstRun(r, lag) PROVE r = 1
      BY <3>1, ChainAssumption
      DEF RestoreFirstRun, NoPriorRun, Phases, TypeOK, RunId
    <3>2. ASSUME NEW lag \in 0..MaxListingLag,
                 \/ \E p \in RunId : RestoreArtifact(r, lag, p)
                 \/ RestoreBackend(r, lag)
                 \/ RestoreFresh(r, lag)
                 \/ RestoreRefused(r, lag)
          PROVE  note'[r] # "first_run"
      BY <3>2 DEF RestoreArtifact, RestoreBackend, RestoreFresh, RestoreRefused,
                  Unpack, TypeOK
    <3>3. QED
      BY <1>1, <3>1, <3>2 DEF Restore
  <2>2. QED
    BY <1>1, <2>1, RestoreEffect DEF FirstIsFirst, TypeOK
<1>2. CASE UNCHANGED note
  BY <1>2 DEF FirstIsFirst
<1>3. QED
  BY <1>1, <1>2, WorkEffect DEF Next, JobStep, Trigger, Start, PackAndUpload, Expire, vars

-----------------------------------------------------------------------------
(* What the archives hold. *)

(* A step leaves every published archive, and the note and the skipped     *)
(* downloads of the run that published it, as they are. *)
LEMMA ArchivesStand ==
  ASSUME TypeOK, Phases, [Next]_vars, NEW p \in published
  PROVE  /\ p \in published'
         /\ history'[p] = history[p]
         /\ note'[p] = note[p]
         /\ skipped'[p] = skipped[p]
         /\ base'[p] = base[p]
         /\ healthy'[p] = healthy[p]
<1> USE DEF TypeOK
<1>a. phase[p] \notin {"none", "queued", "restore", "data", "pack"}
  BY DEF Phases, Untouched
<1>1. ASSUME NEW r \in RunId, Restore(r)
      PROVE  /\ published' = published /\ healthy' = healthy
             /\ history'[p] = history[p] /\ note'[p] = note[p]
             /\ skipped'[p] = skipped[p] /\ base'[p] = base[p]
  <2>1. p # r
    BY <1>1, <1>a, RestoreEffect
  <2>2. QED
    BY <1>1, <2>1, RestoreFrame, RestoreEffect
<1>2. ASSUME NEW r \in RunId, Abort(r) \/ SkipPack(r) \/ Finish(r)
      PROVE  published' = published /\ healthy' = healthy /\ history'[p] = history[p]
  BY <1>2 DEF Abort, SkipPack, Finish, Conclude
<1>3. ASSUME NEW r \in RunId, DataSteps(r) \/ DataStepFails(r)
      PROVE  published' = published /\ healthy'[p] = healthy[p] /\ history'[p] = history[p]
  BY <1>3, <1>a DEF DataSteps, DataStepFails
<1>4. CASE Trigger \/ (\E r \in RunId, m \in Modes, f \in BOOLEAN : Start(r, m, f))
           \/ (\E r \in RunId : PackAndUpload(r) \/ Expire(r)) \/ UNCHANGED vars
  BY <1>4 DEF Trigger, Start, PackAndUpload, Expire, vars
<1>5. QED
  BY <1>1, <1>2, <1>3, <1>4, WorkEffect DEF Next, JobStep

LEMMA GrowsStep ==
  TypeOK /\ Phases /\ Order /\ Grows /\ [Next]_vars => Grows'
<1> SUFFICES ASSUME TypeOK, Phases, Order, Grows, [Next]_vars,
                    NEW r \in RunId, Lives(r)', note'[r] = "artifact"
             PROVE  /\ base'[r] \in published'
                    /\ base'[r] < r
                    /\ history'[base'[r]] \subseteq history'[r]
  BY DEF Grows
<1> DEFINE Holds(b, h) == b \in published /\ b < r /\ history[b] \subseteq h
<1>1. ASSUME Holds(base'[r], history'[r])
      PROVE  /\ base'[r] \in published'
             /\ base'[r] < r
             /\ history'[base'[r]] \subseteq history'[r]
  BY <1>1, ArchivesStand
<1>2. ASSUME NEW lag \in 0..MaxListingLag, NEW b \in RunId, RestoreArtifact(r, lag, b)
      PROVE  Holds(base'[r], history'[r])
  <2>1. b \in published /\ b # r /\ ~(b > r)
    BY <1>2, YoungerUntouched DEF RestoreArtifact, TypeOK, Phases, Untouched, Active
  <2>2. base'[r] = b /\ history'[r] = history[b]
    BY <1>2, ChainAssumption DEF RestoreArtifact, Unpack, TypeOK, RunId
  <2>3. QED
    BY <2>1, <2>2, ChainAssumption DEF RunId
<1>3. ASSUME Restore(r) PROVE Holds(base'[r], history'[r])
  BY <1>3, <1>2 DEF Restore, RestoreFirstRun, RestoreBackend, RestoreFresh,
                    RestoreRefused, Unpack, TypeOK
<1>4. ASSUME Lives(r), note[r] = "artifact", base'[r] = base[r],
             history[r] \subseteq history'[r]
      PROVE  Holds(base'[r], history'[r])
  BY <1>4 DEF Grows
<1>5. ASSUME NEW q \in RunId, q # r, Restore(q) PROVE Holds(base'[r], history'[r])
  <2>1. phase'[r] = phase[r] /\ note'[r] = note[r] /\ published' = published
    BY <1>5, RestoreEffect DEF TypeOK
  <2>2. base'[r] = base[r] /\ history'[r] = history[r]
    BY <1>5, RestoreFrame
  <2>3. QED
    BY <2>1, <2>2, <1>4 DEF Lives
<1>6. ASSUME NEW q \in RunId, Abort(q) \/ SkipPack(q) \/ Finish(q)
      PROVE  Holds(base'[r], history'[r])
  <2>1. Lives(r) /\ (q = r => r \in published)
    BY <1>6 DEF Abort, SkipPack, Finish, Conclude, Lives, TypeOK
  <2>2. history'[r] = history[r]
    BY <1>6, <2>1 DEF Abort, SkipPack, Finish, Conclude, TypeOK
  <2>3. QED
    BY <1>6, <2>1, <2>2, <1>4, WorkEffect
<1>7. ASSUME NEW q \in RunId, DataSteps(q) \/ DataStepFails(q)
      PROVE  Holds(base'[r], history'[r])
  <2>1. Lives(r) /\ history[r] \subseteq history'[r]
    BY <1>7 DEF DataSteps, DataStepFails, Lives, TypeOK
  <2>2. QED
    BY <1>7, <2>1, <1>4, WorkEffect
<1>8. ASSUME NEW q \in RunId, PackAndUpload(q) PROVE Holds(base'[r], history'[r])
  BY <1>8, <1>4 DEF PackAndUpload, Lives, TypeOK
<1>9. CASE Trigger \/ (\E q \in RunId, m \in Modes, f \in BOOLEAN : Start(q, m, f))
           \/ (\E q \in RunId : Expire(q)) \/ UNCHANGED vars
  BY <1>9, <1>4 DEF Trigger, Start, Expire, vars, Lives, TypeOK
<1>10. QED
  BY <1>1, <1>3, <1>5, <1>6, <1>7, <1>8, <1>9 DEF Next, JobStep

LEMMA CleanStep ==
  TypeOK /\ Phases /\ Clean /\ NoBrokenRunLeaks /\ [Next]_vars
    => Clean' /\ NoBrokenRunLeaks'
<1> SUFFICES ASSUME TypeOK, Phases, Clean, NoBrokenRunLeaks, [Next]_vars
             PROVE  Clean' /\ NoBrokenRunLeaks'
  OBVIOUS
<1> DEFINE Sound(q) == q \in published /\ healthy[q]
<1>1. \A q \in RunId : Sound(q) => Sound(q)'
  BY ArchivesStand
<1>2. ASSUME NEW r \in RunId, Lives(r), history'[r] \subseteq history[r] \cup {r},
             r \in published => history'[r] = history[r]
      PROVE  \A q \in history'[r] : q = r \/ Sound(q)'
  <2>1. \A q \in history[r] : q = r \/ Sound(q)
    BY <1>2 DEF Lives, Clean, NoBrokenRunLeaks
  <2>2. QED
    BY <1>1, <1>2, <2>1 DEF TypeOK
<1>3. ASSUME NEW r \in RunId, NEW b \in 0..MaxRuns, NEW n, Unpack(r, b, n),
             b \in published \cup {0}
      PROVE  \A q \in history'[r] : Sound(q)'
  <2>1. CASE b = 0
    BY <1>3, <2>1 DEF Unpack, TypeOK
  <2>2. CASE b \in published
    <3>1. b # 0
      BY <2>2, ChainAssumption DEF TypeOK, RunId
    <3>2. history'[r] = history[b]
      BY <1>3, <3>1 DEF Unpack, TypeOK
    <3>3. QED
      BY <2>2, <3>2, <1>1 DEF NoBrokenRunLeaks, TypeOK
  <2>3. QED
    BY <1>3, <2>1, <2>2
<1>4. ASSUME NEW r \in RunId, Restore(r), phase'[r] = "data"
      PROVE  \A q \in history'[r] : Sound(q)'
  <2>1. \E b \in published \cup {0}, n \in Notes : Unpack(r, b, n)
    BY <1>4 DEF Restore, RestoreFirstRun, RestoreArtifact, RestoreBackend,
                RestoreFresh, RestoreRefused, Conclude, TypeOK, Notes
  <2>2. published \cup {0} \subseteq 0..MaxRuns
    BY ChainAssumption DEF TypeOK, RunId
  <2>3. QED
    BY <2>1, <2>2, <1>3
<1>5. Clean'
  <2> SUFFICES ASSUME NEW r \in RunId, phase'[r] \in {"data", "pack"}
               PROVE  \A q \in history'[r] : q = r \/ Sound(q)'
    BY DEF Clean
  <2>1. CASE Restore(r)
    BY <2>1, <1>4, RestoreEffect DEF TypeOK
  <2>2. ASSUME NEW p \in RunId, p # r, Restore(p)
        PROVE  history'[r] = history[r] /\ phase'[r] = phase[r]
    BY <2>2, RestoreFrame, RestoreEffect DEF TypeOK
  <2>3. ASSUME NEW p \in RunId,
               Abort(p) \/ SkipPack(p) \/ Finish(p) \/ PackAndUpload(p) \/ Expire(p)
        PROVE  history'[r] = history[r] /\ phase'[r] = phase[r]
    BY <2>3 DEF Abort, SkipPack, Finish, PackAndUpload, Expire, Conclude, TypeOK
  <2>4. ASSUME NEW p \in RunId, DataSteps(p) \/ DataStepFails(p)
        PROVE  /\ phase[r] \in {"data", "pack"}
               /\ history'[r] \subseteq history[r] \cup {r}
    BY <2>4 DEF DataSteps, DataStepFails, TypeOK
  <2>5. CASE Trigger \/ (\E p \in RunId, m \in Modes, f \in BOOLEAN : Start(p, m, f))
             \/ UNCHANGED vars
    <3>1. history'[r] = history[r] /\ phase'[r] = phase[r]
      BY <2>5 DEF Trigger, Start, vars, TypeOK
    <3>2. QED
      BY <3>1, <1>2 DEF Lives
  <2>6. phase[r] \in {"data", "pack"} => r \notin published
    BY DEF Phases
  <2>7. QED
    BY <2>1, <2>2, <2>3, <2>4, <2>5, <2>6, <1>2 DEF Next, JobStep, Lives
<1>6. NoBrokenRunLeaks'
  <2> SUFFICES ASSUME NEW r \in published'
               PROVE  \A q \in history'[r] : Sound(q)'
    BY DEF NoBrokenRunLeaks
  <2>1. CASE r \in published
    BY <2>1, <1>1, ArchivesStand DEF NoBrokenRunLeaks, TypeOK
  <2>2. CASE r \notin published
    <3>1. r \in RunId /\ PackAndUpload(r)
      BY <2>2, RestoreEffect, WorkEffect
      DEF Next, JobStep, Trigger, Start, PackAndUpload, Expire, vars, TypeOK
    <3>2. Sound(r)'
      BY <3>1 DEF PackAndUpload, JobSucceeded
    <3>3. QED
      BY <3>1, <3>2, <1>2 DEF PackAndUpload, Lives
  <2>3. QED
    BY <2>1, <2>2
<1>7. QED
  BY <1>5, <1>6

LEMMA LossStep ==
  /\ TypeOK /\ Phases /\ Order /\ Grows /\ NewestBase /\ LossIsExplained
  /\ [Next]_vars
  => LossIsExplained'
<1> SUFFICES ASSUME TypeOK, Phases, Order, Grows, NewestBase, LossIsExplained,
                    [Next]_vars
             PROVE  LossIsExplained'
  OBVIOUS
<1> DEFINE Explained(p, r) ==
      \/ history[p] \subseteq history[r]
      \/ \E q \in published : p < q /\ q <= r /\ Cuts(q)
<1>1. \A q \in published : Cuts(q) => Cuts(q)'
  BY ArchivesStand DEF Cuts
<1>2. ASSUME NEW p \in published, NEW r \in published, Explained(p, r)
      PROVE  Explained(p, r)'
  BY <1>1, <1>2, ArchivesStand
<1>3. CASE published' = published
  BY <1>2, <1>3 DEF LossIsExplained
<1>4. ASSUME NEW r \in RunId, PackAndUpload(r) PROVE LossIsExplained'
  <2>1. published' = published \cup {r} /\ history' = history /\ Cuts(r)' = Cuts(r)
    BY <1>4 DEF PackAndUpload, Cuts
  <2>2. \A q \in published : q <= r
    BY <1>4, YoungerUntouched, ChainAssumption
    DEF PackAndUpload, Active, Untouched, TypeOK, RunId
  <2>3. ASSUME NEW p \in published, p < r PROVE Explained(p, r)'
    <3>1. CASE Cuts(r)
      <4>1. r \in published' /\ p < r /\ r <= r
        BY <2>1, <2>3, ChainAssumption DEF RunId
      <4>2. note'[r] # "artifact" \/ skipped'[r] # {}
        BY <1>4, <3>1 DEF PackAndUpload, Cuts
      <4>3. QED
        BY <4>1, <4>2 DEF Cuts
    <3>2. CASE ~Cuts(r)
      <4>1. /\ base[r] \in published /\ base[r] < r
            /\ history[base[r]] \subseteq history[r]
        BY <1>4, <3>2 DEF PackAndUpload, Cuts, Grows, Lives
      <4>2. ~(base[r] < p)
        BY <2>3, <3>2 DEF Cuts, NewestBase
      <4>3. CASE p = base[r]
        BY <2>1, <4>1, <4>3
      <4>4. CASE p < base[r]
        <5>1. Explained(p, base[r])
          BY <2>3, <4>1, <4>4 DEF LossIsExplained
        <5>2. CASE history[p] \subseteq history[base[r]]
          BY <2>1, <4>1, <5>2
        <5>3. ASSUME NEW q \in published, p < q, q <= base[r], Cuts(q)
              PROVE  Explained(p, r)'
          <6>1. q <= r /\ q \in published'
            BY <5>3, <4>1, <2>1, ChainAssumption DEF TypeOK, RunId
          <6>2. note'[q] # "artifact" \/ skipped'[q] # {}
            BY <5>3, <1>1 DEF Cuts
          <6>3. QED
            BY <5>3, <6>1, <6>2 DEF Cuts
        <5>4. QED
          BY <5>1, <5>2, <5>3
      <4>5. p = base[r] \/ p < base[r]
        BY <4>1, <4>2, ChainAssumption DEF TypeOK, RunId
      <4>6. QED
        BY <4>3, <4>4, <4>5
    <3>3. QED
      BY <3>1, <3>2
  <2>4. SUFFICES ASSUME NEW p \in published', NEW q \in published', p < q
                 PROVE  Explained(p, q)'
    BY DEF LossIsExplained
  <2>5. p \in published
    BY <2>1, <2>2, <2>4, ChainAssumption DEF TypeOK, RunId
  <2>6. CASE q = r
    BY <2>3, <2>4, <2>5, <2>6
  <2>7. CASE q \in published
    <3>1. Explained(p, q)
      BY <2>4, <2>5, <2>7 DEF LossIsExplained
    <3>2. QED
      BY <3>1, <2>5, <2>7, <1>2
  <2>8. QED
    BY <2>1, <2>4, <2>6, <2>7
<1>5. QED
  BY <1>3, <1>4, RestoreEffect, WorkEffect DEF Next, JobStep, Trigger, Start, Expire, vars

-----------------------------------------------------------------------------
(* The theorems. *)

LEMMA Inductive == Spec => []IInv
<1>1. Init => IInv
  <2> SUFFICES ASSUME Init PROVE IInv
    OBVIOUS
  <2>1. TypeOK
    BY InitType
  <2>2. Serial /\ Order /\ Fifo /\ NewestBase /\ Clean /\ NoBrokenRunLeaks
          /\ FirstIsFirst /\ LossIsExplained
    BY DEF Init, Serial, Order, Fifo, NewestBase, Clean, NoBrokenRunLeaks,
           FirstIsFirst, LossIsExplained, Active
  <2>3. Phases /\ Grows
    BY DEF Init, Phases, Untouched, Grows, Lives
  <2>4. QED
    BY <2>1, <2>2, <2>3 DEF IInv
<1>2. IInv /\ [Next]_vars => IInv'
  BY TypeStep, SerialStep, PhasesStep, OrderStep, FifoStep, NewestBaseStep,
     GrowsStep, CleanStep, FirstStep, LossStep DEF IInv
<1>3. QED
  BY <1>1, <1>2, PTL DEF Spec

(* The state of the chain is well formed: among others, an artifact that   *)
(* can be downloaded was published and the backend's newest version is the *)
(* archive of a run that also published it (turboedge-state-pack uploads   *)
(* before it pushes). *)
THEOREM TypeCorrect == Spec => []TypeOK
<1>1. IInv => TypeOK
  BY DEF IInv
<1>2. QED
  BY <1>1, Inductive, PTL

(* History leaves the chain only where a restore recorded a reason: an     *)
(* empty start, the backend, or a newer artifact that could not be         *)
(* downloaded (the restore step of turboedge-state). *)
THEOREM ChainIsLinear == Spec => []LossIsExplained
<1>1. IInv => LossIsExplained
  BY DEF IInv
<1>2. QED
  BY <1>1, Inductive, PTL

(* Every restored artifact is the newest one but for failed downloads. *)
THEOREM RestoresNewest == Spec => []NewestBase
<1>1. IInv => NewestBase
  BY DEF IInv
<1>2. QED
  BY <1>1, Inductive, PTL

(* `if: success()` on the pack step keeps every write of a broken run out  *)
(* of all later archives. *)
THEOREM BrokenRunsLeaveNoTrace == Spec => []NoBrokenRunLeaks
<1>1. IInv => NoBrokenRunLeaks
  BY DEF IInv
<1>2. QED
  BY <1>1, Inductive, PTL

(* No run is taken for the first one once an older run has published. *)
THEOREM EmptyStartIsFirst == Spec => []NoSilentEmptyStart
<1>1. IInv => NoSilentEmptyStart
  BY ChainAssumption DEF IInv, FirstIsFirst, NoSilentEmptyStart, TypeOK, RunId
<1>2. QED
  BY <1>1, Inductive, PTL
=============================================================================
