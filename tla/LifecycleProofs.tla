--------------------------- MODULE LifecycleProofs ---------------------------
(***************************************************************************)
(* The two journals never contradict each other, the record a crash leaves *)
(* is one that Recover accepts, and the engines implement the safety of    *)
(* UpdateContract: for every number of transactions, faults, crashes and   *)
(* deadlines.  One inductive invariant carries the three.                  *)
(***************************************************************************)
EXTENDS LifecycleTypeProofs

(* Where a Run, a commit and a rollback can be. *)
RunPlaces == RunCalls \cup ForwardSteps \cup Pending
CommitPlaces == CommitCalls \cup CommitSteps \cup {"COMMITTED"}
RollbackPlaces == RollbackCalls \cup RollbackSteps \cup {"ROLLED_BACK"}

(* What the supervisor's journal holds at each place of its operation. *)
InOrder ==
    /\ sup = "STAGED" => supJournal = "IDLE"
    /\ sup = "awaitRun" => supJournal = "STAGED"
    /\ sup = "awaitAbort" => supJournal \in {"IDLE", "STAGED", "PREPARED"}
    /\ sup = "ROLLED_BACK" =>
          supJournal \in {"IDLE", "STAGED", "PREPARED", "SWITCHED"}
    /\ sup = "PREPARED" => supJournal = "STAGED" /\ journal = "VERIFIED"
    /\ sup = "SWITCHED" => supJournal = "PREPARED"
    /\ sup \in {"awaitCommit", "awaitRecover"} => supJournal = "SWITCHED"
    /\ sup \in {"VERIFIED", "RESUMED"} =>
          supJournal = "SWITCHED" /\ journal = "COMMITTED"
    /\ sup \in {"COMMITTED", "awaitComplete"} => supJournal = "VERIFIED"

(* Which operation of the supervisor an engine call serves: a call commits *)
(* only for a supervisor past its decision, and rolls back only before it. *)
Belongs ==
    /\ frame.at \in RunPlaces => sup = "awaitRun"
    /\ frame.at = "Commit" => sup = "awaitCommit"
    /\ frame.at = "Abort" => sup = "awaitAbort"
    /\ frame.at = "Recover" => sup \in {"awaitRecover", "awaitComplete"}
    /\ frame.at \in CommitPlaces =>
          sup \in {"awaitCommit", "awaitRecover"} /\ journal = "VERIFIED"
    /\ frame.at \in RollbackPlaces => sup \in {"awaitRun", "awaitAbort"}
    /\ sup \notin Awaits => frame.at = "idle"

(* A call that answers VERIFIED or COMMITTED without an error left its     *)
(* journal there.                                                          *)
Truthful ==
    (frame.at = "return" /\ ~result.err
        /\ result.phase \in {"VERIFIED", "COMMITTED"}) =>
        journal = result.phase

(* Every step on record was accepted with its predecessors on record, and  *)
(* a phase is about to be written only over its evidence.                  *)
Evidenced ==
    /\ \A step \in progress : ProgressAccepts(progress, step, Fresh)
    /\ frame.at \in Phases => RecoveryAccepts(frame.at, progress, Fresh)

(* The manifest's receipt is true. *)
Installed ==
    ("MANIFEST_COMMITTED" \in progress \/ frame.at = "MANIFEST_COMMITTED") =>
        host.manifest = Target

IInv ==
    /\ InOrder
    /\ Belongs
    /\ Truthful
    /\ Evidenced
    /\ Installed
    /\ JournalsAgree
    /\ RecoveryEvidence

-----------------------------------------------------------------------------
(* Progress and the journal. *)

(* Evidence is never lost while the transaction is the same. *)
LEMMA EvidenceGrows ==
    ASSUME NEW phase, progress \subseteq progress', tx' = tx,
           RecoveryAccepts(phase, progress, Fresh)
    PROVE  RecoveryAccepts(phase, progress', Fresh')
BY DEF RecoveryAccepts, Fresh

(* An append, reported as done or as failed, adds an accepted step at most. *)
LEMMA AppendGrows ==
    ASSUME IInv, NEW step, Append(step) \/ AppendFails(step), tx' = tx
    PROVE  /\ progress \subseteq progress'
           /\ progress' \subseteq progress \cup {step}
           /\ \A each \in progress' : ProgressAccepts(progress', each, Fresh')
BY DEF IInv, Evidenced, Append, AppendFails, ProgressAccepts, Fresh

(* What is left of the invariant when the journals stay and progress       *)
(* grows.                                                                  *)
LEMMA RestKeeps ==
    ASSUME IInv, UNCHANGED <<tx, journal, supJournal, sup>>,
           progress \subseteq progress'
    PROVE  InOrder' /\ JournalsAgree' /\ RecoveryEvidence'
BY EvidenceGrows DEF IInv, InOrder, JournalsAgree, RecoveryEvidence

(* A call of the engine dies or returns with an error wherever it is.      *)
LEMMA LeavingKeeps ==
    ASSUME IInv, UNCHANGED <<tx, sup>>, frame.at # "idle",
           \/ frame' = At("down")
           \/ frame' = At("return") /\ result'.err = TRUE
    PROVE  /\ Belongs' /\ Truthful'
           /\ frame'.at \notin Phases
           /\ frame'.at # "MANIFEST_COMMITTED"
<1>1. sup \in Awaits
  BY DEF IInv, Belongs
<1>2. frame'.at \in {"down", "return"}
  BY DEF At
<1>3. Belongs'
  BY <1>1, <1>2
     DEF Belongs, RunPlaces, CommitPlaces, RollbackPlaces, RunCalls,
     ForwardSteps, CommitCalls, CommitSteps, RollbackCalls, RollbackSteps,
     Pending, Awaits
<1>4. QED
  BY <1>2, <1>3 DEF Truthful, Phases, Pending, Terminal, At

-----------------------------------------------------------------------------
(* The shapes. *)

(* A participant call of Run goes on, rolls back or dies, and changes no   *)
(* record and no manifest.                                                 *)
LEMMA RunCallKeeps ==
    ASSUME IInv,
           UNCHANGED <<tx, journal, progress, result, supJournal, sup>>,
           host'.manifest = host.manifest,
           frame.at \in RunCalls,
           frame'.at \in RunCalls \cup ForwardSteps
                         \cup {"ROLLBACK_STARTED", "down"}
    PROVE  IInv'
<1>1. sup = "awaitRun"
  BY DEF IInv, Belongs, RunPlaces
<1>2. Belongs'
  BY <1>1 DEF Belongs, RunPlaces, CommitPlaces, RollbackPlaces, RunCalls,
     ForwardSteps, CommitCalls, CommitSteps, RollbackCalls, RollbackSteps,
     Pending, Awaits
<1>3. Truthful' /\ frame'.at \notin Phases /\ frame'.at # "MANIFEST_COMMITTED"
  BY DEF Truthful, RunCalls, ForwardSteps, Phases, Pending, Terminal
<1>4. Evidenced' /\ Installed'
  BY <1>3 DEF IInv, Evidenced, Installed, Target, Fresh
<1>5. QED BY <1>2, <1>3, <1>4, RestKeeps DEF IInv

(* An append of Run. *)
LEMMA RunRecordKeeps ==
    ASSUME IInv, UNCHANGED supVars,
           NEW step \in ForwardSteps,
           NEW next \in RunCalls \cup ForwardSteps
                        \cup {"PREPARED", "SWITCHED", "VERIFIED"},
           next \in Phases => step = RequiredStep(next),
           NEW restore \in BOOLEAN,
           RunRecord(step, next, restore)
    PROVE  IInv'
<1>1. /\ sup = "awaitRun"
      /\ UNCHANGED <<tx, journal, supJournal, sup, host, result>>
  BY DEF IInv, Belongs, RunPlaces, RunRecord, supVars
<1>2. /\ progress \subseteq progress'
      /\ progress' \subseteq progress \cup {step}
      /\ \A each \in progress' : ProgressAccepts(progress', each, Fresh')
  BY <1>1, AppendGrows DEF RunRecord
<1>3. \/ frame'.at = next /\ step \in progress'
      \/ frame'.at = "ROLLBACK_STARTED"
  BY DEF RunRecord, GoTo, At, EnterRollback, Append
<1>4. Belongs'
  BY <1>1, <1>3 DEF Belongs, RunPlaces, CommitPlaces, RollbackPlaces,
     RunCalls, ForwardSteps, CommitCalls, CommitSteps, RollbackCalls,
     RollbackSteps, Pending, Awaits
<1>5. Truthful' /\ frame'.at # "MANIFEST_COMMITTED"
  BY <1>3 DEF Truthful, RunCalls, ForwardSteps
<1>6. frame'.at \in Phases => RecoveryAccepts(frame'.at, progress', Fresh')
  <2>1. SUFFICES ASSUME frame'.at \in Phases
                 PROVE  RecoveryAccepts(next, progress', Fresh')
    BY <1>3 DEF Phases, Pending, Terminal
  <2>2. /\ next \in {"PREPARED", "SWITCHED", "VERIFIED"}
        /\ step = RequiredStep(next)
        /\ step \in progress'
    BY <1>3, <2>1 DEF Phases, Pending, Terminal, RunCalls, ForwardSteps
  <2>3. next = "VERIFIED" => (~Fresh' => "PLUGIN_VERIFIED" \in progress')
    BY <1>2, <2>2 DEF RequiredStep, ProgressAccepts
  <2>4. QED BY <2>2, <2>3 DEF RecoveryAccepts
<1>7. Evidenced'
  BY <1>2, <1>6 DEF Evidenced
<1>8. Installed'
  BY <1>1, <1>2, <1>5
     DEF IInv, Installed, Target, ForwardSteps
<1>9. QED BY <1>1, <1>2, <1>4, <1>5, <1>7, <1>8, RestKeeps DEF IInv

(* engine.advance of Run. *)
LEMMA RunAdvanceKeeps ==
    ASSUME TypeOK, IInv, UNCHANGED supVars,
           NEW phase \in {"IDLE", "STAGED", "PREPARED", "SWITCHED"},
           NEW next \in RunCalls \cup ForwardSteps,
           RunAdvance(phase, next)
    PROVE  IInv'
<1>1. /\ sup = "awaitRun"
      /\ supJournal = "STAGED"
      /\ UNCHANGED <<tx, progress, supJournal, sup, host>>
  BY DEF IInv, InOrder, Belongs, RunPlaces, Pending, RunAdvance, supVars
<1>2. journal' \in {journal, phase}
  BY DEF RunAdvance, Write, WriteFails
<1>3. \/ frame' = At(next) /\ UNCHANGED result
      \/ frame' = At("return") /\ result'.err = TRUE
  BY DEF RunAdvance, GoTo, Return
<1>4. Belongs' /\ Truthful' /\ frame'.at \notin Phases
      /\ frame'.at # "MANIFEST_COMMITTED"
  <2>1. CASE frame' = At(next)
    <3>1. frame'.at = next
      BY <2>1 DEF At
    <3>2. Belongs'
      BY <1>1, <3>1 DEF Belongs, RunPlaces, CommitPlaces, RollbackPlaces,
         RunCalls, ForwardSteps, CommitCalls, CommitSteps, RollbackCalls,
         RollbackSteps, Pending, Awaits
    <3>3. QED
      BY <3>1, <3>2
         DEF Truthful, RunCalls, ForwardSteps, Phases, Pending, Terminal
  <2>2. CASE frame' = At("return") /\ result'.err = TRUE
    BY <1>1, <2>2, LeavingKeeps DEF RunAdvance
  <2>3. QED BY <1>3, <2>1, <2>2
<1>5. Evidenced' /\ Installed'
  BY <1>1, <1>4 DEF IInv, Evidenced, Installed, Target, Fresh
<1>6. RecoveryEvidence'
  <2>1. RecoveryAccepts(phase, progress, Fresh)
    BY DEF IInv, Evidenced, RunAdvance, Phases, Pending
  <2>2. QED
    BY <1>1, <1>2, <2>1, EvidenceGrows
       DEF IInv, RecoveryEvidence
<1>7. InOrder' /\ JournalsAgree'
  BY <1>1, <1>2 DEF IInv, InOrder, JournalsAgree
<1>8. QED BY <1>4, <1>5, <1>6, <1>7 DEF IInv

(* The receipts of a commit lead back to the evidence of the update. *)
LEMMA FinalizedIsEvidence ==
    ASSUME \A step \in progress : ProgressAccepts(progress, step, Fresh),
           "PLATFORM_FINALIZED" \in progress
    PROVE  /\ RecoveryAccepts("COMMITTED", progress, Fresh)
           /\ "MANIFEST_COMMITTED" \in progress
<1>1. "TERMINAL_CONVERGENCE_VERIFIED" \in progress
  BY DEF ProgressAccepts
<1>2. "MANIFEST_COMMITTED" \in progress
  BY <1>1 DEF ProgressAccepts
<1>3. ~Fresh => "PLUGIN_VERIFIED" \in progress
  BY <1>2 DEF ProgressAccepts
<1>4. QED BY <1>2, <1>3 DEF RecoveryAccepts, RequiredStep

(* A participant call of commit goes on, leaves the commit pending or      *)
(* dies; only the manifest's own call changes the manifest.                *)
LEMMA CommitCallKeeps ==
    ASSUME IInv, UNCHANGED <<tx, journal, progress, supJournal, sup>>,
           host'.manifest \in {host.manifest, Target},
           frame.at \in CommitCalls,
           \/ frame' = At("down")
           \/ frame' = At("return") /\ result'.err = TRUE
           \/ /\ frame'.at \in CommitCalls \cup CommitSteps \cup {"COMMITTED"}
              /\ frame'.at = "COMMITTED" => "PLATFORM_FINALIZED" \in progress
              /\ frame'.at = "MANIFEST_COMMITTED" => host'.manifest = Target
    PROVE  IInv'
<1>1. sup \in {"awaitCommit", "awaitRecover"} /\ journal = "VERIFIED"
  BY DEF IInv, Belongs, CommitPlaces
<1>2. CASE \/ frame' = At("down")
           \/ frame' = At("return") /\ result'.err = TRUE
  <2>1. /\ Belongs' /\ Truthful' /\ frame'.at \notin Phases
        /\ frame'.at # "MANIFEST_COMMITTED"
    BY <1>2, LeavingKeeps DEF CommitCalls
  <2>2. Evidenced' /\ Installed'
    BY <2>1 DEF IInv, Evidenced, Installed, Target, Fresh
  <2>3. QED BY <2>1, <2>2, RestKeeps DEF IInv
<1>3. CASE /\ frame'.at \in CommitCalls \cup CommitSteps \cup {"COMMITTED"}
           /\ frame'.at = "COMMITTED" => "PLATFORM_FINALIZED" \in progress
           /\ frame'.at = "MANIFEST_COMMITTED" => host'.manifest = Target
  <2>1. Belongs'
    BY <1>1, <1>3 DEF Belongs, RunPlaces, CommitPlaces, RollbackPlaces,
       RunCalls, ForwardSteps, CommitCalls, CommitSteps, RollbackCalls,
       RollbackSteps, Pending, Awaits
  <2>2. Truthful'
    BY <1>3 DEF Truthful, CommitCalls, CommitSteps
  <2>3. Evidenced'
    BY <1>3, FinalizedIsEvidence
       DEF IInv, Evidenced, Fresh, CommitCalls, CommitSteps, Phases, Pending,
           Terminal
  <2>4. Installed'
    BY <1>3 DEF IInv, Installed, Target
  <2>5. QED BY <2>1, <2>2, <2>3, <2>4, RestKeeps DEF IInv
<1>4. QED BY <1>2, <1>3

(* An append of commit. *)
LEMMA CommitRecordKeeps ==
    ASSUME IInv, UNCHANGED supVars,
           NEW step \in CommitSteps,
           NEW next \in CommitCalls \cup {"COMMITTED"},
           next = "COMMITTED" => step = "PLATFORM_FINALIZED",
           CommitRecord(step, next)
    PROVE  IInv'
<1>1. /\ sup \in {"awaitCommit", "awaitRecover"} /\ journal = "VERIFIED"
      /\ UNCHANGED <<tx, journal, supJournal, sup, host>>
      /\ frame.at = step
  BY DEF IInv, Belongs, CommitPlaces, CommitRecord, supVars
<1>2. /\ progress \subseteq progress'
      /\ progress' \subseteq progress \cup {step}
      /\ \A each \in progress' : ProgressAccepts(progress', each, Fresh')
  BY <1>1, AppendGrows DEF CommitRecord
<1>3. Installed' \/ frame'.at = "MANIFEST_COMMITTED"
  BY <1>1, <1>2 DEF IInv, Installed, Target
<1>4. CASE Append(step) /\ GoTo(next) /\ UNCHANGED result
  <2>1. frame'.at = next /\ step \in progress'
    BY <1>4 DEF GoTo, At, Append
  <2>2. Belongs'
    BY <1>1, <2>1 DEF Belongs, RunPlaces, CommitPlaces, RollbackPlaces,
       RunCalls, ForwardSteps, CommitCalls, CommitSteps, RollbackCalls,
       RollbackSteps, Pending, Awaits
  <2>3. Truthful' /\ Installed'
    BY <1>3, <2>1 DEF Truthful, CommitCalls
  <2>4. next = "COMMITTED" => RecoveryAccepts("COMMITTED", progress', Fresh')
    <3>1. SUFFICES ASSUME next = "COMMITTED"
                   PROVE  RecoveryAccepts("COMMITTED", progress', Fresh')
      OBVIOUS
    <3>2. "PLATFORM_FINALIZED" \in progress'
      BY <2>1, <3>1
    <3>3. "TERMINAL_CONVERGENCE_VERIFIED" \in progress'
      BY <1>2, <3>2 DEF ProgressAccepts
    <3>4. "MANIFEST_COMMITTED" \in progress'
      BY <1>2, <3>3 DEF ProgressAccepts
    <3>5. ~Fresh' => "PLUGIN_VERIFIED" \in progress'
      BY <1>2, <3>4 DEF ProgressAccepts
    <3>6. QED BY <3>2, <3>5 DEF RecoveryAccepts, RequiredStep
  <2>5. Evidenced'
    BY <1>2, <2>1, <2>4 DEF Evidenced, CommitCalls, Phases, Pending, Terminal
  <2>6. QED BY <1>1, <1>2, <2>2, <2>3, <2>5, RestKeeps DEF IInv
<1>5. CASE AppendFails(step) /\ Return("VERIFIED", TRUE)
  <2>1. Belongs' /\ Truthful' /\ frame'.at \notin Phases
        /\ frame'.at # "MANIFEST_COMMITTED"
    BY <1>1, <1>5, LeavingKeeps DEF Return, CommitSteps
  <2>2. Evidenced' /\ Installed'
    BY <1>2, <1>3, <2>1 DEF Evidenced
  <2>3. QED BY <1>1, <1>2, <2>1, <2>2, RestKeeps DEF IInv
<1>6. QED BY <1>4, <1>5 DEF CommitRecord

(* A participant call of rollback goes on or dies. *)
LEMMA RollbackCallKeeps ==
    ASSUME IInv,
           UNCHANGED <<tx, journal, progress, result, supJournal, sup>>,
           host'.manifest = host.manifest,
           frame.at \in RollbackCalls,
           frame'.at \in RollbackCalls \cup RollbackSteps \cup {"down"}
    PROVE  IInv'
<1>1. sup \in {"awaitRun", "awaitAbort"}
  BY DEF IInv, Belongs, RollbackPlaces
<1>2. Belongs'
  BY <1>1 DEF Belongs, RunPlaces, CommitPlaces, RollbackPlaces, RunCalls,
     ForwardSteps, CommitCalls, CommitSteps, RollbackCalls, RollbackSteps,
     Pending, Awaits
<1>3. Truthful' /\ frame'.at \notin Phases /\ frame'.at # "MANIFEST_COMMITTED"
  BY DEF Truthful, RollbackCalls, RollbackSteps, Phases, Pending, Terminal
<1>4. Evidenced' /\ Installed'
  BY <1>3 DEF IInv, Evidenced, Installed, Target, Fresh
<1>5. QED BY <1>2, <1>3, <1>4, RestKeeps DEF IInv

(* An append of rollback. *)
LEMMA RollbackRecordKeeps ==
    ASSUME TypeOK, IInv, UNCHANGED supVars,
           NEW step \in RollbackSteps,
           NEW next \in RollbackCalls \cup {"ROLLBACK_COMPLETED"},
           RollbackRecord(step, next)
    PROVE  IInv'
<1>1. /\ sup \in {"awaitRun", "awaitAbort"}
      /\ UNCHANGED <<tx, journal, supJournal, sup, host, result>>
  BY DEF IInv, Belongs, RollbackPlaces, RollbackRecord, supVars
<1>2. /\ progress \subseteq progress'
      /\ progress' \subseteq progress \cup {step}
      /\ \A each \in progress' : ProgressAccepts(progress', each, Fresh')
  BY <1>1, AppendGrows DEF RollbackRecord
<1>3. frame'.at = next
  BY DEF RollbackRecord, TypeOK, TargetTypeOK, Frames
<1>4. Belongs'
  BY <1>1, <1>3 DEF Belongs, RunPlaces, CommitPlaces, RollbackPlaces,
     RunCalls, ForwardSteps, CommitCalls, CommitSteps, RollbackCalls,
     RollbackSteps, Pending, Awaits
<1>5. Truthful' /\ frame'.at \notin Phases /\ frame'.at # "MANIFEST_COMMITTED"
  BY <1>3 DEF Truthful, RollbackCalls, Phases, Pending, Terminal
<1>6. Evidenced' /\ Installed'
  BY <1>1, <1>2, <1>5
     DEF IInv, Evidenced, Installed, Target, RollbackSteps
<1>7. QED BY <1>1, <1>2, <1>4, <1>5, <1>6, RestKeeps DEF IInv

-----------------------------------------------------------------------------
(* Only the manifest's own call of a commit touches the manifest.          *)

(* No step of Run changes the manifest. *)
LEMMA RunKeepsManifest ==
    ASSUME TypeOK, RunStep
    PROVE  tx' = tx /\ host'.manifest = host.manifest
<1>host. host \in Host
  BY DEF TypeOK, TargetTypeOK
<1>calls. CASE \/ SignerPrepare \/ AdapterPrepare \/ Quiesce
              \/ PrepareState \/ MigratorPrepare \/ MigratorActivate
              \/ AdapterActivate \/ MigratorVerify \/ SignerVerify
              \/ AdapterVerify
  BY <1>calls, <1>host
     DEF SignerPrepare, AdapterPrepare, Quiesce, PrepareState,
         MigratorPrepare, MigratorActivate, AdapterActivate, MigratorVerify,
         SignerVerify, AdapterVerify, RunCall, Succeed, Fail, CrashDuring,
         Left, Heedless, GateWritten, UnitsKept, StateKept, PartlyActivated,
         StateActivated, UnitsActivated, Host
<1>records. CASE \/ WriteIdle \/ StageGeneration \/ RecordGenerationStaged
                 \/ WriteStaged \/ RecordSignerPrepared
                 \/ RecordPlatformPrepared \/ WritePrepared
                 \/ RecordQuiesceStarted \/ RecordQuiesced
                 \/ RecordStatePrepared \/ RecordMigratorPrepared
                 \/ RecordMigratorActivated \/ RecordPlatformActivated
                 \/ WriteSwitched \/ RecordMigratorVerified
                 \/ RecordSignerVerified \/ RecordPluginVerified
                 \/ RecordPlatformVerified \/ WriteVerified
  BY <1>records
     DEF WriteIdle, StageGeneration, RecordGenerationStaged, WriteStaged,
         RecordSignerPrepared, RecordPlatformPrepared, WritePrepared,
         RecordQuiesceStarted, RecordQuiesced, RecordStatePrepared,
         RecordMigratorPrepared, RecordMigratorActivated,
         RecordPlatformActivated, WriteSwitched, RecordMigratorVerified,
         RecordSignerVerified, RecordPluginVerified,
         RecordPlatformVerified, WriteVerified, RunAdvance, RunRecord
<1>last. QED BY <1>calls, <1>records DEF RunStep

(* A step of commit changes the manifest to the target's, and only in the  *)
(* manifest's call.                                                        *)
LEMMA CommitKeepsManifest ==
    ASSUME TypeOK, CommitStep
    PROVE  /\ tx' = tx
           /\ host'.manifest \in {host.manifest, Target}
           /\ frame.at # "ManifestCommit" => host'.manifest = host.manifest
<1>host. host \in Host
  BY DEF TypeOK, TargetTypeOK
<1>calls. CASE \/ MigratorCommit \/ SignerCommit \/ AdapterCommit
              \/ ManifestCommit \/ Converge \/ Finalize
  BY <1>calls, <1>host
     DEF MigratorCommit, SignerCommit, AdapterCommit, ManifestCommit,
         Converge, Finalize, CommitCall, Succeed, Fail, CrashDuring, Left,
         Heedless, MigratorCommitted, PartlyCommitted, GateRemoved,
         UndoDropped, UndoPartlyDropped, Host
<1>records. CASE \/ CommitEntry \/ RecordMigratorCommitted
                 \/ RecordSignerCommitted \/ RecordPlatformCommitted
                 \/ RecordManifestCommitted \/ RecordConverged
                 \/ RecordFinalized \/ WriteCommitted
  BY <1>records
     DEF CommitEntry, RecordMigratorCommitted, RecordSignerCommitted,
         RecordPlatformCommitted, RecordManifestCommitted,
         RecordConverged, RecordFinalized, WriteCommitted, CommitRecord
<1>last. QED BY <1>calls, <1>records DEF CommitStep

(* No step of the rollback changes the manifest. *)
LEMMA RollbackKeepsManifest ==
    ASSUME TypeOK, RollbackStep
    PROVE  tx' = tx /\ host'.manifest = host.manifest
<1>host. host \in Host
  BY DEF TypeOK, TargetTypeOK
<1>calls. CASE \/ StopTarget \/ SignerAbort \/ MigratorAbort \/ Restore
              \/ Discard
  BY <1>calls, <1>host
     DEF StopTarget, SignerAbort, MigratorAbort, Restore, Discard,
         RollbackCall, Succeed, Fail, CrashDuring, Left, Heedless,
         GateRemoved, MigratorAborted, HostRestored, UnitsRestored,
         StateRestored, UndoDropped, UndoPartlyDropped, Host
<1>records. CASE \/ AbortEntry \/ RecoverEntry \/ RecordRollbackStarted
                 \/ RecordTargetStopped \/ RecordSignerAborted
                 \/ RecordMigratorAborted \/ RecordPlatformRestored
                 \/ RecordPlatformDiscarded \/ RecordRollbackCompleted
                 \/ WriteRolledBack
  BY <1>records
     DEF AbortEntry, RecoverEntry, RecordRollbackStarted,
         RecordTargetStopped, RecordSignerAborted, RecordMigratorAborted,
         RecordPlatformRestored, RecordPlatformDiscarded,
         RecordRollbackCompleted, WriteRolledBack, RollbackRecord
<1>last. QED BY <1>calls, <1>records DEF RollbackStep

-----------------------------------------------------------------------------
(* TargetEngine.Run *)

(* Each step of TargetEngine.Run keeps the invariant. *)
LEMMA RunStepKeeps ==
    ASSUME TypeOK, IInv, UNCHANGED supVars, RunStep
    PROVE  IInv'
<1> USE DEF RunCalls, ForwardSteps
<1>host. host \in Host
  BY DEF TypeOK, TargetTypeOK
<1>manifest. host'.manifest = host.manifest
  BY RunKeepsManifest
<1>WriteIdle. CASE WriteIdle
  BY <1>WriteIdle, RunAdvanceKeeps DEF WriteIdle
<1>WriteStaged. CASE WriteStaged
  BY <1>WriteStaged, RunAdvanceKeeps DEF WriteStaged
<1>WritePrepared. CASE WritePrepared
  BY <1>WritePrepared, RunAdvanceKeeps DEF WritePrepared
<1>WriteSwitched. CASE WriteSwitched
  BY <1>WriteSwitched, RunAdvanceKeeps DEF WriteSwitched
<1>StageGeneration. CASE StageGeneration
  <2>1. /\ UNCHANGED <<tx, journal, progress, supJournal, sup, host>>
        /\ frame.at = "StageGeneration"
    BY <1>StageGeneration DEF StageGeneration, supVars
  <2>2. CASE GoTo("GENERATION_STAGED") /\ UNCHANGED result
    <3>1. frame'.at = "GENERATION_STAGED"
      BY <2>2 DEF GoTo, At
    <3>2. QED BY <2>1, <2>2, <3>1, RunCallKeeps
  <2>3. CASE frame' = At("down") \/ (frame' = At("return") /\ result'.err)
    <3>1. /\ Belongs' /\ Truthful' /\ frame'.at \notin Phases
          /\ frame'.at # "MANIFEST_COMMITTED"
      BY <2>1, <2>3, LeavingKeeps
    <3>2. Evidenced' /\ Installed'
      BY <2>1, <3>1 DEF IInv, Evidenced, Installed, Target, Fresh
    <3>3. QED BY <2>1, <3>1, <3>2, RestKeeps DEF IInv
  <2>4. QED
    BY <1>StageGeneration, <2>2, <2>3 DEF StageGeneration, GoTo, Return
<1>RecordGenerationStaged. CASE RecordGenerationStaged
  <2>1. /\ UNCHANGED <<tx, journal, supJournal, sup, host>>
        /\ frame.at = "GENERATION_STAGED"
        /\ sup = "awaitRun"
    BY <1>RecordGenerationStaged
       DEF RecordGenerationStaged, supVars, IInv, Belongs, RunPlaces
  <2>2. /\ progress \subseteq progress'
        /\ progress' \subseteq progress \cup {"GENERATION_STAGED"}
        /\ \A each \in progress' : ProgressAccepts(progress', each, Fresh')
    BY <1>RecordGenerationStaged, <2>1, AppendGrows
       DEF RecordGenerationStaged
  <2>3. CASE /\ Append("GENERATION_STAGED") /\ GoTo("STAGED")
             /\ UNCHANGED result
    <3>1. frame'.at = "STAGED" /\ "GENERATION_STAGED" \in progress'
      BY <2>3 DEF GoTo, At, Append
    <3>2. Belongs'
      BY <2>1, <3>1 DEF Belongs, RunPlaces, CommitPlaces, RollbackPlaces,
         CommitCalls, CommitSteps, RollbackCalls, RollbackSteps, Pending,
         Awaits
    <3>3. Truthful' /\ Evidenced' /\ Installed'
      BY <2>1, <2>2, <3>1
         DEF IInv, Truthful, Evidenced, Installed, Target, RecoveryAccepts,
             RequiredStep
    <3>4. QED BY <2>1, <2>2, <3>2, <3>3, RestKeeps DEF IInv
  <2>4. CASE Return(Absent, TRUE)
    <3>1. /\ Belongs' /\ Truthful' /\ frame'.at \notin Phases
          /\ frame'.at # "MANIFEST_COMMITTED"
      BY <2>1, <2>4, LeavingKeeps DEF Return
    <3>2. Evidenced' /\ Installed'
      BY <2>1, <2>2, <3>1 DEF IInv, Evidenced, Installed, Target
    <3>3. QED BY <2>1, <2>2, <3>1, <3>2, RestKeeps DEF IInv
  <2>5. QED BY <1>RecordGenerationStaged, <2>3, <2>4
            DEF RecordGenerationStaged
<1>WriteVerified. CASE WriteVerified
  <2>1. /\ UNCHANGED <<tx, progress, supJournal, sup, host>>
        /\ frame.at = "VERIFIED"
        /\ sup = "awaitRun" /\ supJournal = "STAGED"
        /\ journal' \in {journal, "VERIFIED"}
    BY <1>WriteVerified
       DEF WriteVerified, Write, WriteFails, supVars, IInv, InOrder, Belongs,
           RunPlaces, Pending
  <2>2. \/ Return("VERIFIED", FALSE) /\ journal' = "VERIFIED"
        \/ Return(Absent, TRUE)
    BY <1>WriteVerified DEF WriteVerified, Write
  <2>3. frame'.at = "return" /\ Truthful'
    BY <2>2 DEF Return, At, Truthful, Absent
  <2>4. Belongs'
    BY <2>1, <2>3 DEF Belongs, RunPlaces, CommitPlaces, RollbackPlaces,
       CommitCalls, CommitSteps, RollbackCalls, RollbackSteps, Pending,
       Awaits
  <2>5. Evidenced' /\ Installed'
    BY <2>1, <2>3
       DEF IInv, Evidenced, Installed, Target, Fresh, Phases, Pending,
           Terminal
  <2>6. RecoveryEvidence'
    <3>1. RecoveryAccepts("VERIFIED", progress, Fresh)
      BY <2>1 DEF IInv, Evidenced, Phases, Pending
    <3>2. QED BY <2>1, <3>1, EvidenceGrows DEF IInv, RecoveryEvidence
  <2>7. InOrder' /\ JournalsAgree'
    BY <2>1 DEF IInv, InOrder, JournalsAgree
  <2>8. QED BY <2>3, <2>4, <2>5, <2>6, <2>7 DEF IInv
<1>RecordSignerPrepared. CASE RecordSignerPrepared
  BY <1>RecordSignerPrepared, RunRecordKeeps
     DEF RecordSignerPrepared, Phases, Pending, Terminal, RequiredStep
<1>RecordPlatformPrepared. CASE RecordPlatformPrepared
  BY <1>RecordPlatformPrepared, RunRecordKeeps
     DEF RecordPlatformPrepared, Phases, Pending, Terminal, RequiredStep
<1>RecordQuiesceStarted. CASE RecordQuiesceStarted
  BY <1>RecordQuiesceStarted, RunRecordKeeps
     DEF RecordQuiesceStarted, Phases, Pending, Terminal, RequiredStep
<1>RecordQuiesced. CASE RecordQuiesced
  BY <1>RecordQuiesced, RunRecordKeeps
     DEF RecordQuiesced, Phases, Pending, Terminal, RequiredStep
<1>RecordStatePrepared. CASE RecordStatePrepared
  BY <1>RecordStatePrepared, RunRecordKeeps
     DEF RecordStatePrepared, Phases, Pending, Terminal, RequiredStep
<1>RecordMigratorPrepared. CASE RecordMigratorPrepared
  BY <1>RecordMigratorPrepared, RunRecordKeeps
     DEF RecordMigratorPrepared, Phases, Pending, Terminal, RequiredStep
<1>RecordMigratorActivated. CASE RecordMigratorActivated
  BY <1>RecordMigratorActivated, RunRecordKeeps
     DEF RecordMigratorActivated, Phases, Pending, Terminal, RequiredStep
<1>RecordPlatformActivated. CASE RecordPlatformActivated
  BY <1>RecordPlatformActivated, RunRecordKeeps
     DEF RecordPlatformActivated, Phases, Pending, Terminal, RequiredStep
<1>RecordMigratorVerified. CASE RecordMigratorVerified
  BY <1>RecordMigratorVerified, RunRecordKeeps
     DEF RecordMigratorVerified, Phases, Pending, Terminal, RequiredStep
<1>RecordSignerVerified. CASE RecordSignerVerified
  BY <1>RecordSignerVerified, RunRecordKeeps
     DEF RecordSignerVerified, Phases, Pending, Terminal, RequiredStep
<1>RecordPluginVerified. CASE RecordPluginVerified
  BY <1>RecordPluginVerified, RunRecordKeeps
     DEF RecordPluginVerified, Phases, Pending, Terminal, RequiredStep
<1>RecordPlatformVerified. CASE RecordPlatformVerified
  BY <1>RecordPlatformVerified, RunRecordKeeps
     DEF RecordPlatformVerified, Phases, Pending, Terminal, RequiredStep
<1>calls. CASE \/ SignerPrepare \/ AdapterPrepare \/ Quiesce
              \/ PrepareState \/ MigratorPrepare \/ MigratorActivate
              \/ AdapterActivate \/ MigratorVerify \/ SignerVerify
              \/ AdapterVerify
  <2>1. /\ frame.at \in RunCalls
        /\ frame'.at \in RunCalls \cup ForwardSteps
                         \cup {"ROLLBACK_STARTED", "down"}
        /\ UNCHANGED <<tx, journal, progress, result, supJournal, sup>>
    BY <1>calls
       DEF SignerPrepare, AdapterPrepare, Quiesce, PrepareState,
           MigratorPrepare, MigratorActivate, AdapterActivate,
           MigratorVerify, SignerVerify, AdapterVerify, RunCall, Succeed,
           Fail, CrashDuring, Left, GoTo, EnterRollback, At, supVars
  <2>2. QED BY <1>manifest, <2>1, RunCallKeeps
<1>last. QED
  BY <1>WriteIdle, <1>WriteStaged, <1>WritePrepared, <1>WriteSwitched,
     <1>StageGeneration, <1>RecordGenerationStaged, <1>WriteVerified,
     <1>RecordSignerPrepared, <1>RecordPlatformPrepared,
     <1>RecordQuiesceStarted, <1>RecordQuiesced, <1>RecordStatePrepared,
     <1>RecordMigratorPrepared, <1>RecordMigratorActivated,
     <1>RecordPlatformActivated, <1>RecordMigratorVerified,
     <1>RecordSignerVerified, <1>RecordPluginVerified,
     <1>RecordPlatformVerified, <1>calls DEF RunStep

-----------------------------------------------------------------------------
(* TargetEngine.Commit *)

(* Each step of TargetEngine.Commit keeps the invariant. *)
LEMMA CommitStepKeeps ==
    ASSUME TypeOK, IInv, UNCHANGED supVars, CommitStep
    PROVE  IInv'
<1> USE DEF CommitCalls, CommitSteps
<1>host. host \in Host
  BY DEF TypeOK, TargetTypeOK
<1>manifest. host'.manifest \in {host.manifest, Target}
  BY CommitKeepsManifest
<1>CommitEntry. CASE CommitEntry
  <2>1. /\ UNCHANGED <<tx, journal, progress, host, supJournal, sup>>
        /\ frame.at = "Commit"
        /\ sup = "awaitCommit"
    BY <1>CommitEntry DEF CommitEntry, supVars, IInv, Belongs
  <2>2. \/ frame'.at = "MigratorCommit" /\ journal = "VERIFIED"
        \/ frame'.at = "return" /\ result'.phase = "COMMITTED"
           /\ journal = "COMMITTED"
        \/ frame'.at = "return" /\ result'.err = TRUE
    BY <1>CommitEntry DEF CommitEntry, GoTo, Return, ReturnCommitted, At
  <2>3. Belongs'
    BY <2>1, <2>2 DEF Belongs, RunPlaces, CommitPlaces, RollbackPlaces,
       RunCalls, ForwardSteps, RollbackCalls, RollbackSteps, Pending, Awaits
  <2>4. Truthful'
    BY <2>1, <2>2 DEF Truthful
  <2>5. Evidenced' /\ Installed'
    BY <2>1, <2>2
       DEF IInv, Evidenced, Installed, Target, Fresh, Phases, Pending,
           Terminal
  <2>6. QED BY <2>1, <2>3, <2>4, <2>5, RestKeeps DEF IInv
<1>WriteCommitted. CASE WriteCommitted
  <2>1. /\ UNCHANGED <<tx, progress, host, supJournal, sup>>
        /\ frame.at = "COMMITTED"
        /\ sup \in {"awaitCommit", "awaitRecover"}
        /\ supJournal = "SWITCHED"
        /\ journal' \in {journal, "COMMITTED"}
        /\ journal = "VERIFIED"
    BY <1>WriteCommitted
       DEF WriteCommitted, Write, WriteFails, supVars, IInv, InOrder, Belongs,
           CommitPlaces
  <2>2. \/ Return("COMMITTED", FALSE) /\ journal' = "COMMITTED"
        \/ Return(Absent, TRUE)
    BY <1>WriteCommitted DEF WriteCommitted, Write
  <2>3. frame'.at = "return" /\ Truthful'
    BY <2>2 DEF Return, At, Truthful, Absent
  <2>4. Belongs'
    BY <2>1, <2>3 DEF Belongs, RunPlaces, CommitPlaces, RollbackPlaces,
       RunCalls, ForwardSteps, RollbackCalls, RollbackSteps, Pending, Awaits
  <2>5. Evidenced' /\ Installed'
    BY <2>1, <2>3
       DEF IInv, Evidenced, Installed, Target, Fresh, Phases, Pending,
           Terminal
  <2>6. RecoveryEvidence'
    <3>1. RecoveryAccepts("COMMITTED", progress, Fresh)
      BY <2>1 DEF IInv, Evidenced, Phases, Terminal
    <3>2. QED BY <2>1, <3>1, EvidenceGrows DEF IInv, RecoveryEvidence
  <2>7. InOrder' /\ JournalsAgree'
    BY <2>1 DEF IInv, InOrder, JournalsAgree
  <2>8. QED BY <2>3, <2>4, <2>5, <2>6, <2>7 DEF IInv
<1>RecordMigratorCommitted. CASE RecordMigratorCommitted
  BY <1>RecordMigratorCommitted, CommitRecordKeeps DEF RecordMigratorCommitted
<1>RecordSignerCommitted. CASE RecordSignerCommitted
  BY <1>RecordSignerCommitted, CommitRecordKeeps DEF RecordSignerCommitted
<1>RecordPlatformCommitted. CASE RecordPlatformCommitted
  BY <1>RecordPlatformCommitted, CommitRecordKeeps DEF RecordPlatformCommitted
<1>RecordManifestCommitted. CASE RecordManifestCommitted
  BY <1>RecordManifestCommitted, CommitRecordKeeps DEF RecordManifestCommitted
<1>RecordConverged. CASE RecordConverged
  BY <1>RecordConverged, CommitRecordKeeps DEF RecordConverged
<1>RecordFinalized. CASE RecordFinalized
  BY <1>RecordFinalized, CommitRecordKeeps DEF RecordFinalized
<1>MigratorCommit. CASE MigratorCommit
  <2>1. /\ UNCHANGED <<tx, journal, progress, supJournal, sup>>
        /\ frame.at \in CommitCalls
    BY <1>MigratorCommit DEF MigratorCommit, CommitCall, supVars
  <2>2. \/ frame' = At("down")
        \/ frame' = At("return") /\ result'.err = TRUE
        \/ /\ frame'.at \in CommitCalls \cup CommitSteps \cup {"COMMITTED"}
           /\ frame'.at = "COMMITTED" => "PLATFORM_FINALIZED" \in progress
           /\ frame'.at = "MANIFEST_COMMITTED" => host'.manifest = Target
    BY <1>MigratorCommit, <1>host
       DEF MigratorCommit, CommitCall, Succeed, Fail, CrashDuring,
           Left, Heedless, MigratorCommitted, PartlyCommitted, GoTo,
           Return, At, supVars, Host
  <2>3. QED BY <1>manifest, <2>1, <2>2, CommitCallKeeps
<1>SignerCommit. CASE SignerCommit
  <2>1. /\ UNCHANGED <<tx, journal, progress, supJournal, sup>>
        /\ frame.at \in CommitCalls
    BY <1>SignerCommit DEF SignerCommit, CommitCall, supVars
  <2>2. \/ frame' = At("down")
        \/ frame' = At("return") /\ result'.err = TRUE
        \/ /\ frame'.at \in CommitCalls \cup CommitSteps \cup {"COMMITTED"}
           /\ frame'.at = "COMMITTED" => "PLATFORM_FINALIZED" \in progress
           /\ frame'.at = "MANIFEST_COMMITTED" => host'.manifest = Target
    BY <1>SignerCommit, <1>host
       DEF SignerCommit, CommitCall, Succeed, Fail, CrashDuring, Left,
           Heedless, GateRemoved, GoTo,
           Return, At, supVars, Host
  <2>3. QED BY <1>manifest, <2>1, <2>2, CommitCallKeeps
<1>AdapterCommit. CASE AdapterCommit
  <2>1. /\ UNCHANGED <<tx, journal, progress, supJournal, sup>>
        /\ frame.at \in CommitCalls
    BY <1>AdapterCommit DEF AdapterCommit, CommitCall, supVars
  <2>2. \/ frame' = At("down")
        \/ frame' = At("return") /\ result'.err = TRUE
        \/ /\ frame'.at \in CommitCalls \cup CommitSteps \cup {"COMMITTED"}
           /\ frame'.at = "COMMITTED" => "PLATFORM_FINALIZED" \in progress
           /\ frame'.at = "MANIFEST_COMMITTED" => host'.manifest = Target
    BY <1>AdapterCommit, <1>host
       DEF AdapterCommit, CommitCall, Succeed, Fail, CrashDuring,
           Left, Heedless, GoTo,
           Return, At, supVars, Host
  <2>3. QED BY <1>manifest, <2>1, <2>2, CommitCallKeeps
<1>ManifestCommit. CASE ManifestCommit
  <2>1. /\ UNCHANGED <<tx, journal, progress, supJournal, sup>>
        /\ frame.at \in CommitCalls
    BY <1>ManifestCommit DEF ManifestCommit, CommitCall, supVars
  <2>2. \/ frame' = At("down")
        \/ frame' = At("return") /\ result'.err = TRUE
        \/ /\ frame'.at \in CommitCalls \cup CommitSteps \cup {"COMMITTED"}
           /\ frame'.at = "COMMITTED" => "PLATFORM_FINALIZED" \in progress
           /\ frame'.at = "MANIFEST_COMMITTED" => host'.manifest = Target
    BY <1>ManifestCommit, <1>host
       DEF ManifestCommit, CommitCall, Succeed, Fail, CrashDuring,
           Left, Heedless, GoTo,
           Return, At, supVars, Host
  <2>3. QED BY <1>manifest, <2>1, <2>2, CommitCallKeeps
<1>Converge. CASE Converge
  <2>1. /\ UNCHANGED <<tx, journal, progress, supJournal, sup>>
        /\ frame.at \in CommitCalls
    BY <1>Converge DEF Converge, CommitCall, supVars
  <2>2. \/ frame' = At("down")
        \/ frame' = At("return") /\ result'.err = TRUE
        \/ /\ frame'.at \in CommitCalls \cup CommitSteps \cup {"COMMITTED"}
           /\ frame'.at = "COMMITTED" => "PLATFORM_FINALIZED" \in progress
           /\ frame'.at = "MANIFEST_COMMITTED" => host'.manifest = Target
    BY <1>Converge, <1>host
       DEF Converge, CommitCall, Succeed, Fail, CrashDuring, Left,
           Heedless, GoTo,
           Return, At, supVars, Host
  <2>3. QED BY <1>manifest, <2>1, <2>2, CommitCallKeeps
<1>Finalize. CASE Finalize
  <2>1. /\ UNCHANGED <<tx, journal, progress, supJournal, sup>>
        /\ frame.at \in CommitCalls
    BY <1>Finalize DEF Finalize, CommitCall, supVars
  <2>2. \/ frame' = At("down")
        \/ frame' = At("return") /\ result'.err = TRUE
        \/ /\ frame'.at \in CommitCalls \cup CommitSteps \cup {"COMMITTED"}
           /\ frame'.at = "COMMITTED" => "PLATFORM_FINALIZED" \in progress
           /\ frame'.at = "MANIFEST_COMMITTED" => host'.manifest = Target
    BY <1>Finalize, <1>host
       DEF Finalize, CommitCall, Succeed, Fail, CrashDuring, Left,
           Heedless, UndoDropped, UndoPartlyDropped, GoTo,
           Return, At, supVars, Host
  <2>3. QED BY <1>manifest, <2>1, <2>2, CommitCallKeeps
<1>last. QED
  BY <1>CommitEntry, <1>WriteCommitted, <1>RecordMigratorCommitted,
     <1>RecordSignerCommitted, <1>RecordPlatformCommitted,
     <1>RecordManifestCommitted, <1>RecordConverged, <1>RecordFinalized,
     <1>MigratorCommit, <1>SignerCommit, <1>AdapterCommit,
     <1>ManifestCommit, <1>Converge, <1>Finalize DEF CommitStep

-----------------------------------------------------------------------------
(* TargetEngine.rollback, Abort and Recover *)

(* An entry changes nothing but the place of the call.  Only a target at   *)
(* VERIFIED goes on to commit, and a supervisor past its decision finds    *)
(* none to roll back.                                                      *)
LEMMA EntryKeeps ==
    ASSUME IInv, UNCHANGED <<tx, journal, progress, host, supJournal, sup>>,
           frame.at \in {"Abort", "Recover"},
           \/ /\ frame'.at = "MigratorCommit"
              /\ frame.at = "Recover"
              /\ journal = "VERIFIED"
           \/ /\ frame'.at = "ROLLBACK_STARTED"
              /\ frame.at = "Recover" => journal \in Pending \ {"VERIFIED"}
           \/ frame'.at = "return" /\ result'.phase = "COMMITTED"
              /\ journal = "COMMITTED"
           \/ /\ frame'.at = "return"
              /\ result'.phase \notin {"VERIFIED", "COMMITTED"}
    PROVE  IInv'
<1>1. /\ frame.at = "Abort" => sup = "awaitAbort"
      /\ frame.at = "Recover" =>
            /\ sup \in {"awaitRecover", "awaitComplete"}
            /\ journal \in {"VERIFIED", "COMMITTED"}
            /\ sup = "awaitComplete" => journal = "COMMITTED"
  BY DEF IInv, InOrder, Belongs, JournalsAgree
<1>2. Belongs'
  BY <1>1 DEF Belongs, RunPlaces, CommitPlaces, RollbackPlaces, RunCalls,
     ForwardSteps, CommitCalls, CommitSteps, RollbackCalls, RollbackSteps,
     Pending, Awaits
<1>3. Truthful'
  BY DEF Truthful
<1>4. Evidenced' /\ Installed'
  BY DEF IInv, Evidenced, Installed, Target, Fresh, Phases, Pending, Terminal
<1>5. QED BY <1>2, <1>3, <1>4, RestKeeps DEF IInv

(* Where the frame of a rollback may be after one of its calls. *)
LEMMA RollbackGoesOn ==
    ASSUME frame \in Frames, NEW step, NEW next,
           \/ frame' = [frame EXCEPT !.at = step]
           \/ frame' = [frame EXCEPT !.at = next]
           \/ frame' = [frame EXCEPT !.at = next, !.failed = TRUE]
           \/ frame' = At("down")
    PROVE  frame'.at \in {step, next, "down"}
<1>1. DOMAIN frame = {"at", "restore", "failed"}
  BY DEF Frames
<1>2. CASE frame' = [frame EXCEPT !.at = step]
  BY <1>1, <1>2
<1>3. CASE frame' = [frame EXCEPT !.at = next]
  BY <1>1, <1>3
<1>4. CASE frame' = [frame EXCEPT !.at = next, !.failed = TRUE]
  BY <1>1, <1>4
<1>5. CASE frame' = At("down")
  BY <1>5 DEF At
<1>6. QED BY <1>2, <1>3, <1>4, <1>5

(* A participant call of rollback stays in the rollback or dies, and       *)
(* changes no record.                                                      *)
LEMMA RollbackCallGoes ==
    ASSUME TypeOK,
           StopTarget \/ SignerAbort \/ MigratorAbort \/ Restore \/ Discard
    PROVE  /\ UNCHANGED <<tx, journal, progress, result>>
           /\ frame.at \in RollbackCalls
           /\ frame'.at \in RollbackCalls \cup RollbackSteps \cup {"down"}
<1> USE DEF RollbackCalls, RollbackSteps
<1>frame. frame \in Frames
  BY DEF TypeOK, TargetTypeOK
<1>1. /\ UNCHANGED <<tx, journal, progress, result>>
      /\ frame.at \in RollbackCalls
  BY DEF StopTarget, SignerAbort, MigratorAbort, Restore, Discard,
     RollbackCall, Succeed, Fail, CrashDuring, Left
<1>StopTarget. CASE StopTarget
  <2>1. \/ frame' = [frame EXCEPT !.at = "TARGET_STOPPED"]
        \/ frame' = [frame EXCEPT !.at = "SignerAbort"]
        \/ frame' = [frame EXCEPT !.at = "SignerAbort", !.failed = TRUE]
        \/ frame' = At("down")
    BY <1>StopTarget DEF StopTarget, RollbackCall, CrashDuring, GoTo
  <2>2. QED BY <1>frame, <1>1, <2>1, RollbackGoesOn
<1>SignerAbort. CASE SignerAbort
  <2>1. \/ frame' = [frame EXCEPT !.at = "SIGNER_ABORTED"]
        \/ frame' = [frame EXCEPT !.at = "MigratorAbort"]
        \/ frame' = [frame EXCEPT !.at = "MigratorAbort", !.failed = TRUE]
        \/ frame' = At("down")
    BY <1>SignerAbort DEF SignerAbort, RollbackCall, CrashDuring, GoTo
  <2>2. QED BY <1>frame, <1>1, <2>1, RollbackGoesOn
<1>MigratorAbort. CASE MigratorAbort
  <2>1. \/ frame' = [frame EXCEPT !.at = "MIGRATOR_ABORTED"]
        \/ frame' = [frame EXCEPT !.at = "Restore"]
        \/ frame' = [frame EXCEPT !.at = "Restore", !.failed = TRUE]
        \/ frame' = At("down")
    BY <1>MigratorAbort DEF MigratorAbort, RollbackCall, CrashDuring, GoTo
  <2>2. QED BY <1>frame, <1>1, <2>1, RollbackGoesOn
<1>Restore. CASE Restore
  <2>1. \/ frame' = [frame EXCEPT !.at = "PLATFORM_RESTORED"]
        \/ frame' = [frame EXCEPT !.at = "Discard"]
        \/ frame' = [frame EXCEPT !.at = "Discard", !.failed = TRUE]
        \/ frame' = At("down")
    BY <1>Restore DEF Restore, RollbackCall, CrashDuring, GoTo
  <2>2. QED BY <1>frame, <1>1, <2>1, RollbackGoesOn
<1>Discard. CASE Discard
  <2>1. \/ frame' = [frame EXCEPT !.at = "PLATFORM_DISCARDED"]
        \/ frame' = [frame EXCEPT !.at = "ROLLBACK_COMPLETED"]
        \/ frame' = [frame EXCEPT !.at = "ROLLBACK_COMPLETED",
                                  !.failed = TRUE]
        \/ frame' = At("down")
    BY <1>Discard DEF Discard, RollbackCall, CrashDuring, GoTo
  <2>2. QED BY <1>frame, <1>1, <2>1, RollbackGoesOn
<1>last. QED
  BY <1>StopTarget, <1>SignerAbort, <1>MigratorAbort, <1>Restore, <1>Discard

(* Each step of the rollback keeps the invariant. *)
LEMMA RollbackStepKeeps ==
    ASSUME TypeOK, IInv, UNCHANGED supVars, RollbackStep
    PROVE  IInv'
<1> USE DEF RollbackCalls, RollbackSteps
<1>host. host \in Host /\ frame \in Frames
  BY DEF TypeOK, TargetTypeOK
<1>manifest. host'.manifest = host.manifest
  BY RollbackKeepsManifest
<1>AbortEntry. CASE AbortEntry
  <2>1. /\ UNCHANGED <<tx, journal, progress, host, supJournal, sup>>
        /\ frame.at = "Abort"
    BY <1>AbortEntry DEF AbortEntry, supVars
  <2>2. \/ frame'.at = "ROLLBACK_STARTED"
        \/ frame'.at = "return" /\ result'.phase \in {Absent, "ROLLED_BACK"}
    BY <1>AbortEntry DEF AbortEntry, EnterRollback, Return, At
  <2>3. QED BY <2>1, <2>2, EntryKeeps DEF Absent
<1>RecoverEntry. CASE RecoverEntry
  <2>1. /\ UNCHANGED <<tx, journal, progress, host, supJournal, sup>>
        /\ frame.at = "Recover"
        /\ sup \in {"awaitRecover", "awaitComplete"}
        /\ journal \in {"VERIFIED", "COMMITTED"}
    BY <1>RecoverEntry
       DEF RecoverEntry, supVars, IInv, InOrder, Belongs, JournalsAgree
  <2>2. /\ journal = "VERIFIED" =>
              RecoveryDecision(journal) = "COMPLETE_COMMIT"
        /\ journal = "COMMITTED" =>
              RecoveryDecision(journal) = "ALREADY_CURRENT"
    BY DEF RecoveryDecision
  <2>3. \/ Return(Absent, TRUE)
        \/ journal = "VERIFIED" /\ GoTo("MigratorCommit")
        \/ journal = "COMMITTED" /\ ReturnCommitted
    BY <1>RecoverEntry, <2>1, <2>2 DEF RecoverEntry
  <2>4. \/ frame'.at = "MigratorCommit" /\ journal = "VERIFIED"
        \/ frame'.at = "return" /\ result'.phase = "COMMITTED"
           /\ journal = "COMMITTED"
        \/ frame'.at = "return" /\ result'.phase = Absent
    BY <2>3 DEF GoTo, Return, ReturnCommitted, At
  <2>5. QED BY <2>1, <2>4, EntryKeeps DEF Absent
<1>RecordRollbackStarted. CASE RecordRollbackStarted
  <2>1. CASE RollbackRecord("ROLLBACK_STARTED", "StopTarget")
    BY <2>1, RollbackRecordKeeps
  <2>2. CASE /\ frame.at = "ROLLBACK_STARTED"
             /\ frame' = [frame EXCEPT !.at = "StopTarget"]
             /\ UNCHANGED <<tx, journal, progress, host, result>>
    <3>1. frame'.at = "StopTarget" /\ sup \in {"awaitRun", "awaitAbort"}
      BY <1>host, <2>2 DEF Frames, IInv, Belongs, RollbackPlaces
    <3>2. Belongs'
      BY <3>1 DEF Belongs, RunPlaces, CommitPlaces, RollbackPlaces,
         RunCalls, ForwardSteps, CommitCalls, CommitSteps, Pending, Awaits,
         supVars
    <3>3. Truthful' /\ Evidenced' /\ Installed'
      BY <2>2, <3>1
         DEF IInv, Truthful, Evidenced, Installed, Target, Fresh, Phases,
             Pending, Terminal
    <3>4. UNCHANGED <<tx, journal, supJournal, sup, progress>>
      BY <2>2 DEF supVars
    <3>5. QED BY <3>2, <3>3, <3>4, RestKeeps DEF IInv
  <2>3. QED BY <1>RecordRollbackStarted, <2>1, <2>2 DEF RecordRollbackStarted
<1>RecordRollbackCompleted. CASE RecordRollbackCompleted
  <2>1. /\ UNCHANGED <<tx, journal, host, supJournal, sup>>
        /\ frame.at = "ROLLBACK_COMPLETED"
        /\ sup \in {"awaitRun", "awaitAbort"}
    BY <1>RecordRollbackCompleted
       DEF RecordRollbackCompleted, supVars, IInv, Belongs, RollbackPlaces
  <2>2. /\ progress \subseteq progress'
        /\ progress' \subseteq progress \cup {"ROLLBACK_COMPLETED"}
        /\ \A each \in progress' : ProgressAccepts(progress', each, Fresh')
    <3>1. CASE \/ Append("ROLLBACK_COMPLETED")
               \/ AppendFails("ROLLBACK_COMPLETED")
      BY <2>1, <3>1, AppendGrows
    <3>2. CASE UNCHANGED progress
      BY <2>1, <3>2 DEF IInv, Evidenced, Fresh
    <3>3. QED
      BY <1>RecordRollbackCompleted, <3>1, <3>2 DEF RecordRollbackCompleted
  <2>3. \/ frame'.at = "ROLLED_BACK" /\ "ROLLBACK_COMPLETED" \in progress'
        \/ frame'.at = "return" /\ result'.err = TRUE
    BY <1>RecordRollbackCompleted
       DEF RecordRollbackCompleted, GoTo, Return, At, Append
  <2>4. Belongs'
    BY <2>1, <2>3 DEF Belongs, RunPlaces, CommitPlaces, RollbackPlaces,
       RunCalls, ForwardSteps, CommitCalls, CommitSteps, Pending, Awaits
  <2>5. Truthful' /\ Installed'
    BY <2>1, <2>2, <2>3 DEF IInv, Truthful, Installed, Target
  <2>6. Evidenced'
    BY <2>2, <2>3
       DEF Evidenced, RecoveryAccepts, RequiredStep, Phases, Pending, Terminal
  <2>7. QED BY <2>1, <2>2, <2>4, <2>5, <2>6, RestKeeps DEF IInv
<1>WriteRolledBack. CASE WriteRolledBack
  <2>1. /\ UNCHANGED <<tx, progress, host, supJournal, sup>>
        /\ frame.at = "ROLLED_BACK"
        /\ sup \in {"awaitRun", "awaitAbort"}
        /\ supJournal \in {"IDLE", "STAGED", "PREPARED"}
        /\ supJournal = "PREPARED" => journal = "VERIFIED"
    BY <1>WriteRolledBack
       DEF WriteRolledBack, supVars, IInv, InOrder, Belongs, RollbackPlaces,
           JournalsAgree
  <2>2. /\ journal' \in {journal, "ROLLED_BACK"}
        /\ journal = "VERIFIED" => journal' = "VERIFIED"
    BY <1>WriteRolledBack
       DEF WriteRolledBack, Write, WriteFails, JournalAccepts,
           LegalTransition, Absent
  <2>3. \/ Return("ROLLED_BACK", FALSE)
        \/ Return(journal, TRUE)
    BY <1>WriteRolledBack DEF WriteRolledBack
  <2>4. frame'.at = "return" /\ Truthful'
    BY <2>3 DEF Return, At, Truthful
  <2>5. Belongs'
    BY <2>1, <2>4 DEF Belongs, RunPlaces, CommitPlaces, RollbackPlaces,
       RunCalls, ForwardSteps, CommitCalls, CommitSteps, Pending, Awaits
  <2>6. Evidenced' /\ Installed'
    BY <2>1, <2>4
       DEF IInv, Evidenced, Installed, Target, Fresh, Phases, Pending,
           Terminal
  <2>7. RecoveryEvidence'
    <3>1. RecoveryAccepts("ROLLED_BACK", progress, Fresh)
      BY <2>1 DEF IInv, Evidenced, Phases, Terminal
    <3>2. QED BY <2>1, <2>2, <3>1, EvidenceGrows DEF IInv, RecoveryEvidence
  <2>8. InOrder' /\ JournalsAgree'
    BY <2>1, <2>2 DEF IInv, InOrder, JournalsAgree
  <2>9. QED BY <2>4, <2>5, <2>6, <2>7, <2>8 DEF IInv
<1>RecordTargetStopped. CASE RecordTargetStopped
  BY <1>RecordTargetStopped, RollbackRecordKeeps DEF RecordTargetStopped
<1>RecordSignerAborted. CASE RecordSignerAborted
  BY <1>RecordSignerAborted, RollbackRecordKeeps DEF RecordSignerAborted
<1>RecordMigratorAborted. CASE RecordMigratorAborted
  BY <1>RecordMigratorAborted, RollbackRecordKeeps DEF RecordMigratorAborted
<1>RecordPlatformRestored. CASE RecordPlatformRestored
  BY <1>RecordPlatformRestored, RollbackRecordKeeps DEF RecordPlatformRestored
<1>RecordPlatformDiscarded. CASE RecordPlatformDiscarded
  BY <1>RecordPlatformDiscarded, RollbackRecordKeeps
     DEF RecordPlatformDiscarded
<1>calls. CASE StopTarget \/ SignerAbort \/ MigratorAbort \/ Restore \/ Discard
  BY <1>calls, <1>manifest, RollbackCallGoes, RollbackCallKeeps DEF supVars
<1>last. QED
  BY <1>AbortEntry, <1>RecoverEntry, <1>RecordRollbackStarted,
     <1>RecordRollbackCompleted, <1>WriteRolledBack, <1>RecordTargetStopped,
     <1>RecordSignerAborted, <1>RecordMigratorAborted,
     <1>RecordPlatformRestored, <1>RecordPlatformDiscarded, <1>calls
  DEF RollbackStep

-----------------------------------------------------------------------------
(* The supervisor and its environment *)

(* The supervisor changes its journal and hands the engine over; the rest  *)
(* of the invariant follows from where the frame is.                       *)
LEMMA HandOverKeeps ==
    ASSUME IInv, UNCHANGED <<tx, journal, progress, host, result>>,
           frame'.at \in {"idle", "IDLE", "Commit", "Abort", "Recover"},
           frame'.at = "IDLE" => sup' = "awaitRun",
           frame'.at = "Commit" => sup' = "awaitCommit",
           frame'.at = "Abort" => sup' = "awaitAbort",
           frame'.at = "Recover" => sup' \in {"awaitRecover", "awaitComplete"},
           InOrder', JournalsAgree'
    PROVE  IInv'
<1>1. Belongs'
  BY DEF Belongs, RunPlaces, CommitPlaces, RollbackPlaces, RunCalls,
     ForwardSteps, CommitCalls, CommitSteps, RollbackCalls, RollbackSteps,
     Pending, Awaits
<1>2. Truthful'
  BY DEF Truthful
<1>3. Evidenced' /\ Installed'
  BY DEF IInv, Evidenced, Installed, Target, Fresh, RecoveryAccepts, Phases,
     Pending, Terminal
<1>4. RecoveryEvidence'
  BY EvidenceGrows DEF IInv, RecoveryEvidence
<1>5. QED BY <1>1, <1>2, <1>3, <1>4 DEF IInv

(* Each step of SupervisorEngine keeps the invariant. *)
LEMMA SupervisorStepKeeps ==
    ASSUME TypeOK, IInv, SupervisorStep
    PROVE  IInv'
<1> USE DEF IInv, InOrder, JournalsAgree, Awaits
<1>RunTarget. CASE RunTarget
  <2>1. /\ UNCHANGED <<tx, journal, progress, host, result>>
        /\ frame.at = "idle"
    BY <1>RunTarget
       DEF RunTarget, SupAdvanceAndCall, CallTarget, Belongs
  <2>2. InOrder' /\ JournalsAgree'
    BY <1>RunTarget, <2>1
       DEF RunTarget, SupAdvanceAndCall, CallTarget, SupWrites,
           SupWriteFails, LegalTransition
  <2>3. QED
    BY <1>RunTarget, <2>1, <2>2, HandOverKeeps
       DEF RunTarget, SupAdvanceAndCall, CallTarget, SupWriteFails, At
<1>WriteSupPrepared. CASE WriteSupPrepared
  <2>1. /\ UNCHANGED <<tx, journal, progress, host, result>>
        /\ frame.at = "idle"
    BY <1>WriteSupPrepared
       DEF WriteSupPrepared, SupAdvance, Belongs
  <2>2. InOrder' /\ JournalsAgree'
    BY <1>WriteSupPrepared, <2>1
       DEF WriteSupPrepared, SupAdvance, SupWrites, SupWriteFails,
           LegalTransition
  <2>3. QED
    BY <1>WriteSupPrepared, <2>1, <2>2, HandOverKeeps
       DEF WriteSupPrepared, SupAdvance, SupWriteFails, At
<1>CommitTarget. CASE CommitTarget
  <2>1. /\ UNCHANGED <<tx, journal, progress, host, result>>
        /\ frame.at = "idle"
    BY <1>CommitTarget
       DEF CommitTarget, SupAdvanceAndCall, CallTarget, Belongs
  <2>2. InOrder' /\ JournalsAgree'
    BY <1>CommitTarget, <2>1
       DEF CommitTarget, SupAdvanceAndCall, CallTarget, SupWrites,
           SupWriteFails, LegalTransition
  <2>3. QED
    BY <1>CommitTarget, <2>1, <2>2, HandOverKeeps
       DEF CommitTarget, SupAdvanceAndCall, CallTarget, SupWriteFails, At
<1>WriteSupVerified. CASE WriteSupVerified
  <2>1. /\ UNCHANGED <<tx, journal, progress, host, result>>
        /\ frame.at = "idle"
    BY <1>WriteSupVerified
       DEF WriteSupVerified, SupAdvance, Belongs
  <2>2. InOrder' /\ JournalsAgree'
    BY <1>WriteSupVerified, <2>1
       DEF WriteSupVerified, SupAdvance, SupWrites, SupWriteFails,
           LegalTransition
  <2>3. QED
    BY <1>WriteSupVerified, <2>1, <2>2, HandOverKeeps
       DEF WriteSupVerified, SupAdvance, SupWriteFails, At
<1>WriteSupCommitted. CASE WriteSupCommitted
  <2>1. /\ UNCHANGED <<tx, journal, progress, host, result>>
        /\ frame.at = "idle"
    BY <1>WriteSupCommitted
       DEF WriteSupCommitted, SupAdvance, Belongs
  <2>2. InOrder' /\ JournalsAgree'
    BY <1>WriteSupCommitted, <2>1
       DEF WriteSupCommitted, SupAdvance, SupWrites, SupWriteFails,
           LegalTransition
  <2>3. QED
    BY <1>WriteSupCommitted, <2>1, <2>2, HandOverKeeps
       DEF WriteSupCommitted, SupAdvance, SupWriteFails, At
<1>WriteSupRolledBack. CASE WriteSupRolledBack
  <2>1. /\ UNCHANGED <<tx, journal, progress, host, result>>
        /\ frame.at = "idle"
    BY <1>WriteSupRolledBack
       DEF WriteSupRolledBack, SupAdvance, Belongs
  <2>2. InOrder' /\ JournalsAgree'
    BY <1>WriteSupRolledBack, <2>1
       DEF WriteSupRolledBack, SupAdvance, SupWrites, SupWriteFails,
           LegalTransition
  <2>3. QED
    BY <1>WriteSupRolledBack, <2>1, <2>2, HandOverKeeps
       DEF WriteSupRolledBack, SupAdvance, SupWriteFails, At
<1>ResumeCommit. CASE ResumeCommit
  <2>1. /\ UNCHANGED <<tx, journal, progress, host, result>>
        /\ frame.at = "idle"
    BY <1>ResumeCommit
       DEF ResumeCommit, SupAdvanceAndCall, CallTarget, Belongs
  <2>2. InOrder' /\ JournalsAgree'
    BY <1>ResumeCommit, <2>1
       DEF ResumeCommit, SupAdvanceAndCall, CallTarget, SupWrites,
           SupWriteFails, LegalTransition
  <2>3. QED
    BY <1>ResumeCommit, <2>1, <2>2, HandOverKeeps
       DEF ResumeCommit, SupAdvanceAndCall, CallTarget, SupWriteFails, At
<1>RunReturned. CASE RunReturned
  <2>1. UNCHANGED <<tx, journal, progress, host, result, supJournal>>
    BY <1>RunReturned DEF RunReturned
  <2>2. InOrder' /\ JournalsAgree'
    BY <1>RunReturned, <2>1
       DEF RunReturned, Returned, Truthful, TargetIsTerminal, Resume,
           CallTarget
  <2>3. QED
    BY <1>RunReturned, <2>1, <2>2, HandOverKeeps
       DEF RunReturned, Resume, CallTarget, At
<1>AbortReturned. CASE AbortReturned
  <2>1. UNCHANGED <<tx, journal, progress, host, result, supJournal>>
    BY <1>AbortReturned DEF AbortReturned
  <2>2. InOrder' /\ JournalsAgree'
    BY <1>AbortReturned, <2>1
       DEF AbortReturned, Returned, Truthful, TargetIsTerminal, Resume,
           CallTarget
  <2>3. QED
    BY <1>AbortReturned, <2>1, <2>2, HandOverKeeps
       DEF AbortReturned, Resume, CallTarget, At
<1>CommitReturned. CASE CommitReturned
  <2>1. UNCHANGED <<tx, journal, progress, host, result, supJournal>>
    BY <1>CommitReturned DEF CommitReturned
  <2>2. InOrder' /\ JournalsAgree'
    BY <1>CommitReturned, <2>1
       DEF CommitReturned, Returned, Truthful, TargetIsTerminal, Resume,
           CallTarget
  <2>3. QED
    BY <1>CommitReturned, <2>1, <2>2, HandOverKeeps
       DEF CommitReturned, Resume, CallTarget, At
<1>RecoverReturned. CASE RecoverReturned
  <2>1. UNCHANGED <<tx, journal, progress, host, result, supJournal>>
    BY <1>RecoverReturned DEF RecoverReturned
  <2>2. InOrder' /\ JournalsAgree'
    BY <1>RecoverReturned, <2>1
       DEF RecoverReturned, Returned, Truthful, TargetIsTerminal, Resume,
           CallTarget
  <2>3. QED
    BY <1>RecoverReturned, <2>1, <2>2, HandOverKeeps
       DEF RecoverReturned, Resume, CallTarget, At
<1>CompleteReturned. CASE CompleteReturned
  <2>1. UNCHANGED <<tx, journal, progress, host, result, supJournal>>
    BY <1>CompleteReturned DEF CompleteReturned
  <2>2. InOrder' /\ JournalsAgree'
    BY <1>CompleteReturned, <2>1
       DEF CompleteReturned, Returned, Truthful, TargetIsTerminal, Resume,
           CallTarget
  <2>3. QED
    BY <1>CompleteReturned, <2>1, <2>2, HandOverKeeps
       DEF CompleteReturned, Resume, CallTarget, At
<1>RecoverPending. CASE RecoverPending
  <2>1. /\ UNCHANGED <<tx, journal, progress, host, result, supJournal>>
        /\ supJournal \in Pending
    BY <1>RecoverPending DEF RecoverPending
  <2>2. \/ /\ supJournal \in {"IDLE", "STAGED", "PREPARED"}
           /\ CallTarget("Abort", "awaitAbort")
        \/ /\ supJournal = "SWITCHED"
           /\ CallTarget("Recover", "awaitRecover")
        \/ /\ supJournal = "VERIFIED"
           /\ CallTarget("Recover", "awaitComplete")
    BY <1>RecoverPending, <2>1 DEF RecoverPending, RecoveryDecision, Pending
  <2>3. InOrder' /\ JournalsAgree'
    BY <2>1, <2>2 DEF CallTarget
  <2>4. QED BY <2>1, <2>2, <2>3, HandOverKeeps DEF CallTarget, At
<1>Restart. CASE Restart
  <2>1. InOrder' /\ JournalsAgree'
    BY <1>Restart DEF Restart, Resume
  <2>2. QED
    BY <1>Restart, <2>1, HandOverKeeps DEF Restart, Resume, At
<1>last. QED
  BY <1>RunTarget, <1>RunReturned, <1>AbortReturned, <1>WriteSupPrepared,
     <1>CommitTarget, <1>CommitReturned, <1>WriteSupVerified,
     <1>WriteSupCommitted, <1>WriteSupRolledBack, <1>RecoverPending,
     <1>RecoverReturned, <1>ResumeCommit, <1>CompleteReturned, <1>Restart
     DEF SupervisorStep

(* A new transaction, a crash and a deadline keep the invariant. *)
LEMMA EnvironmentKeeps ==
    ASSUME TypeOK, IInv, Environment
    PROVE  IInv'
<1>BeginTransaction. CASE BeginTransaction
  <2>1. /\ journal' = Absent /\ progress' = {} /\ supJournal' = "IDLE"
        /\ sup' \in {"STAGED", "idle"}
        /\ frame' = frame /\ frame.at = "idle"
    BY <1>BeginTransaction DEF BeginTransaction
  <2>2. InOrder' /\ Truthful' /\ JournalsAgree' /\ RecoveryEvidence'
    BY <2>1
       DEF InOrder, Truthful, JournalsAgree, RecoveryEvidence, Absent
  <2>3. Belongs'
    BY <2>1 DEF Belongs, RunPlaces, CommitPlaces, RollbackPlaces, RunCalls,
       ForwardSteps, CommitCalls, CommitSteps, RollbackCalls, RollbackSteps,
       Pending, Awaits
  <2>4. Evidenced' /\ Installed'
    BY <2>1 DEF Evidenced, Installed, Phases, Pending, Terminal
  <2>5. QED BY <2>2, <2>3, <2>4 DEF IInv
<1>Crash. CASE Crash
  <2>1. InOrder' /\ JournalsAgree'
    BY <1>Crash DEF Crash, Resume, IInv, InOrder, JournalsAgree
  <2>2. QED
    BY <1>Crash, <2>1, HandOverKeeps DEF Crash, Resume, At
<1>still. CASE Expire \/ Quiescent
  <2>1. UNCHANGED <<tx, journal, progress, host, frame, result, supJournal,
                    sup>>
    BY <1>still DEF Expire, Quiescent, vars
  <2>2. QED
    BY <2>1
       DEF IInv, InOrder, Belongs, Truthful, Evidenced, Installed,
           JournalsAgree, RecoveryEvidence, Fresh, Target
<1>last. QED BY <1>BeginTransaction, <1>Crash, <1>still DEF Environment

-----------------------------------------------------------------------------
(* The invariant, and what follows from it.                                *)

(* Nothing is under way when the daemon first starts. *)
LEMMA InitKeeps == Init => IInv
BY DEF Init, TargetInit, At, IInv, InOrder, Belongs, Truthful, Evidenced,
   Installed, JournalsAgree, RecoveryEvidence, RunPlaces, CommitPlaces,
   RollbackPlaces, RunCalls, ForwardSteps, CommitCalls, CommitSteps,
   RollbackCalls, RollbackSteps, Phases, Pending, Terminal, Awaits, Absent

(* The invariant is inductive relative to type correctness. *)
LEMMA NextKeeps == TypeOK /\ IInv /\ [Next]_vars => IInv'
<1> SUFFICES ASSUME TypeOK, IInv, [Next]_vars PROVE IInv'
  OBVIOUS
<1>1. CASE EngineStep
  BY <1>1, RunStepKeeps, CommitStepKeeps, RollbackStepKeeps
     DEF EngineStep, TargetStep
<1>2. CASE SupervisorStep
  BY <1>2, SupervisorStepKeeps
<1>3. CASE Environment
  BY <1>3, EnvironmentKeeps
<1>4. CASE UNCHANGED vars
  BY <1>4
     DEF vars, IInv, InOrder, Belongs, Truthful, Evidenced, Installed,
         JournalsAgree, RecoveryEvidence, Fresh, Target
<1>5. QED BY <1>1, <1>2, <1>3, <1>4 DEF Next

(* The invariant holds in every state of the two engines. *)
LEMMA Invariant == Spec => []IInv
<1>1. QED BY TypeCorrect, InitKeeps, NextKeeps, PTL DEF Spec

(* The supervisor's and the target's journals never contradict each other, *)
(* whatever crash, failed write or failed call separates their records.    *)
THEOREM JournalsAlwaysAgree == Spec => []JournalsAgree
<1>1. IInv => JournalsAgree
  BY DEF IInv
<1>2. QED BY Invariant, <1>1, PTL

(* Recover never refuses the record a crash has left: the evidence its     *)
(* phase demands was on disk before the phase was.                         *)
THEOREM RecoveryIsNeverRefused == Spec => []RecoveryEvidence
<1>1. IInv => RecoveryEvidence
  BY DEF IInv
<1>2. QED BY Invariant, <1>1, PTL

-----------------------------------------------------------------------------
(* The engines implement the safety of UpdateContract.                     *)

(* The first state of the engines is one of the contract's. *)
LEMMA ContractInit == Init => Contract!Init
BY DEF Init, TargetInit, Contract!Init, Status, Absent

(* A supervisor at VERIFIED has the target's manifest: the journal at      *)
(* COMMITTED leads back to the manifest's receipt.                         *)
LEMMA CommittedIsInstalled ==
    ASSUME IInv, journal = "COMMITTED"
    PROVE  host.manifest = Target
<1>1. "PLATFORM_FINALIZED" \in progress
  BY DEF IInv, RecoveryEvidence, RecoveryAccepts, RequiredStep, Absent
<1>2. "MANIFEST_COMMITTED" \in progress
  BY <1>1, FinalizedIsEvidence DEF IInv, Evidenced
<1>3. QED BY <1>2 DEF IInv, Installed

(* An engine step is a stutter of the contract or its Install: the         *)
(* manifest changes only while the supervisor is at SWITCHED.              *)
LEMMA EngineKeepsContract ==
    ASSUME TypeOK, IInv, EngineStep
    PROVE  [Contract!Next]_Contract!contractVars
<1>1. /\ tx' = tx
      /\ host'.manifest \in {host.manifest, Target}
      /\ frame.at # "ManifestCommit" => host'.manifest = host.manifest
  BY RunKeepsManifest, CommitKeepsManifest, RollbackKeepsManifest
     DEF EngineStep, TargetStep
<1>2. Status' = Status
  BY DEF EngineStep, supVars, Status
<1>3. frame.at = "ManifestCommit" => Status = "deciding"
  BY DEF IInv, InOrder, Belongs, CommitPlaces, CommitCalls, Status, Absent
<1>4. QED
  BY <1>1, <1>2, <1>3
     DEF Contract!Next, Contract!Install, Contract!contractVars, Target

(* What a step of the supervisor's journal is to the contract. *)
LEMMA JournalKeepsContract ==
    ASSUME tx' = tx, host'.manifest = host.manifest,
           \/ supJournal' = supJournal
           \/ LegalTransition(supJournal, supJournal'),
           supJournal' = "VERIFIED" => host.manifest = Target
    PROVE  [Contract!Next]_Contract!contractVars
<1>1. CASE supJournal' = supJournal
  BY <1>1 DEF Status, Contract!contractVars
<1>2. CASE LegalTransition(supJournal, supJournal')
  <2>1. \/ Status' = Status
        \/ Status = "open" /\ Status' = "deciding"
        \/ Status = "deciding" /\ Status' = "confirmed"
           /\ host.manifest = Target
        \/ Status = "confirmed" /\ Status' = "committed"
        \/ Status \in {"open", "deciding"} /\ Status' = "rolledBack"
    BY <1>2 DEF LegalTransition, Status, Absent
  <2>2. QED
    BY <2>1
       DEF Contract!Next, Contract!Decide, Contract!Confirm, Contract!Finish,
           Contract!GiveUp, Contract!contractVars, Target
<1>3. QED BY <1>1, <1>2

(* A supervisor step keeps the contract: its journal confirms the update   *)
(* only over a target at COMMITTED.                                        *)
LEMMA SupervisorKeepsContract ==
    ASSUME TypeOK, IInv, SupervisorStep
    PROVE  [Contract!Next]_Contract!contractVars
<1>1. tx' = tx /\ host'.manifest = host.manifest
  BY DEF SupervisorStep, RunTarget, RunReturned, AbortReturned,
     WriteSupPrepared, CommitTarget, CommitReturned, WriteSupVerified,
     WriteSupCommitted, WriteSupRolledBack, RecoverPending, RecoverReturned,
     ResumeCommit, CompleteReturned, Restart, SupAdvance, SupAdvanceAndCall
<1>2. \/ supJournal' = supJournal
      \/ LegalTransition(supJournal, supJournal')
  BY DEF SupervisorStep, RunTarget, RunReturned, AbortReturned,
     WriteSupPrepared, CommitTarget, CommitReturned, WriteSupVerified,
     WriteSupCommitted, WriteSupRolledBack, RecoverPending, RecoverReturned,
     ResumeCommit, CompleteReturned, Restart, SupAdvance, SupAdvanceAndCall,
     SupWrites, SupWriteFails
<1>3. supJournal' = "VERIFIED" => host.manifest = Target
  <2>1. IInv'
    BY SupervisorStepKeeps
  <2>2. supJournal' = "VERIFIED" => journal' = "COMMITTED"
    BY <2>1 DEF IInv, JournalsAgree
  <2>3. journal' = journal
    BY DEF SupervisorStep, RunTarget, RunReturned, AbortReturned,
       WriteSupPrepared, CommitTarget, CommitReturned, WriteSupVerified,
       WriteSupCommitted, WriteSupRolledBack, RecoverPending,
       RecoverReturned, ResumeCommit, CompleteReturned, Restart, SupAdvance,
       SupAdvanceAndCall
  <2>4. QED BY <2>2, <2>3, CommittedIsInstalled
<1>4. QED BY <1>1, <1>2, <1>3, JournalKeepsContract

(* A new transaction is the contract's Begin. *)
LEMMA EnvironmentKeepsContract ==
    ASSUME TypeOK, Environment
    PROVE  [Contract!Next]_Contract!contractVars
<1>1. CASE BeginTransaction
  <2>1. /\ tx.id < MaxTx /\ tx'.id = tx.id + 1
        /\ host'.manifest = host.manifest
        /\ supJournal' = "IDLE"
        /\ supJournal \in {Absent, "COMMITTED", "ROLLED_BACK"}
    BY <1>1
       DEF BeginTransaction, TypeOK, TargetTypeOK, Host, Phases, Terminal
  <2>2. Status' = "open" /\ Status \in {"none", "committed", "rolledBack"}
    BY <2>1 DEF Status, Absent
  <2>3. QED
    BY <2>1, <2>2 DEF Contract!Next, Contract!Begin, Contract!Closed
<1>2. CASE Crash \/ Expire \/ Quiescent
  BY <1>2 DEF Crash, Expire, Quiescent, vars, Status, Contract!contractVars
<1>3. QED BY <1>1, <1>2 DEF Environment

(* Whatever fails, an update replaces the installed generation only while  *)
(* it is being decided, is confirmed only with its generation installed,   *)
(* and is not given up once it is confirmed.                               *)
THEOREM ContractIsKept == Spec => Contract!Safety
<1>1. TypeOK /\ IInv /\ [Next]_vars => [Contract!Next]_Contract!contractVars
  <2> SUFFICES ASSUME TypeOK, IInv, [Next]_vars
               PROVE  [Contract!Next]_Contract!contractVars
    OBVIOUS
  <2>1. CASE UNCHANGED vars
    BY <2>1 DEF vars, Status, Contract!contractVars
  <2>2. QED
    BY <2>1, EngineKeepsContract, SupervisorKeepsContract,
       EnvironmentKeepsContract
       DEF Next
<1>2. QED
  BY TypeCorrect, Invariant, ContractInit, <1>1, PTL
     DEF Spec, Contract!Safety

=============================================================================
