------------------------ MODULE LifecycleTypeProofs ------------------------
(***************************************************************************)
(* Type correctness of the two engines for every value of the constants.   *)
(* One lemma per shape of statement (RunCall, CommitRecord, ...), then one *)
(* step per action, which only has to type what its call leaves of host.   *)
(***************************************************************************)
EXTENDS SupervisorEngine, TLAPS

(* Where a call may go besides its next statement. *)
LEMMA LandingPlaces ==
    /\ "down" \in Locations
    /\ "return" \in Locations
    /\ "idle" \in Locations
    /\ "ROLLBACK_STARTED" \in Locations
    /\ Entries \subseteq Locations
BY DEF Locations, ProgressSteps, RollbackSteps

(* A frame at a location, neither restoring nor failed, is a frame. *)
LEMMA AtType ==
    ASSUME NEW location \in Locations
    PROVE  At(location) \in Frames
BY DEF At, Frames

(* `return engine.rollback(...)` leaves a frame. *)
LEMMA EnterRollbackType ==
    ASSUME NEW restore \in BOOLEAN, EnterRollback(restore)
    PROVE  frame' \in Frames
BY LandingPlaces DEF EnterRollback, Frames

(* What an engine call returns is a result. *)
LEMMA ReturnType ==
    ASSUME NEW phase \in Phases \cup {Absent}, NEW err \in BOOLEAN,
           Return(phase, err)
    PROVE  frame' \in Frames /\ result' \in Results
BY LandingPlaces, AtType DEF Return, Results

(* Target numbers a generation, never the mark of missing undo data. *)
LEMMA TargetIsAGeneration ==
    ASSUME TypeOK
    PROVE  Target \in Generations /\ NoUndo \notin Generations
BY BoundsAssumption
   DEF TypeOK, TargetTypeOK, Transactions, Target, Generations, NoUndo

(* A bound spent stays within its budget. *)
LEMMA SpendType ==
    ASSUME TypeOK, NEW kind \in {"faults", "crashes", "timeouts"}, Spend(kind)
    PROVE  budget' \in Budgets
BY BoundsAssumption DEF TypeOK, TargetTypeOK, Spend, Budgets

(* The two ways a participant call that is not a success ends. *)
LEMMA FailType ==
    ASSUME TypeOK, NEW able \in BOOLEAN, NEW late \in SUBSET Host,
           NEW done \in Host, NEW parts \in SUBSET Host,
           Fail(able, late, done, parts)
    PROVE  host' \in Host /\ budget' \in Budgets
<1>1. host' \in Host
  BY DEF TypeOK, TargetTypeOK, Fail, Left
<1>2. budget' \in Budgets
  BY SpendType DEF TypeOK, TargetTypeOK, Fail
<1>3. QED BY <1>1, <1>2

(* A call cut by a crash leaves a host and a dead process. *)
LEMMA CrashType ==
    ASSUME TypeOK, NEW able \in BOOLEAN, NEW done \in Host,
           NEW parts \in SUBSET Host, CrashDuring(able, done, parts)
    PROVE  /\ host' \in Host
           /\ budget' \in Budgets
           /\ frame' \in Frames
           /\ result' = result
<1>1. host' \in Host
  BY DEF TypeOK, TargetTypeOK, CrashDuring, Left
<1>2. budget' \in Budgets
  BY SpendType DEF CrashDuring
<1>3. frame' \in Frames /\ result' = result
  BY LandingPlaces, AtType DEF CrashDuring, GoTo
<1>4. QED BY <1>1, <1>2, <1>3

(* AppendProgress keeps a progress record, also when it reports an error. *)
LEMMA AppendType ==
    ASSUME TypeOK, NEW step \in ProgressSteps,
           Append(step) \/ AppendFails(step)
    PROVE  progress' \in SUBSET ProgressSteps /\ budget' \in Budgets
BY SpendType DEF TypeOK, TargetTypeOK, Append, AppendFails

(* CommitJournal keeps a phase, also when it reports an error. *)
LEMMA WriteType ==
    ASSUME TypeOK, NEW phase \in Phases, Write(phase) \/ WriteFails(phase)
    PROVE  journal' \in Phases \cup {Absent} /\ budget' \in Budgets
BY SpendType DEF TypeOK, TargetTypeOK, Write, WriteFails

-----------------------------------------------------------------------------
(* The shapes. *)

(* A participant call of Run keeps every type. *)
LEMMA RunCallType ==
    ASSUME TypeOK, UNCHANGED supVars, NEW location,
           NEW able \in BOOLEAN, NEW late \in SUBSET Host,
           NEW done \in Host, NEW parts \in SUBSET Host,
           NEW next \in Locations, NEW restore \in BOOLEAN,
           RunCall(location, able, late, done, parts, next, restore)
    PROVE  TypeOK'
<1>1. CASE Succeed(able, late, done) /\ GoTo(next) /\ UNCHANGED result
  BY <1>1, AtType
     DEF TypeOK, TargetTypeOK, RunCall, Succeed, GoTo, supVars
<1>2. CASE Fail(able, late, done, parts) /\ EnterRollback(restore)
           /\ UNCHANGED result
  BY <1>2, FailType, EnterRollbackType
     DEF TypeOK, TargetTypeOK, RunCall, supVars
<1>3. CASE CrashDuring(able, done, parts)
  BY <1>3, CrashType DEF TypeOK, TargetTypeOK, RunCall, supVars
<1>4. QED BY <1>1, <1>2, <1>3 DEF RunCall

(* A participant call of commit keeps every type. *)
LEMMA CommitCallType ==
    ASSUME TypeOK, UNCHANGED supVars, NEW location, NEW step \in Locations,
           NEW able \in BOOLEAN, NEW late \in SUBSET Host,
           NEW done \in Host, NEW parts \in SUBSET Host,
           NEW next \in Locations,
           CommitCall(location, step, able, late, done, parts, next)
    PROVE  TypeOK'
<1>1. CASE GoTo(next) /\ UNCHANGED <<host, result, budget>>
  BY <1>1, AtType DEF TypeOK, TargetTypeOK, CommitCall, GoTo, supVars
<1>2. CASE Succeed(able, late, done) /\ GoTo(step) /\ UNCHANGED result
  BY <1>2, AtType
     DEF TypeOK, TargetTypeOK, CommitCall, Succeed, GoTo, supVars
<1>3. CASE Fail(able, late, done, parts) /\ Return("VERIFIED", TRUE)
  BY <1>3, FailType, ReturnType
     DEF TypeOK, TargetTypeOK, CommitCall, supVars, Phases, Pending
<1>4. CASE CrashDuring(able, done, parts)
  BY <1>4, CrashType DEF TypeOK, TargetTypeOK, CommitCall, supVars
<1>5. QED BY <1>1, <1>2, <1>3, <1>4 DEF CommitCall

(* A participant call of rollback keeps every type. *)
LEMMA RollbackCallType ==
    ASSUME TypeOK, UNCHANGED supVars, NEW location, NEW step \in Locations,
           NEW needed \in BOOLEAN, NEW able \in BOOLEAN,
           NEW late \in SUBSET Host, NEW done \in Host,
           NEW parts \in SUBSET Host, NEW next \in Locations,
           RollbackCall(location, step, needed, able, late, done, parts, next)
    PROVE  TypeOK'
<1> USE DEF TypeOK, TargetTypeOK, RollbackCall, supVars
<1>1. CASE frame' = [frame EXCEPT !.at = next]
           /\ UNCHANGED <<host, result, budget>>
  BY <1>1 DEF Frames
<1>2. CASE Succeed(able, late, done) /\ frame' = [frame EXCEPT !.at = step]
           /\ UNCHANGED result
  BY <1>2 DEF Succeed, Frames
<1>3. CASE Fail(able, late, done, parts) /\ UNCHANGED result
           /\ frame' = [frame EXCEPT !.at = next, !.failed = TRUE]
  <2>1. frame' \in Frames
    BY <1>3 DEF Frames
  <2>2. QED BY <1>3, <2>1, FailType
<1>4. CASE CrashDuring(able, done, parts)
  BY <1>4, CrashType
<1>5. QED BY <1>1, <1>2, <1>3, <1>4

(* An append of Run keeps every type. *)
LEMMA RunRecordType ==
    ASSUME TypeOK, UNCHANGED supVars, NEW step \in ProgressSteps,
           NEW next \in Locations, NEW restore \in BOOLEAN,
           RunRecord(step, next, restore)
    PROVE  TypeOK'
<1>1. frame' \in Frames
  BY AtType, EnterRollbackType DEF RunRecord, GoTo
<1>2. progress' \in SUBSET ProgressSteps /\ budget' \in Budgets
  BY AppendType DEF RunRecord
<1>3. QED BY <1>1, <1>2 DEF TypeOK, TargetTypeOK, RunRecord, supVars

(* An append of commit keeps every type. *)
LEMMA CommitRecordType ==
    ASSUME TypeOK, UNCHANGED supVars, NEW step \in ProgressSteps,
           NEW next \in Locations, CommitRecord(step, next)
    PROVE  TypeOK'
<1>1. frame' \in Frames /\ result' \in Results
  BY AtType, ReturnType
     DEF TypeOK, TargetTypeOK, CommitRecord, GoTo, Phases, Pending
<1>2. progress' \in SUBSET ProgressSteps /\ budget' \in Budgets
  BY AppendType DEF CommitRecord
<1>3. QED BY <1>1, <1>2 DEF TypeOK, TargetTypeOK, CommitRecord, supVars

(* An append of rollback keeps every type. *)
LEMMA RollbackRecordType ==
    ASSUME TypeOK, UNCHANGED supVars, NEW step \in ProgressSteps,
           NEW next \in Locations, RollbackRecord(step, next)
    PROVE  TypeOK'
<1>1. frame' \in Frames
  BY DEF TypeOK, TargetTypeOK, RollbackRecord, Frames
<1>2. progress' \in SUBSET ProgressSteps /\ budget' \in Budgets
  BY AppendType DEF RollbackRecord
<1>3. QED BY <1>1, <1>2 DEF TypeOK, TargetTypeOK, RollbackRecord, supVars

(* A journal write of Run keeps every type. *)
LEMMA RunAdvanceType ==
    ASSUME TypeOK, UNCHANGED supVars, NEW phase \in Phases,
           NEW next \in Locations, RunAdvance(phase, next)
    PROVE  TypeOK'
<1>1. frame' \in Frames /\ result' \in Results
  BY AtType, ReturnType DEF TypeOK, TargetTypeOK, RunAdvance, GoTo
<1>2. journal' \in Phases \cup {Absent} /\ budget' \in Budgets
  BY WriteType DEF RunAdvance
<1>3. QED BY <1>1, <1>2 DEF TypeOK, TargetTypeOK, RunAdvance, supVars

-----------------------------------------------------------------------------
(* TargetEngine.Run *)

(* Each step of TargetEngine.Run types what its call leaves of the host. *)
LEMMA RunStepType ==
    ASSUME TypeOK, UNCHANGED supVars, RunStep
    PROVE  TypeOK'
<1> USE DEF Locations, ProgressSteps, ForwardSteps, RunCalls, Phases, Pending
<1>hosts. /\ host \in Host
         /\ {host} \in SUBSET Host
         /\ host.marker \in BOOLEAN
         /\ (host.gate \in {0, tx.id}) \in BOOLEAN
  BY DEF TypeOK, TargetTypeOK, Host
<1>WriteIdle. CASE WriteIdle
  BY <1>WriteIdle, RunAdvanceType DEF WriteIdle
<1>WriteStaged. CASE WriteStaged
  BY <1>WriteStaged, RunAdvanceType DEF WriteStaged
<1>WritePrepared. CASE WritePrepared
  BY <1>WritePrepared, RunAdvanceType DEF WritePrepared
<1>WriteSwitched. CASE WriteSwitched
  BY <1>WriteSwitched, RunAdvanceType DEF WriteSwitched
<1>StageGeneration. CASE StageGeneration
  <2>1. frame' \in Frames /\ result' \in Results
    BY <1>StageGeneration, AtType, ReturnType
       DEF StageGeneration, GoTo, TypeOK, TargetTypeOK
  <2>2. budget' \in Budgets
    BY <1>StageGeneration, SpendType DEF StageGeneration, TypeOK, TargetTypeOK
  <2>3. QED
    BY <1>StageGeneration, <2>1, <2>2
       DEF StageGeneration, TypeOK, TargetTypeOK, supVars
<1>RecordGenerationStaged. CASE RecordGenerationStaged
  <2>1. frame' \in Frames /\ result' \in Results
    BY <1>RecordGenerationStaged, AtType, ReturnType
       DEF RecordGenerationStaged, GoTo, TypeOK, TargetTypeOK
  <2>2. progress' \in SUBSET ProgressSteps /\ budget' \in Budgets
    BY <1>RecordGenerationStaged, AppendType DEF RecordGenerationStaged
  <2>3. QED
    BY <1>RecordGenerationStaged, <2>1, <2>2
       DEF RecordGenerationStaged, TypeOK, TargetTypeOK, supVars
<1>WriteVerified. CASE WriteVerified
  <2>1. frame' \in Frames /\ result' \in Results
    BY <1>WriteVerified, ReturnType DEF WriteVerified
  <2>2. journal' \in Phases \cup {Absent} /\ budget' \in Budgets
    BY <1>WriteVerified, WriteType DEF WriteVerified
  <2>3. QED
    BY <1>WriteVerified, <2>1, <2>2
       DEF WriteVerified, TypeOK, TargetTypeOK, supVars
<1>RecordSignerPrepared. CASE RecordSignerPrepared
  BY <1>RecordSignerPrepared, RunRecordType DEF RecordSignerPrepared
<1>RecordPlatformPrepared. CASE RecordPlatformPrepared
  BY <1>RecordPlatformPrepared, RunRecordType DEF RecordPlatformPrepared
<1>RecordQuiesceStarted. CASE RecordQuiesceStarted
  BY <1>RecordQuiesceStarted, RunRecordType DEF RecordQuiesceStarted
<1>RecordQuiesced. CASE RecordQuiesced
  BY <1>RecordQuiesced, RunRecordType DEF RecordQuiesced
<1>RecordStatePrepared. CASE RecordStatePrepared
  BY <1>RecordStatePrepared, RunRecordType DEF RecordStatePrepared
<1>RecordMigratorPrepared. CASE RecordMigratorPrepared
  BY <1>RecordMigratorPrepared, RunRecordType DEF RecordMigratorPrepared
<1>RecordMigratorActivated. CASE RecordMigratorActivated
  BY <1>RecordMigratorActivated, RunRecordType DEF RecordMigratorActivated
<1>RecordPlatformActivated. CASE RecordPlatformActivated
  BY <1>RecordPlatformActivated, RunRecordType DEF RecordPlatformActivated
<1>RecordMigratorVerified. CASE RecordMigratorVerified
  BY <1>RecordMigratorVerified, RunRecordType DEF RecordMigratorVerified
<1>RecordSignerVerified. CASE RecordSignerVerified
  BY <1>RecordSignerVerified, RunRecordType DEF RecordSignerVerified
<1>RecordPluginVerified. CASE RecordPluginVerified
  BY <1>RecordPluginVerified, RunRecordType DEF RecordPluginVerified
<1>RecordPlatformVerified. CASE RecordPlatformVerified
  BY <1>RecordPlatformVerified, RunRecordType DEF RecordPlatformVerified
<1>SignerPrepare. CASE SignerPrepare
  <2>1. GateWritten \in Host
    BY DEF GateWritten, TypeOK, TargetTypeOK, Host, Transactions
  <2>2. QED
    BY <1>SignerPrepare, <1>hosts, <2>1, RunCallType
       DEF SignerPrepare, GateOurs, Heedless
<1>AdapterPrepare. CASE AdapterPrepare
  <2>1. UnitsKept \in Host
    BY DEF UnitsKept, TypeOK, TargetTypeOK, Host
  <2>2. QED
    BY <1>AdapterPrepare, <1>hosts, <2>1, RunCallType DEF AdapterPrepare
<1>Quiesce. CASE Quiesce
  <2>1. [host EXCEPT !.services = IF Fresh THEN @ ELSE 0] \in Host
    BY BoundsAssumption DEF TypeOK, TargetTypeOK, Host, Generations
  <2>2. QED BY <1>Quiesce, <1>hosts, <2>1, RunCallType DEF Quiesce
<1>PrepareState. CASE PrepareState
  <2>1. StateKept \in Host
    BY DEF StateKept, TypeOK, TargetTypeOK, Host
  <2>2. QED
    BY <1>PrepareState, <1>hosts, <2>1, RunCallType
       DEF PrepareState, Heedless
<1>MigratorPrepare. CASE MigratorPrepare
  <2>1. [host EXCEPT !.marker = TRUE] \in Host
    BY DEF TypeOK, TargetTypeOK, Host
  <2>2. QED
    BY <1>MigratorPrepare, <1>hosts, <2>1, RunCallType
       DEF MigratorPrepare, Heedless
<1>MigratorActivate. CASE MigratorActivate
  <2>1. [host EXCEPT !.migration = "target"] \in Host
    BY DEF TypeOK, TargetTypeOK, Host
  <2>2. QED
    BY <1>MigratorActivate, <1>hosts, <2>1, RunCallType
       DEF MigratorActivate, Heedless
<1>AdapterActivate. CASE AdapterActivate
  <2>1. /\ StateActivated \in Host
        /\ UnitsActivated \in Host
        /\ [UnitsActivated EXCEPT !.services = Target] \in Host
    BY TargetIsAGeneration
       DEF StateActivated, UnitsActivated, TypeOK, TargetTypeOK, Host
  <2>2. PartlyActivated \in SUBSET Host
    BY <2>1 DEF PartlyActivated
  <2>3. QED
    BY <1>AdapterActivate, <2>1, <2>2, RunCallType DEF AdapterActivate
<1>MigratorVerify. CASE MigratorVerify
  BY <1>MigratorVerify, <1>hosts, RunCallType DEF MigratorVerify, Heedless
<1>SignerVerify. CASE SignerVerify
  BY <1>SignerVerify, <1>hosts, RunCallType DEF SignerVerify, Heedless
<1>AdapterVerify. CASE AdapterVerify
  BY <1>AdapterVerify, <1>hosts, RunCallType DEF AdapterVerify, Heedless
<1>last. QED
  BY <1>WriteIdle, <1>WriteStaged, <1>WritePrepared, <1>WriteSwitched,
     <1>StageGeneration, <1>RecordGenerationStaged, <1>WriteVerified,
     <1>RecordSignerPrepared, <1>RecordPlatformPrepared,
     <1>RecordQuiesceStarted, <1>RecordQuiesced, <1>RecordStatePrepared,
     <1>RecordMigratorPrepared, <1>RecordMigratorActivated,
     <1>RecordPlatformActivated, <1>RecordMigratorVerified,
     <1>RecordSignerVerified, <1>RecordPluginVerified,
     <1>RecordPlatformVerified, <1>SignerPrepare, <1>AdapterPrepare,
     <1>Quiesce, <1>PrepareState, <1>MigratorPrepare, <1>MigratorActivate,
     <1>AdapterActivate, <1>MigratorVerify, <1>SignerVerify,
     <1>AdapterVerify
  DEF RunStep

-----------------------------------------------------------------------------
(* TargetEngine.Commit *)

(* Each step of TargetEngine.Commit types what its call leaves. *)
LEMMA CommitStepType ==
    ASSUME TypeOK, UNCHANGED supVars, CommitStep
    PROVE  TypeOK'
<1> USE DEF Locations, ProgressSteps, CommitSteps, CommitCalls, Phases,
            Pending, Terminal
<1>hosts. /\ host \in Host
          /\ {host} \in SUBSET Host
          /\ Heedless \in SUBSET Host
          /\ host.marker \in BOOLEAN
          /\ (host.gate \in {0, tx.id}) \in BOOLEAN
          /\ (host.manifest \in {tx.previous, Target}) \in BOOLEAN
  BY DEF TypeOK, TargetTypeOK, Host, Heedless
<1>CommitEntry. CASE CommitEntry
  <2>1. frame' \in Frames /\ result' \in Results
    BY <1>CommitEntry, AtType, ReturnType
       DEF CommitEntry, ReturnCommitted, GoTo, TypeOK, TargetTypeOK
  <2>2. QED
    BY <1>CommitEntry, <2>1 DEF CommitEntry, TypeOK, TargetTypeOK, supVars
<1>MigratorCommit. CASE MigratorCommit
  <2>1. MigratorCommitted \in Host
    BY DEF MigratorCommitted, TypeOK, TargetTypeOK, Host
  <2>2. PartlyCommitted \in SUBSET Host
    BY DEF PartlyCommitted, TypeOK, TargetTypeOK, Host
  <2>3. (IF tx.migrator = "hosted" THEN {host} \cup PartlyCommitted
         ELSE Heedless) \in SUBSET Host
    BY <1>hosts, <2>2
  <2>4. RecordReadable \in BOOLEAN
    BY <1>hosts DEF RecordReadable, TypeOK, TargetTypeOK, Host, Transactions
  <2>5. QED
    BY <1>MigratorCommit, <2>1, <2>2, <2>3, <2>4, CommitCallType
       DEF MigratorCommit
<1>SignerCommit. CASE SignerCommit
  <2>1. GateRemoved \in Host
    BY BoundsAssumption DEF GateRemoved, TypeOK, TargetTypeOK, Host
  <2>2. QED
    BY <1>SignerCommit, <1>hosts, <2>1, CommitCallType
       DEF SignerCommit, GateOurs
<1>AdapterCommit. CASE AdapterCommit
  <2>1. [host EXCEPT !.current = Target] \in Host
    BY TargetIsAGeneration DEF TypeOK, TargetTypeOK, Host
  <2>2. QED
    BY <1>AdapterCommit, <1>hosts, <2>1, CommitCallType DEF AdapterCommit
<1>ManifestCommit. CASE ManifestCommit
  <2>1. [host EXCEPT !.manifest = Target] \in Host
    BY TargetIsAGeneration DEF TypeOK, TargetTypeOK, Host
  <2>2. QED
    BY <1>ManifestCommit, <1>hosts, <2>1, CommitCallType DEF ManifestCommit
<1>Converge. CASE Converge
  BY <1>Converge, <1>hosts, CommitCallType DEF Converge
<1>Finalize. CASE Finalize
  <2>1. UndoDropped \in Host /\ UndoPartlyDropped \in SUBSET Host
    BY DEF UndoDropped, UndoPartlyDropped, TypeOK, TargetTypeOK, Host
  <2>2. QED
    BY <1>Finalize, <1>hosts, <2>1, CommitCallType DEF Finalize
<1>WriteCommitted. CASE WriteCommitted
  <2>1. frame' \in Frames /\ result' \in Results
    BY <1>WriteCommitted, ReturnType DEF WriteCommitted
  <2>2. journal' \in Phases \cup {Absent} /\ budget' \in Budgets
    BY <1>WriteCommitted, WriteType DEF WriteCommitted
  <2>3. QED
    BY <1>WriteCommitted, <2>1, <2>2
       DEF WriteCommitted, TypeOK, TargetTypeOK, supVars
<1>RecordMigratorCommitted. CASE RecordMigratorCommitted
  BY <1>RecordMigratorCommitted, CommitRecordType DEF RecordMigratorCommitted
<1>RecordSignerCommitted. CASE RecordSignerCommitted
  BY <1>RecordSignerCommitted, CommitRecordType DEF RecordSignerCommitted
<1>RecordPlatformCommitted. CASE RecordPlatformCommitted
  BY <1>RecordPlatformCommitted, CommitRecordType DEF RecordPlatformCommitted
<1>RecordManifestCommitted. CASE RecordManifestCommitted
  BY <1>RecordManifestCommitted, CommitRecordType DEF RecordManifestCommitted
<1>RecordConverged. CASE RecordConverged
  BY <1>RecordConverged, CommitRecordType DEF RecordConverged
<1>RecordFinalized. CASE RecordFinalized
  BY <1>RecordFinalized, CommitRecordType DEF RecordFinalized
<1>last. QED
  BY <1>CommitEntry, <1>MigratorCommit, <1>SignerCommit, <1>AdapterCommit,
     <1>ManifestCommit, <1>Converge, <1>Finalize, <1>WriteCommitted,
     <1>RecordMigratorCommitted, <1>RecordSignerCommitted,
     <1>RecordPlatformCommitted, <1>RecordManifestCommitted,
     <1>RecordConverged, <1>RecordFinalized
  DEF CommitStep

-----------------------------------------------------------------------------
(* TargetEngine.rollback, Abort and Recover *)

(* Each step of TargetEngine.rollback types what its call leaves. *)
LEMMA RollbackStepType ==
    ASSUME TypeOK, UNCHANGED supVars, RollbackStep
    PROVE  TypeOK'
<1> USE DEF Locations, ProgressSteps, RollbackSteps, RollbackCalls, Phases,
            Pending, Terminal
<1>hosts. /\ host \in Host
          /\ {host} \in SUBSET Host
          /\ Heedless \in SUBSET Host
          /\ frame.restore \in BOOLEAN
          /\ (host.gate \in {0, tx.id}) \in BOOLEAN
          /\ ("SIGNER_PREPARED" \in progress) \in BOOLEAN
          /\ ("MIGRATOR_PREPARED" \in progress) \in BOOLEAN
          /\ ("QUIESCE_STARTED" \in progress) \in BOOLEAN
          /\ ("TERMINAL_CONVERGENCE_VERIFIED" \notin progress) \in BOOLEAN
          /\ (journal \in {"SWITCHED", "VERIFIED"}) \in BOOLEAN
          /\ (~(tx.migrator = "hosted" /\ host.migration = "final")) \in BOOLEAN
  BY DEF TypeOK, TargetTypeOK, Host, Heedless, Frames
<1>AbortEntry. CASE AbortEntry
  <2>1. frame' \in Frames /\ result' \in Results
    BY <1>AbortEntry, <1>hosts, ReturnType, EnterRollbackType
       DEF AbortEntry, TypeOK, TargetTypeOK
  <2>2. QED
    BY <1>AbortEntry, <2>1 DEF AbortEntry, TypeOK, TargetTypeOK, supVars
<1>RecoverEntry. CASE RecoverEntry
  <2>1. \/ Return(Absent, TRUE)
        \/ Return("COMMITTED", "TERMINAL_CONVERGENCE_VERIFIED" \notin progress)
        \/ Return("ROLLED_BACK", FALSE)
        \/ GoTo("MigratorCommit") /\ UNCHANGED result
        \/ EnterRollback("QUIESCE_STARTED" \in progress) /\ UNCHANGED result
        \/ EnterRollback(TRUE) /\ UNCHANGED result
    BY <1>RecoverEntry DEF RecoverEntry, ReturnCommitted
  <2>2. frame' \in Frames /\ result' \in Results
    BY <2>1, <1>hosts, AtType, ReturnType, EnterRollbackType
       DEF GoTo, CommitCalls, TypeOK, TargetTypeOK
  <2>3. QED
    BY <1>RecoverEntry, <2>2
       DEF RecoverEntry, TypeOK, TargetTypeOK, supVars
<1>RecordRollbackStarted. CASE RecordRollbackStarted
  <2>1. CASE RollbackRecord("ROLLBACK_STARTED", "StopTarget")
    BY <2>1, RollbackRecordType
  <2>2. CASE /\ frame' = [frame EXCEPT !.at = "StopTarget"]
             /\ UNCHANGED <<tx, journal, progress, host, result, expired,
                            budget>>
    BY <2>2 DEF TypeOK, TargetTypeOK, supVars, Frames
  <2>3. QED BY <1>RecordRollbackStarted, <2>1, <2>2 DEF RecordRollbackStarted
<1>StopTarget. CASE StopTarget
  <2>1. [host EXCEPT !.services = 0] \in Host
    BY BoundsAssumption DEF TypeOK, TargetTypeOK, Host, Generations
  <2>2. QED BY <1>StopTarget, <1>hosts, <2>1, RollbackCallType DEF StopTarget
<1>SignerAbort. CASE SignerAbort
  <2>1. GateRemoved \in Host
    BY BoundsAssumption DEF GateRemoved, TypeOK, TargetTypeOK, Host
  <2> DEFINE needed == "SIGNER_PREPARED" \in progress
             able == GateOurs
  <2>2. RollbackCall("SignerAbort", "SIGNER_ABORTED", needed, able, Heedless,
                     GateRemoved, {}, "MigratorAbort")
    BY <1>SignerAbort DEF SignerAbort
  <2>3. needed \in BOOLEAN /\ able \in BOOLEAN
    BY <1>hosts DEF GateOurs
  <2> HIDE DEF needed, able
  <2>4. QED BY <1>hosts, <2>1, <2>2, <2>3, RollbackCallType
<1>MigratorAbort. CASE MigratorAbort
  <2> DEFINE needed == "MIGRATOR_PREPARED" \in progress
             able == ~CustodyMoved
             done == MigratorAborted
  <2>1. done \in Host
    BY DEF MigratorAborted, TypeOK, TargetTypeOK, Host
  <2>2. RollbackCall("MigratorAbort", "MIGRATOR_ABORTED", needed, able,
                     Heedless, done, {}, "Restore")
    BY <1>MigratorAbort DEF MigratorAbort
  <2>3. needed \in BOOLEAN /\ able \in BOOLEAN
    BY <1>hosts DEF CustodyMoved
  <2> HIDE DEF needed, able, done
  <2>4. QED BY <1>hosts, <2>1, <2>2, <2>3, RollbackCallType
<1>Restore. CASE Restore
  <2>1. CASE host.undoUnits # NoUndo
    <3>1. StateRestored \in Host
      BY DEF StateRestored, TypeOK, TargetTypeOK, Host
    <3>2. UnitsRestored \in Host
      BY <2>1, <3>1 DEF UnitsRestored, TypeOK, TargetTypeOK, Host
    <3>3. HostRestored \in Host
      BY <2>1, <3>2 DEF HostRestored, TypeOK, TargetTypeOK, Host
    <3> DEFINE late == {UnitsRestored}
               parts == {StateRestored, UnitsRestored}
    <3>4. RollbackCall("Restore", "PLATFORM_RESTORED", frame.restore, TRUE,
                       late, HostRestored, parts, "Discard")
      BY <1>Restore, <2>1 DEF Restore
    <3>5. late \in SUBSET Host /\ parts \in SUBSET Host
      BY <3>1, <3>2
    <3> HIDE DEF late, parts
    <3>6. QED BY <1>hosts, <3>3, <3>4, <3>5, RollbackCallType
  <2>2. CASE host.undoUnits = NoUndo
    <3>1. host' = host
      BY <1>Restore, <2>2
         DEF Restore, RollbackCall, Succeed, Fail, CrashDuring, Left
    <3>2. budget' \in Budgets /\ result' = result
      BY <1>Restore, <2>2, SpendType
         DEF Restore, RollbackCall, Succeed, Fail, CrashDuring,
             TypeOK, TargetTypeOK
    <3>3. \/ frame' = [frame EXCEPT !.at = "Discard"]
          \/ frame' = [frame EXCEPT !.at = "Discard", !.failed = TRUE]
          \/ frame' = At("down")
      BY <1>Restore, <2>2 DEF Restore, RollbackCall, Succeed, CrashDuring, GoTo
    <3>4. frame' \in Frames
      <4>1. At("down") \in Frames
        BY LandingPlaces, AtType
      <4>2. frame \in Frames /\ "Discard" \in Locations
        BY DEF TypeOK, TargetTypeOK
      <4>3. QED BY <3>3, <4>1, <4>2 DEF Frames
    <3>5. QED
      BY <1>Restore, <3>1, <3>2, <3>4
         DEF Restore, RollbackCall, TypeOK, TargetTypeOK, supVars
  <2>3. QED BY <2>1, <2>2
<1>Discard. CASE Discard
  <2>1. UndoDropped \in Host /\ UndoPartlyDropped \in SUBSET Host
    BY DEF UndoDropped, UndoPartlyDropped, TypeOK, TargetTypeOK, Host
  <2>2. QED
    BY <1>Discard, <1>hosts, <2>1, RollbackCallType DEF Discard
<1>RecordRollbackCompleted. CASE RecordRollbackCompleted
  <2>1. frame' \in Frames /\ result' \in Results
    BY <1>RecordRollbackCompleted, AtType, ReturnType
       DEF RecordRollbackCompleted, GoTo, TypeOK, TargetTypeOK
  <2>2. progress' \in SUBSET ProgressSteps /\ budget' \in Budgets
    BY <1>RecordRollbackCompleted, AppendType
       DEF RecordRollbackCompleted, TypeOK, TargetTypeOK
  <2>3. QED
    BY <1>RecordRollbackCompleted, <2>1, <2>2
       DEF RecordRollbackCompleted, TypeOK, TargetTypeOK, supVars
<1>WriteRolledBack. CASE WriteRolledBack
  <2>1. frame' \in Frames /\ result' \in Results
    BY <1>WriteRolledBack, ReturnType
       DEF WriteRolledBack, TypeOK, TargetTypeOK
  <2>2. journal' \in Phases \cup {Absent} /\ budget' \in Budgets
    BY <1>WriteRolledBack, WriteType DEF WriteRolledBack
  <2>3. QED
    BY <1>WriteRolledBack, <2>1, <2>2
       DEF WriteRolledBack, TypeOK, TargetTypeOK, supVars
<1>RecordTargetStopped. CASE RecordTargetStopped
  BY <1>RecordTargetStopped, RollbackRecordType DEF RecordTargetStopped
<1>RecordSignerAborted. CASE RecordSignerAborted
  BY <1>RecordSignerAborted, RollbackRecordType DEF RecordSignerAborted
<1>RecordMigratorAborted. CASE RecordMigratorAborted
  BY <1>RecordMigratorAborted, RollbackRecordType DEF RecordMigratorAborted
<1>RecordPlatformRestored. CASE RecordPlatformRestored
  BY <1>RecordPlatformRestored, RollbackRecordType DEF RecordPlatformRestored
<1>RecordPlatformDiscarded. CASE RecordPlatformDiscarded
  BY <1>RecordPlatformDiscarded, RollbackRecordType DEF RecordPlatformDiscarded
<1>last. QED
  BY <1>AbortEntry, <1>RecoverEntry, <1>RecordRollbackStarted,
     <1>StopTarget, <1>SignerAbort, <1>MigratorAbort, <1>Restore,
     <1>Discard, <1>RecordRollbackCompleted, <1>WriteRolledBack,
     <1>RecordTargetStopped, <1>RecordSignerAborted,
     <1>RecordMigratorAborted, <1>RecordPlatformRestored,
     <1>RecordPlatformDiscarded
  DEF RollbackStep

-----------------------------------------------------------------------------
(* The supervisor and its environment *)

(* The supervisor's journal write keeps a phase, also when it fails. *)
LEMMA SupWriteType ==
    ASSUME TypeOK, NEW phase \in Phases, SupWrites(phase) \/ SupWriteFails(phase)
    PROVE  supJournal' \in Phases \cup {Absent} /\ budget' \in Budgets
BY SpendType DEF TypeOK, TargetTypeOK, SupWrites, SupWriteFails

(* engine.advance of the supervisor keeps every type. *)
LEMMA SupAdvanceType ==
    ASSUME TypeOK, NEW location, NEW phase \in Phases,
           NEW next \in SupLocations, SupAdvance(location, phase, next)
    PROVE  TypeOK'
<1>1. supJournal' \in Phases \cup {Absent} /\ budget' \in Budgets
  BY SupWriteType DEF SupAdvance
<1>2. sup' \in SupLocations /\ frame' = frame
  BY DEF SupAdvance, SupWriteFails, SupLocations
<1>3. QED BY <1>1, <1>2 DEF SupAdvance, TypeOK, TargetTypeOK

(* A supervisor record followed by a call keeps every type. *)
LEMMA SupAdvanceAndCallType ==
    ASSUME TypeOK, NEW location, NEW phase \in Phases,
           NEW entry \in Locations, NEW await \in SupLocations,
           SupAdvanceAndCall(location, phase, entry, await)
    PROVE  TypeOK'
<1>1. supJournal' \in Phases \cup {Absent} /\ budget' \in Budgets
  BY SupWriteType DEF SupAdvanceAndCall
<1>2. sup' \in SupLocations
  BY DEF SupAdvanceAndCall, SupWriteFails, CallTarget, SupLocations
<1>3. frame' \in Frames
  BY AtType
     DEF SupAdvanceAndCall, SupWriteFails, CallTarget, TypeOK, TargetTypeOK
<1>4. QED BY <1>1, <1>2, <1>3 DEF SupAdvanceAndCall, TypeOK, TargetTypeOK

(* A supervisor step that only hands over: to the target or to itself. *)
LEMMA HandOverType ==
    ASSUME TypeOK,
           UNCHANGED <<tx, journal, progress, host, result, supJournal>>,
           expired' \in BOOLEAN, budget' \in Budgets,
           NEW location \in Locations, NEW await \in SupLocations,
           CallTarget(location, await) \/ Resume(await)
    PROVE  TypeOK'
<1>1. frame' \in Frames /\ sup' \in SupLocations
  BY LandingPlaces, AtType DEF CallTarget, Resume
<1>2. QED BY <1>1 DEF TypeOK, TargetTypeOK

(* Each step of SupervisorEngine keeps every type. *)
LEMMA SupervisorStepType ==
    ASSUME TypeOK, SupervisorStep
    PROVE  TypeOK'
<1> USE DEF SupLocations, Awaits, Phases, Pending, Terminal
<1>here. expired \in BOOLEAN /\ budget \in Budgets
  BY DEF TypeOK, TargetTypeOK
<1>there. {"IDLE", "Commit", "Abort", "Recover"} \subseteq Locations
  BY LandingPlaces DEF Entries, Locations
<1>RunTarget. CASE RunTarget
  BY <1>RunTarget, <1>there, SupAdvanceAndCallType DEF RunTarget
<1>RunReturned. CASE RunReturned
  BY <1>RunReturned, <1>here, <1>there, HandOverType DEF RunReturned
<1>AbortReturned. CASE AbortReturned
  BY <1>AbortReturned, <1>here, <1>there, HandOverType DEF AbortReturned
<1>WriteSupPrepared. CASE WriteSupPrepared
  BY <1>WriteSupPrepared, SupAdvanceType DEF WriteSupPrepared
<1>CommitTarget. CASE CommitTarget
  BY <1>CommitTarget, <1>there, SupAdvanceAndCallType DEF CommitTarget
<1>CommitReturned. CASE CommitReturned
  BY <1>CommitReturned, <1>here, <1>there, HandOverType DEF CommitReturned
<1>WriteSupVerified. CASE WriteSupVerified
  BY <1>WriteSupVerified, SupAdvanceType DEF WriteSupVerified
<1>WriteSupCommitted. CASE WriteSupCommitted
  BY <1>WriteSupCommitted, SupAdvanceType DEF WriteSupCommitted
<1>WriteSupRolledBack. CASE WriteSupRolledBack
  BY <1>WriteSupRolledBack, SupAdvanceType DEF WriteSupRolledBack
<1>RecoverPending. CASE RecoverPending
  BY <1>RecoverPending, <1>here, <1>there, HandOverType DEF RecoverPending
<1>RecoverReturned. CASE RecoverReturned
  BY <1>RecoverReturned, <1>here, <1>there, HandOverType DEF RecoverReturned
<1>ResumeCommit. CASE ResumeCommit
  BY <1>ResumeCommit, <1>there, SupAdvanceAndCallType DEF ResumeCommit
<1>CompleteReturned. CASE CompleteReturned
  BY <1>CompleteReturned, <1>here, <1>there, HandOverType
     DEF CompleteReturned
<1>Restart. CASE Restart
  BY <1>Restart, <1>here, <1>there, HandOverType DEF Restart
<1>last. QED
  BY <1>RunTarget, <1>RunReturned, <1>AbortReturned, <1>WriteSupPrepared,
     <1>CommitTarget, <1>CommitReturned, <1>WriteSupVerified,
     <1>WriteSupCommitted, <1>WriteSupRolledBack, <1>RecoverPending,
     <1>RecoverReturned, <1>ResumeCommit, <1>CompleteReturned, <1>Restart
  DEF SupervisorStep

(* A new transaction, a crash and a deadline keep every type. *)
LEMMA EnvironmentType ==
    ASSUME TypeOK, Environment
    PROVE  TypeOK'
<1>BeginTransaction. CASE BeginTransaction
  <2>1. tx' \in Transactions
    BY <1>BeginTransaction, BoundsAssumption, MigratorAssumption
       DEF BeginTransaction, Transactions, TypeOK, TargetTypeOK, Host
  <2>2. host' \in Host
    BY <1>BeginTransaction DEF BeginTransaction, TypeOK, TargetTypeOK, Host
  <2>3. budget' \in Budgets
    BY <1>BeginTransaction, SpendType
       DEF BeginTransaction, TypeOK, TargetTypeOK
  <2>4. QED
    BY <1>BeginTransaction, <2>1, <2>2, <2>3
       DEF BeginTransaction, TypeOK, TargetTypeOK, SupLocations, Phases,
           Pending
<1>Crash. CASE Crash
  <2>1. expired' \in BOOLEAN /\ budget' \in Budgets /\ "idle" \in SupLocations
    BY <1>Crash, SpendType DEF Crash, TypeOK, TargetTypeOK, SupLocations
  <2>2. QED BY <1>Crash, <2>1, LandingPlaces, HandOverType DEF Crash
<1>Expire. CASE Expire
  <2>1. budget' \in Budgets
    BY <1>Expire, SpendType DEF Expire
  <2>2. QED BY <1>Expire, <2>1 DEF Expire, TypeOK, TargetTypeOK
<1>Quiescent. CASE Quiescent
  BY <1>Quiescent DEF Quiescent, vars, TypeOK, TargetTypeOK
<1>last. QED
  BY <1>BeginTransaction, <1>Crash, <1>Expire, <1>Quiescent DEF Environment

-----------------------------------------------------------------------------

(* The installation the first transaction finds is well typed. *)
LEMMA InitType == Init => TypeOK
<1> SUFFICES ASSUME Init PROVE TypeOK
  OBVIOUS
<1>1. tx \in Transactions /\ host \in Host
  BY BoundsAssumption
     DEF Init, TargetInit, Transactions, Host, Generations, NoUndo
<1>2. frame \in Frames
  BY LandingPlaces, AtType DEF Init, TargetInit
<1>3. budget \in Budgets
  BY BoundsAssumption DEF Init, TargetInit, Budgets
<1>4. QED
  BY <1>1, <1>2, <1>3
     DEF Init, TargetInit, TypeOK, TargetTypeOK, Results, SupLocations

(* Type correctness is inductive by itself. *)
LEMMA NextType == TypeOK /\ [Next]_vars => TypeOK'
<1> SUFFICES ASSUME TypeOK, [Next]_vars PROVE TypeOK'
  OBVIOUS
<1>1. CASE EngineStep
  BY <1>1, RunStepType, CommitStepType, RollbackStepType
     DEF EngineStep, TargetStep
<1>2. CASE SupervisorStep
  BY <1>2, SupervisorStepType
<1>3. CASE Environment
  BY <1>3, EnvironmentType
<1>4. CASE UNCHANGED vars
  BY <1>4 DEF vars, TypeOK, TargetTypeOK
<1>5. QED BY <1>1, <1>2, <1>3, <1>4 DEF Next

(* Every variable of the two engines keeps its type: journals, progress,   *)
(* host, call frame and the bounded counters, whatever fails or crashes.   *)
THEOREM TypeCorrect == Spec => []TypeOK
<1>1. QED BY InitType, NextType, PTL DEF Spec

=============================================================================
