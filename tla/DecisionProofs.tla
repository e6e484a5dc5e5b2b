---------------------------- MODULE DecisionProofs ----------------------------
(***************************************************************************)
(* The decision and the host, for every number of transactions, faults,    *)
(* crashes and deadlines.  Once the migrator has given up its way back, or *)
(* the manifest names the target, no rollback of the transaction starts;   *)
(* what the participants changed on the machine is what the recorded steps *)
(* and the place of the engine say: the undo data is written ahead, the    *)
(* gate held, the manifest last, and a committed update converged; and it  *)
(* takes more than crashes for a decided update to be reported as rolled   *)
(* back.                                                                   *)
(***************************************************************************)
EXTENDS LifecycleProofs

Decided == host.migration = "final" \/ host.manifest = Target
RollbackStarted == "ROLLBACK_STARTED" \in progress

Undecided == {"IDLE", "STAGED", "PREPARED"}
PastDecision == {"SWITCHED", "VERIFIED", "COMMITTED"}

(* A Run that has not failed, up to its answer. *)
RunGoesWell ==
    \/ frame.at \in RunPlaces
    \/ frame.at = "return" /\ ~result.err /\ result.phase = "VERIFIED"

(* Before the supervisor's decision nothing is final, after it nothing is  *)
(* rolled back; and only a Run without a rollback leads to it.             *)
NeverBoth ==
    /\ supJournal \in Undecided => ~Decided
    /\ supJournal \in PastDecision => ~RollbackStarted
    /\ supJournal = "ROLLED_BACK" => ~(Decided /\ RollbackStarted)
    /\ sup \in {"STAGED", "PREPARED", "SWITCHED"} => ~RollbackStarted
    /\ sup = "awaitRun" /\ RunGoesWell => ~RollbackStarted

(* Generations are numbered upwards, and no journal means no transaction. *)
Numbered ==
    /\ host.manifest <= Target
    /\ supJournal = Absent => tx.id = 0

DInv == NeverBoth /\ Numbered

-----------------------------------------------------------------------------
(* What a step of each half may do to the decision.                        *)

(* Run makes nothing final and records no rollback. *)
LEMMA RunDecidesNothing ==
    ASSUME TypeOK, RunStep
    PROVE  /\ frame.at \in RunPlaces
           /\ host'.migration = "final" => host.migration = "final"
           /\ RollbackStarted' => RollbackStarted
<1>places. /\ RunCalls \cup ForwardSteps \cup Pending \subseteq RunPlaces
           /\ "ROLLBACK_STARTED" \notin ForwardSteps
  BY DEF RunPlaces, RunCalls, ForwardSteps, Pending
<1>host. host \in Host
  BY DEF TypeOK, TargetTypeOK
<1>calls. CASE \/ SignerPrepare \/ AdapterPrepare \/ Quiesce \/ PrepareState
               \/ MigratorPrepare \/ MigratorActivate \/ AdapterActivate
               \/ MigratorVerify \/ SignerVerify \/ AdapterVerify
  <2>1. frame.at \in RunCalls /\ progress' = progress
    BY <1>calls
       DEF SignerPrepare, AdapterPrepare, Quiesce, PrepareState,
           MigratorPrepare, MigratorActivate, AdapterActivate, MigratorVerify,
           SignerVerify, AdapterVerify, RunCall, RunCalls
  <2>2. CASE SignerPrepare \/ AdapterPrepare \/ Quiesce \/ PrepareState
    <3>1. host'.migration = host.migration
      BY <2>2, <1>host
         DEF SignerPrepare, AdapterPrepare, Quiesce, PrepareState, RunCall,
             Succeed, Fail, CrashDuring, Left, Heedless, GateWritten,
             UnitsKept, StateKept, Host
    <3>2. QED BY <3>1, <2>1, <1>places DEF RollbackStarted
  <2>3. CASE MigratorPrepare \/ MigratorActivate
    <3>1. host'.migration \in {host.migration, "target"}
      BY <2>3, <1>host
         DEF MigratorPrepare, MigratorActivate, RunCall, Succeed, Fail,
             CrashDuring, Left, Heedless, Host
    <3>2. QED BY <3>1, <2>1, <1>places DEF RollbackStarted
  <2>4. CASE AdapterActivate
    <3>1. host'.migration = host.migration
      BY <2>4, <1>host
         DEF AdapterActivate, RunCall, Succeed, Fail, CrashDuring, Left,
             PartlyActivated, StateActivated, UnitsActivated, Host
    <3>2. QED BY <3>1, <2>1, <1>places DEF RollbackStarted
  <2>5. CASE MigratorVerify \/ SignerVerify \/ AdapterVerify
    <3>1. host' = host
      BY <2>5
         DEF MigratorVerify, SignerVerify, AdapterVerify, RunCall, Succeed,
             Fail, CrashDuring, Left, Heedless
    <3>2. QED BY <3>1, <2>1, <1>places DEF RollbackStarted
  <2>6. QED BY <1>calls, <2>2, <2>3, <2>4, <2>5
<1>stages. CASE StageGeneration \/ RecordGenerationStaged
  BY <1>stages, <1>places
     DEF StageGeneration, RecordGenerationStaged, Append, AppendFails,
         RunCalls, ForwardSteps, RollbackStarted
<1>advances. CASE WriteIdle \/ WriteStaged \/ WritePrepared \/ WriteSwitched
                  \/ WriteVerified
  BY <1>advances, <1>places
     DEF WriteIdle, WriteStaged, WritePrepared, WriteSwitched, WriteVerified,
         RunAdvance, Pending, RollbackStarted
<1>records. CASE \/ RecordSignerPrepared \/ RecordPlatformPrepared
                 \/ RecordQuiesceStarted \/ RecordQuiesced
                 \/ RecordStatePrepared \/ RecordMigratorPrepared
                 \/ RecordMigratorActivated \/ RecordPlatformActivated
                 \/ RecordMigratorVerified \/ RecordSignerVerified
                 \/ RecordPluginVerified \/ RecordPlatformVerified
  <2>1. ASSUME NEW step \in ForwardSteps, NEW next, NEW restore,
               RunRecord(step, next, restore)
        PROVE  /\ frame.at \in ForwardSteps
               /\ host' = host
               /\ progress' \in {progress, progress \cup {step}}
    BY <2>1 DEF RunRecord, Append, AppendFails
  <2>2. /\ frame.at \in ForwardSteps
        /\ host' = host
        /\ \E step \in ForwardSteps :
              progress' \in {progress, progress \cup {step}}
    BY <1>records, <2>1
       DEF RecordSignerPrepared, RecordPlatformPrepared,
           RecordQuiesceStarted, RecordQuiesced, RecordStatePrepared,
           RecordMigratorPrepared, RecordMigratorActivated,
           RecordPlatformActivated, RecordMigratorVerified,
           RecordSignerVerified, RecordPluginVerified,
           RecordPlatformVerified, ForwardSteps
  <2>3. QED BY <2>2, <1>places DEF RollbackStarted
<1>split. QED
  BY <1>calls, <1>stages, <1>advances, <1>records DEF RunStep

(* Commit runs past the supervisor's decision and records no rollback. *)
LEMMA CommitStartsNoRollback ==
    ASSUME IInv, CommitStep
    PROVE  /\ sup \in {"awaitCommit", "awaitRecover"}
           /\ supJournal = "SWITCHED"
           /\ RollbackStarted' => RollbackStarted
<1>entry. CASE CommitEntry
  <2>1. frame.at = "Commit" /\ progress' = progress
    BY <1>entry DEF CommitEntry
  <2>2. QED BY <2>1 DEF IInv, InOrder, Belongs, RollbackStarted
<1>calls. CASE \/ MigratorCommit \/ SignerCommit \/ AdapterCommit
               \/ ManifestCommit \/ Converge \/ Finalize
  <2>1. frame.at \in CommitPlaces /\ progress' = progress
    BY <1>calls
       DEF MigratorCommit, SignerCommit, AdapterCommit, ManifestCommit,
           Converge, Finalize, CommitCall, CommitPlaces, CommitCalls
  <2>2. QED BY <2>1 DEF IInv, InOrder, Belongs, RollbackStarted
<1>records. CASE \/ RecordMigratorCommitted \/ RecordSignerCommitted
                 \/ RecordPlatformCommitted \/ RecordManifestCommitted
                 \/ RecordConverged \/ RecordFinalized
  <2>1. ASSUME NEW step \in CommitSteps, NEW next, CommitRecord(step, next)
        PROVE  /\ frame.at \in CommitSteps
               /\ progress' \in {progress, progress \cup {step}}
    BY <2>1 DEF CommitRecord, Append, AppendFails
  <2>2. /\ frame.at \in CommitSteps
        /\ \E step \in CommitSteps :
              progress' \in {progress, progress \cup {step}}
    BY <1>records, <2>1
       DEF RecordMigratorCommitted, RecordSignerCommitted,
           RecordPlatformCommitted, RecordManifestCommitted, RecordConverged,
           RecordFinalized, CommitSteps
  <2>3. frame.at \in CommitPlaces /\ "ROLLBACK_STARTED" \notin CommitSteps
    BY <2>2 DEF CommitPlaces, CommitSteps
  <2>4. QED BY <2>2, <2>3 DEF IInv, InOrder, Belongs, RollbackStarted
<1>write. CASE WriteCommitted
  <2>1. frame.at \in CommitPlaces /\ progress' = progress
    BY <1>write DEF WriteCommitted, CommitPlaces
  <2>2. QED BY <2>1 DEF IInv, InOrder, Belongs, RollbackStarted
<1>split. QED
  BY <1>entry, <1>calls, <1>records, <1>write DEF CommitStep

(* A rollback makes nothing final, and a call that rolls back or recovers  *)
(* does not go on as a Run.                                                *)
LEMMA RollbackDecidesNothing ==
    ASSUME TypeOK, IInv, RollbackStep
    PROVE  /\ host'.migration = "final" => host.migration = "final"
           /\ RunGoesWell' => sup # "awaitRun"
           /\ \/ supJournal \in Undecided
              \/ RollbackStarted' => RollbackStarted
<1> USE DEF RollbackCalls, RollbackSteps, RollbackStarted
<1>places. \A place \in RollbackCalls \cup RollbackSteps
                 \cup {"down", "ROLLED_BACK", "MigratorCommit"} :
              place \notin RunPlaces \cup {"return"}
  BY DEF RunPlaces, RunCalls, ForwardSteps, Pending
<1>host. host \in Host /\ frame \in Frames
  BY DEF TypeOK, TargetTypeOK
<1>order. /\ frame.at \in RollbackPlaces => supJournal \in Undecided
          /\ frame.at \in {"Abort", "Recover"} => sup # "awaitRun"
  BY DEF IInv, InOrder, Belongs, Undecided
<1>calls. CASE StopTarget \/ SignerAbort \/ MigratorAbort \/ Restore \/ Discard
  <2>1. host'.migration = "final" => host.migration = "final"
    BY <1>calls, <1>host
       DEF StopTarget, SignerAbort, MigratorAbort, Restore, Discard,
           RollbackCall, Succeed, Fail, CrashDuring, Left, Heedless,
           GateRemoved, MigratorAborted, HostRestored, UnitsRestored,
           StateRestored, UndoDropped, UndoPartlyDropped, Host
  <2>2. ~RunGoesWell'
    BY <1>calls, <1>places, RollbackCallGoes DEF RunGoesWell
  <2>3. RollbackStarted' => RollbackStarted
    BY <1>calls, RollbackCallGoes
  <2>4. QED BY <2>1, <2>2, <2>3
<1>records. CASE \/ RecordRollbackStarted \/ RecordTargetStopped
                 \/ RecordSignerAborted \/ RecordMigratorAborted
                 \/ RecordPlatformRestored \/ RecordPlatformDiscarded
  <2>1. /\ frame.at \in RollbackSteps
        /\ host' = host
    BY <1>records
       DEF RecordRollbackStarted, RecordTargetStopped, RecordSignerAborted,
           RecordMigratorAborted, RecordPlatformRestored,
           RecordPlatformDiscarded, RollbackRecord
  <2>2. frame'.at \in RollbackCalls \cup RollbackSteps
    BY <1>records, <1>host
       DEF RecordRollbackStarted, RecordTargetStopped, RecordSignerAborted,
           RecordMigratorAborted, RecordPlatformRestored,
           RecordPlatformDiscarded, RollbackRecord, Frames
  <2>3. QED
    BY <1>places, <1>order, <2>1, <2>2 DEF RunGoesWell, RollbackPlaces
<1>ends. CASE RecordRollbackCompleted \/ WriteRolledBack
  <2>1. /\ frame.at \in RollbackPlaces
        /\ host' = host
    BY <1>ends
       DEF RecordRollbackCompleted, WriteRolledBack, RollbackPlaces
  <2>2. \/ frame'.at = "ROLLED_BACK"
        \/ /\ frame'.at = "return"
           /\ result'.err = TRUE \/ result'.phase = "ROLLED_BACK"
    BY <1>ends
       DEF RecordRollbackCompleted, WriteRolledBack, GoTo, Return, At
  <2>3. ~RunGoesWell'
    BY <1>places, <2>2
       DEF RunGoesWell, RunPlaces, RunCalls, ForwardSteps, Pending
  <2>4. QED BY <1>order, <2>1, <2>3
<1>entries. CASE AbortEntry \/ RecoverEntry
  <2>1. /\ frame.at \in {"Abort", "Recover"}
        /\ UNCHANGED <<host, progress>>
    BY <1>entries DEF AbortEntry, RecoverEntry
  <2>2. QED BY <1>order, <2>1
<1>last. QED
  BY <1>calls, <1>records, <1>ends, <1>entries DEF RollbackStep

-----------------------------------------------------------------------------
(* The invariant. *)

(* An engine step keeps decision and rollback apart. *)
LEMMA EngineKeepsDecision ==
    ASSUME TypeOK, IInv, DInv, EngineStep
    PROVE  DInv'
<1>1. /\ UNCHANGED supVars
      /\ tx' = tx
      /\ host'.manifest \in {host.manifest, Target}
      /\ frame.at # "ManifestCommit" => host'.manifest = host.manifest
  BY RunKeepsManifest, CommitKeepsManifest, RollbackKeepsManifest
     DEF EngineStep, TargetStep
<1>2. Numbered'
  BY <1>1 DEF DInv, Numbered, Target, supVars, TypeOK, TargetTypeOK,
     Transactions
<1>3. CASE RunStep
  <2>1. /\ sup = "awaitRun" /\ supJournal = "STAGED"
        /\ ~RollbackStarted /\ ~Decided
    BY <1>3, RunDecidesNothing
       DEF IInv, InOrder, Belongs, DInv, NeverBoth, RunGoesWell, Undecided
  <2>2. ~RollbackStarted' /\ ~Decided'
    BY <1>1, <1>3, <2>1, RunDecidesNothing, RunKeepsManifest
       DEF Decided, Target
  <2>3. NeverBoth'
    BY <1>1, <2>1, <2>2 DEF NeverBoth, supVars, PastDecision
  <2>4. QED BY <1>2, <2>3 DEF DInv
<1>4. CASE CommitStep
  <2>1. /\ sup \in {"awaitCommit", "awaitRecover"}
        /\ supJournal = "SWITCHED"
        /\ ~RollbackStarted'
    BY <1>4, CommitStartsNoRollback DEF DInv, NeverBoth, PastDecision
  <2>2. NeverBoth'
    BY <1>1, <2>1 DEF NeverBoth, supVars, Undecided
  <2>3. QED BY <1>2, <2>2 DEF DInv
<1>5. CASE RollbackStep
  <2>1. /\ Decided' => Decided
        /\ RunGoesWell' => sup # "awaitRun"
        /\ supJournal \in Undecided \/ (RollbackStarted' => RollbackStarted)
        /\ sup \in Awaits
    <3>1. host'.manifest = host.manifest
      BY <1>5, RollbackKeepsManifest
    <3>2. sup \in Awaits
      BY <1>5
         DEF IInv, Belongs, RollbackStep, AbortEntry, RecoverEntry,
             RecordRollbackStarted, RollbackRecord, StopTarget, SignerAbort,
             MigratorAbort, Restore, Discard, RollbackCall,
             RecordTargetStopped, RecordSignerAborted, RecordMigratorAborted,
             RecordPlatformRestored, RecordPlatformDiscarded,
             RecordRollbackCompleted, WriteRolledBack
    <3>3. QED
      BY <1>1, <1>5, <3>1, <3>2, RollbackDecidesNothing DEF Decided, Target
  <2>2. NeverBoth'
    BY <1>1, <2>1
       DEF DInv, NeverBoth, supVars, Undecided, PastDecision, Awaits
  <2>3. QED BY <1>2, <2>2 DEF DInv
<1>6. QED BY <1>3, <1>4, <1>5 DEF EngineStep, TargetStep

(* A supervisor step decides only after a Run without a rollback. *)
LEMMA SupervisorKeepsDecision ==
    ASSUME TypeOK, IInv, DInv, SupervisorStep
    PROVE  DInv'
<1> USE DEF Undecided, PastDecision
<1>same. UNCHANGED <<tx, progress, host>>
  BY DEF SupervisorStep, RunTarget, WriteSupPrepared, CommitTarget,
     WriteSupVerified, WriteSupCommitted, WriteSupRolledBack, ResumeCommit,
     RunReturned, AbortReturned, CommitReturned, RecoverReturned,
     CompleteReturned, RecoverPending, Restart, SupAdvance, SupAdvanceAndCall
<1>apart. /\ Decided' = Decided
          /\ RollbackStarted' = RollbackStarted
          /\ host'.manifest <= Target'
  BY <1>same DEF Decided, RollbackStarted, Target, DInv, Numbered
<1>advances. CASE \/ WriteSupPrepared \/ WriteSupVerified
                  \/ WriteSupCommitted \/ WriteSupRolledBack
  BY <1>advances, <1>same, <1>apart
     DEF WriteSupPrepared, WriteSupVerified, WriteSupCommitted,
         WriteSupRolledBack, SupAdvance, SupWrites, SupWriteFails,
         LegalTransition, DInv, NeverBoth, Numbered, IInv, InOrder, Absent
<1>calls. CASE RunTarget \/ CommitTarget \/ ResumeCommit
  BY <1>calls, <1>same, <1>apart
     DEF RunTarget, CommitTarget, ResumeCommit, SupAdvanceAndCall, CallTarget,
         SupWrites, SupWriteFails, LegalTransition, DInv, NeverBoth, Numbered,
         IInv, InOrder, Absent
<1>returns. CASE \/ RunReturned \/ AbortReturned \/ CommitReturned
                 \/ RecoverReturned \/ CompleteReturned
  BY <1>returns, <1>same, <1>apart
     DEF RunReturned, AbortReturned, CommitReturned, RecoverReturned,
         CompleteReturned, Resume, CallTarget, Returned, RunGoesWell, DInv,
         NeverBoth, Numbered
<1>recovers. CASE RecoverPending \/ Restart
  BY <1>recovers, <1>same, <1>apart
     DEF RecoverPending, Restart, Resume, CallTarget, Returned, RunGoesWell,
         DInv, NeverBoth, Numbered
<1>last. QED
  BY <1>advances, <1>calls, <1>returns, <1>recovers DEF SupervisorStep

(* A new transaction starts undecided and without a rollback. *)
LEMMA EnvironmentKeepsDecision ==
    ASSUME TypeOK, DInv, Environment
    PROVE  DInv'
<1>1. CASE BeginTransaction
  <2>1. /\ host'.migration = "previous"
        /\ host'.manifest = host.manifest
        /\ tx'.id = tx.id + 1
        /\ progress' = {}
        /\ supJournal' = "IDLE"
        /\ sup' \in {"STAGED", "idle"}
    BY <1>1 DEF BeginTransaction, TypeOK, TargetTypeOK, Host
  <2>2. host.manifest <= tx.id + 1 /\ tx.id \in Int /\ host.manifest \in Int
    BY DEF DInv, Numbered, Target, TypeOK, TargetTypeOK, Transactions, Host,
       Generations
  <2>3. host'.manifest < Target'
    BY <2>1, <2>2 DEF Target
  <2>4. ~Decided' /\ ~RollbackStarted'
    BY <2>1, <2>2, <2>3 DEF Decided, RollbackStarted, Target
  <2>5. NeverBoth'
    BY <2>1, <2>4 DEF NeverBoth, Undecided, PastDecision
  <2>6. Numbered'
    BY <2>1, <2>2, <2>3 DEF Numbered, Target, Absent
  <2>7. QED BY <2>5, <2>6 DEF DInv
<1>2. CASE Crash
  <2>1. UNCHANGED <<tx, progress, host, supJournal>> /\ sup' = "idle"
    BY <1>2 DEF Crash, Resume
  <2>2. QED
    BY <2>1 DEF DInv, NeverBoth, Numbered, Decided, RollbackStarted, Target
<1>3. CASE Expire \/ Quiescent
  <2>1. UNCHANGED <<tx, progress, host, frame, result, supJournal, sup>>
    BY <1>3 DEF Expire, Quiescent, vars
  <2>2. QED
    BY <2>1 DEF DInv, NeverBoth, Numbered, Decided, RollbackStarted, Target,
       RunGoesWell
<1>4. QED BY <1>1, <1>2, <1>3 DEF Environment

(* Nothing is decided before the first transaction. *)
LEMMA InitDecision == Init => DInv
BY DEF Init, TargetInit, DInv, NeverBoth, Numbered, RollbackStarted, Target,
   Undecided, PastDecision, Absent

LEMMA DecisionInvariant == Spec => []DInv
<1>1. TypeOK /\ IInv /\ DInv /\ [Next]_vars => DInv'
  <2> SUFFICES ASSUME TypeOK, IInv, DInv, [Next]_vars PROVE DInv'
    OBVIOUS
  <2>1. CASE UNCHANGED vars
    BY <2>1 DEF vars, DInv, NeverBoth, Numbered, Decided, RollbackStarted,
       Target, RunGoesWell
  <2>2. QED
    BY <2>1, EngineKeepsDecision, SupervisorKeepsDecision,
       EnvironmentKeepsDecision
       DEF Next
<1>2. QED BY TypeCorrect, Invariant, InitDecision, <1>1, PTL DEF Spec

(* Commit and Recover only ever complete forward once the migrator has     *)
(* given up its way back or the manifest names the target: no rollback of  *)
(* that transaction has started or ever starts.                            *)
THEOREM DecisionIsNeverRolledBack == Spec => []NoRollbackAfterDecision
<1>1. TypeOK /\ DInv => NoRollbackAfterDecision
  BY DEF DInv, NeverBoth, Numbered, NoRollbackAfterDecision, Decided,
     RollbackStarted, Undecided, PastDecision, TypeOK, TargetTypeOK, Phases,
     Pending, Terminal
<1>2. QED BY TypeCorrect, DecisionInvariant, <1>1, PTL

-----------------------------------------------------------------------------
(* The host through the transaction.                                       *)

(* Where a Run is that has put nothing of the target on the host yet: with *)
(* no gate, under the gate, with the undo data of the units, and with that *)
(* of the typed state too; and where it is once the target is active.      *)
UngatedPlaces == {"IDLE", "StageGeneration", "GENERATION_STAGED", "STAGED",
                  "SignerPrepare"}
GatedPlaces == {"SIGNER_PREPARED", "AdapterPrepare"}
UnitsKeptPlaces == {"PLATFORM_PREPARED", "PREPARED", "QUIESCE_STARTED",
                    "Quiesce", "QUIESCED", "PrepareState"}
StateKeptPlaces == {"STATE_PREPARED", "MigratorPrepare", "MIGRATOR_PREPARED",
                    "MigratorActivate", "MIGRATOR_ACTIVATED",
                    "AdapterActivate"}
BeforePlaces == UngatedPlaces \cup GatedPlaces \cup UnitsKeptPlaces
                \cup StateKeptPlaces
ActivePlaces == {"PLATFORM_ACTIVATED", "SWITCHED", "MigratorVerify",
                 "MIGRATOR_VERIFIED", "SignerVerify", "SIGNER_VERIFIED",
                 "AdapterVerify", "PLUGIN_VERIFIED", "PLATFORM_VERIFIED",
                 "VERIFIED"}

BeforeActivation == sup = "STAGED" \/ frame.at \in BeforePlaces

(* From the activation to the supervisor's decision. *)
Active ==
    \/ frame.at \in ActivePlaces
    \/ /\ sup = "awaitRun"
       /\ frame.at = "return"
       /\ ~result.err
       /\ result.phase = "VERIFIED"
    \/ sup \in {"PREPARED", "SWITCHED"}

UndoKept == host.undoUnits # NoUndo /\ host.undoState # NoUndo
UndoGone == host.undoUnits = NoUndo /\ host.undoState = NoUndo

TargetRuns ==
    /\ host.services = Target
    /\ host.units = Target
    /\ host.state = Target

(* A step on record, or about to be recorded because its call succeeded. *)
Made(step) == step \in progress \/ frame.at = step

(* No later generation is on the host, and the undo data is an earlier's.  *)
Bounded ==
    /\ host.units <= Target
    /\ host.state <= Target
    /\ host.services <= Target
    /\ host.undoUnits < Target
    /\ host.undoState < Target
    /\ supJournal # Absent => tx.id > 0

(* The target is not on the host before its activation, nor was it undone. *)
Untouched ==
    BeforeActivation =>
        /\ Target \notin {host.units, host.state, host.services}
        /\ {"TARGET_STOPPED", "PLATFORM_RESTORED"} \cap progress = {}

(* What the calls of Run have left, by the time the next one is made. *)
Prepared ==
    /\ frame.at \in GatedPlaces \cup UnitsKeptPlaces \cup StateKeptPlaces =>
          host.gate = tx.id
    /\ frame.at \in UnitsKeptPlaces \cup StateKeptPlaces =>
          host.undoUnits # NoUndo
    /\ frame.at \in StateKeptPlaces => host.undoState # NoUndo
    /\ Active => host.gate = tx.id /\ UndoKept /\ TargetRuns

(* The commit goes on from there: it leaves the target alone, the gate to  *)
(* the signer's commit and the undo data to the manifest's.                *)
Switched ==
    supJournal \in PastDecision =>
        /\ TargetRuns
        /\ "MIGRATOR_COMMITTED" \notin progress => host.gate = tx.id
        /\ host.manifest # Target => UndoKept

(* The receipts of a commit are true, and in its order. *)
Receipts ==
    /\ Made("MIGRATOR_COMMITTED") => host.migration = "final"
    /\ Made("SIGNER_COMMITTED") =>
          host.gate # tx.id /\ "MIGRATOR_COMMITTED" \in progress
    /\ Made("PLATFORM_COMMITTED") =>
          host.current = Target /\ "SIGNER_COMMITTED" \in progress
    /\ (tx.id > 0 /\ host.manifest = Target) =>
          "PLATFORM_COMMITTED" \in progress /\ TargetRuns
    /\ Made("PLATFORM_FINALIZED") => host.manifest = Target /\ UndoGone

(* A commit calls a participant with its predecessors' receipts on record. *)
InTurn ==
    /\ frame.at = "SignerCommit" => "MIGRATOR_COMMITTED" \in progress
    /\ frame.at = "AdapterCommit" => "SIGNER_COMMITTED" \in progress
    /\ frame.at = "ManifestCommit" => "PLATFORM_COMMITTED" \in progress
    /\ frame.at \in {"Converge", "TERMINAL_CONVERGENCE_VERIFIED",
                    "Finalize"} =>
          "MANIFEST_COMMITTED" \in progress

(* The receipts of a rollback are true. *)
Undone ==
    /\ Made("TARGET_STOPPED") => host.services # Target
    /\ Made("PLATFORM_RESTORED") => host.units # Target

HInv ==
    /\ Bounded
    /\ Untouched
    /\ Prepared
    /\ Switched
    /\ Receipts
    /\ InTurn
    /\ Undone

-----------------------------------------------------------------------------
(* Run.                                                                    *)

(* Before the supervisor's decision no participant has committed. *)
LEMMA NothingCommitted ==
    ASSUME DInv, HInv, supJournal \in Undecided
    PROVE  /\ ~Decided
           /\ {"MIGRATOR_COMMITTED", "SIGNER_COMMITTED", "PLATFORM_COMMITTED",
               "PLATFORM_FINALIZED"} \cap progress = {}
           /\ tx.id > 0
BY DEF DInv, NeverBoth, HInv, Bounded, Receipts, Made, Decided, Undecided,
   Absent

(* What a call or a record of Run finds. *)
LEMMA RunFinds ==
    ASSUME IInv, DInv, HInv, frame.at \in RunPlaces
    PROVE  /\ sup = "awaitRun"
           /\ supJournal = "STAGED"
           /\ supJournal \in Undecided
           /\ ~Decided
           /\ tx.id > 0
BY NothingCommitted DEF IInv, InOrder, Belongs, Undecided

(* Receipts of commits are not Run's or a rollback's to change. *)
LEMMA ReceiptsStay ==
    ASSUME DInv, HInv, supJournal \in Undecided,
           tx' = tx,
           host'.manifest = host.manifest,
           progress' \subseteq progress \cup ForwardSteps \cup RollbackSteps,
           frame'.at \notin CommitCalls \cup CommitSteps
    PROVE  Receipts' /\ InTurn'
<1>1. /\ host.manifest # Target
      /\ {"MIGRATOR_COMMITTED", "SIGNER_COMMITTED", "PLATFORM_COMMITTED",
          "PLATFORM_FINALIZED"} \cap progress' = {}
  BY NothingCommitted DEF ForwardSteps, RollbackSteps, Decided
<1>2. QED
  BY <1>1 DEF Receipts, InTurn, Made, CommitCalls, CommitSteps, Target

(* A step of Run that is to go on keeps the invariant once what it made of *)
(* the host is known.                                                      *)
LEMMA RunGoes ==
    ASSUME IInv, DInv, HInv, frame.at \in RunPlaces,
           UNCHANGED <<tx, supJournal, sup>>,
           host'.manifest = host.manifest,
           progress' \subseteq progress \cup ForwardSteps,
           frame'.at \in RunPlaces \cup {"ROLLBACK_STARTED", "down", "return"},
           frame'.at \in BeforePlaces => frame.at \in BeforePlaces,
           frame'.at \in BeforePlaces =>
               Target \notin {host'.units, host'.state, host'.services},
           \/ frame.at \in BeforePlaces
           \/ UNCHANGED host,
           Bounded', Prepared'
    PROVE  HInv'
<1>1. sup = "awaitRun" /\ supJournal = "STAGED" /\ supJournal \in Undecided
  BY RunFinds
<1>2. frame'.at \notin CommitCalls \cup CommitSteps
                       \cup {"TARGET_STOPPED", "PLATFORM_RESTORED"}
  BY DEF RunPlaces, RunCalls, ForwardSteps, Pending, CommitCalls, CommitSteps
<1>3. Receipts' /\ InTurn'
  BY <1>1, <1>2, ReceiptsStay
<1>4. Switched'
  BY <1>1 DEF Switched, PastDecision
<1>6. \A step \in {"TARGET_STOPPED", "PLATFORM_RESTORED"} :
          step \in progress' => step \in progress
  BY DEF ForwardSteps
<1>7. Undone'
  BY <1>2, <1>6 DEF HInv, Undone, Untouched, BeforeActivation, Made, Target
<1>8. Untouched'
  BY <1>1, <1>6 DEF HInv, Untouched, BeforeActivation, Target
<1>9. QED BY <1>3, <1>4, <1>7, <1>8 DEF HInv

(* Run's participant calls. *)
LEMMA RunCallKeepsHost ==
    ASSUME TypeOK, IInv, DInv, HInv, UNCHANGED supVars,
           \/ SignerPrepare \/ AdapterPrepare \/ Quiesce \/ PrepareState
           \/ MigratorPrepare \/ MigratorActivate \/ AdapterActivate
           \/ MigratorVerify \/ SignerVerify \/ AdapterVerify
    PROVE  HInv'
<1> USE DEF UngatedPlaces, GatedPlaces, UnitsKeptPlaces, StateKeptPlaces,
        BeforePlaces, ActivePlaces
<1>host. host \in Host /\ tx.id \in Nat /\ Target = tx.id + 1
  BY DEF TypeOK, TargetTypeOK, Transactions, Target
<1>calls. /\ frame.at \in RunCalls
          /\ UNCHANGED <<tx, progress, result, supJournal, sup>>
  BY DEF SignerPrepare, AdapterPrepare, Quiesce, PrepareState,
         MigratorPrepare, MigratorActivate, AdapterActivate, MigratorVerify,
         SignerVerify, AdapterVerify, RunCall, RunCalls, Succeed, Fail,
         CrashDuring, supVars
<1>places. /\ RunCalls \subseteq RunPlaces
           /\ sup = "awaitRun"
           /\ frame.at \in RunPlaces
  BY <1>calls, RunFinds DEF RunPlaces
<1>stops. ASSUME frame'.at \in {"ROLLBACK_STARTED", "down"},
                 host' = host \/ frame.at \in BeforePlaces,
                 host'.manifest = host.manifest,
                 Bounded'
          PROVE  HInv'
  <2>1. frame'.at \notin RunPlaces
    BY <1>stops DEF RunPlaces, RunCalls, ForwardSteps, Pending
  <2>2. Prepared'
    BY <1>stops, <1>calls, <1>places DEF Prepared, Active
  <2>3. QED
    BY <1>stops, <1>calls, <1>places, <2>2, RunGoes
<1>signer. CASE SignerPrepare
  <2>1. /\ frame.at = "SignerPrepare"
        /\ \/ /\ frame'.at = "SIGNER_PREPARED"
              /\ host' = GateWritten
           \/ /\ frame'.at \in {"ROLLBACK_STARTED", "down"}
              /\ host' \in {host, GateWritten}
    BY <1>signer DEF SignerPrepare, RunCall, Succeed, Fail, CrashDuring, Left,
       Heedless, CutOff, GoTo, At, EnterRollback
  <2>2. /\ Bounded'
        /\ host'.manifest = host.manifest
        /\ UNCHANGED <<host.units, host.state, host.services>>
        /\ frame'.at = "SIGNER_PREPARED" => host'.gate = tx'.id
    BY <2>1, <1>host, <1>calls
       DEF HInv, Bounded, GateWritten, Host, Target
  <2>3. Prepared' \/ frame'.at \in {"ROLLBACK_STARTED", "down"}
    BY <2>1, <2>2, <1>places, <1>calls DEF Prepared, Active
  <2>4. Target \notin {host'.units, host'.state, host'.services}
    BY <2>1, <2>2 DEF HInv, Untouched, BeforeActivation
  <2>5. QED
    BY <2>1, <2>2, <2>3, <2>4, <1>stops, <1>calls, <1>places, RunGoes
       DEF RunPlaces, ForwardSteps
<1>units. CASE AdapterPrepare
  <2>1. /\ frame.at = "AdapterPrepare"
        /\ \/ /\ frame'.at = "PLATFORM_PREPARED"
              /\ host' = UnitsKept
           \/ /\ frame'.at \in {"ROLLBACK_STARTED", "down"}
              /\ host' \in {host, UnitsKept}
    BY <1>units DEF AdapterPrepare, RunCall, Succeed, Fail, CrashDuring, Left,
       Heedless, CutOff, GoTo, At, EnterRollback
  <2>2. Target \notin {host.units, host.state, host.services}
    BY <2>1 DEF HInv, Untouched, BeforeActivation
  <2>3. /\ Bounded'
        /\ host'.manifest = host.manifest
        /\ UNCHANGED <<host.gate, host.units, host.state, host.services>>
        /\ frame'.at = "PLATFORM_PREPARED" => host'.undoUnits # NoUndo
    BY <2>1, <2>2, <1>host, <1>calls
       DEF HInv, Bounded, UnitsKept, Host, Target, Generations, NoUndo
  <2>4. Prepared' \/ frame'.at \in {"ROLLBACK_STARTED", "down"}
    BY <2>1, <2>3, <1>places, <1>calls DEF Prepared, Active, HInv
  <2>5. QED
    BY <2>1, <2>2, <2>3, <2>4, <1>stops, <1>calls, <1>places, RunGoes
       DEF RunPlaces, ForwardSteps
<1>quiet. CASE Quiesce \/ MigratorPrepare \/ MigratorActivate
  <2>1. /\ \/ frame.at = "Quiesce" /\ frame'.at = "QUIESCED"
           \/ frame.at = "MigratorPrepare" /\ frame'.at = "MIGRATOR_PREPARED"
           \/ frame.at = "MigratorActivate" /\ frame'.at = "MIGRATOR_ACTIVATED"
           \/ /\ frame.at \in {"Quiesce", "MigratorPrepare",
                                "MigratorActivate"}
              /\ frame'.at \in {"ROLLBACK_STARTED", "down"}
        /\ host' \in {host, [host EXCEPT !.services = 0],
                      [host EXCEPT !.marker = TRUE],
                      [host EXCEPT !.migration = "target"]}
    BY <1>quiet, <1>host
       DEF Quiesce, MigratorPrepare, MigratorActivate, RunCall, Succeed, Fail,
           CrashDuring, Left, Heedless, CutOff, GoTo, At, EnterRollback, Host
  <2>2. Target \notin {host.units, host.state, host.services}
    BY <2>1 DEF HInv, Untouched, BeforeActivation
  <2>3. /\ Bounded'
        /\ UNCHANGED <<host.manifest, host.gate, host.units, host.state,
                       host.undoUnits, host.undoState>>
        /\ host'.services \in {host.services, 0}
    BY <2>1, <1>host, <1>calls DEF HInv, Bounded, Host, Target
  <2>4. Prepared'
    BY <2>1, <2>3, <1>places, <1>calls DEF Prepared, Active, HInv
  <2>5. Target \notin {host'.units, host'.state, host'.services}
    BY <2>2, <2>3, <1>host
  <2>6. QED
    BY <2>1, <2>3, <2>4, <2>5, <1>calls, <1>places, RunGoes
       DEF RunPlaces, ForwardSteps
<1>state. CASE PrepareState
  <2>1. /\ frame.at = "PrepareState"
        /\ \/ /\ frame'.at = "STATE_PREPARED"
              /\ host' = StateKept
           \/ /\ frame'.at \in {"ROLLBACK_STARTED", "down"}
              /\ host' \in {host, StateKept}
    BY <1>state DEF PrepareState, RunCall, Succeed, Fail, CrashDuring, Left,
       Heedless, CutOff, GoTo, At, EnterRollback
  <2>2. Target \notin {host.units, host.state, host.services}
    BY <2>1 DEF HInv, Untouched, BeforeActivation
  <2>3. /\ Bounded'
        /\ UNCHANGED <<host.manifest, host.gate, host.units, host.state,
                       host.services, host.undoUnits>>
        /\ frame'.at = "STATE_PREPARED" => host'.undoState # NoUndo
    BY <2>1, <2>2, <1>host, <1>calls
       DEF HInv, Bounded, StateKept, Host, Target, Generations, NoUndo
  <2>4. Prepared' \/ frame'.at \in {"ROLLBACK_STARTED", "down"}
    BY <2>1, <2>3, <1>places, <1>calls DEF Prepared, Active, HInv
  <2>5. QED
    BY <2>1, <2>2, <2>3, <2>4, <1>stops, <1>calls, <1>places, RunGoes
       DEF RunPlaces, ForwardSteps
<1>activate. CASE AdapterActivate
  <2> DEFINE Activated == [UnitsActivated EXCEPT !.services = Target]
  <2>1. /\ frame.at = "AdapterActivate"
        /\ \/ /\ frame'.at = "PLATFORM_ACTIVATED"
              /\ host' = Activated
           \/ /\ frame'.at \in {"ROLLBACK_STARTED", "down"}
              /\ host' \in {host, StateActivated, UnitsActivated, Activated}
    BY <1>activate DEF AdapterActivate, RunCall, Succeed, Fail, CrashDuring,
       Left, PartlyActivated, CutOff, GoTo, At, EnterRollback
  <2>2. /\ UNCHANGED <<host.manifest, host.gate, host.undoUnits,
                       host.undoState>>
        /\ host'.units \in {host.units, Target}
        /\ host'.state \in {host.state, Target}
        /\ host'.services \in {host.services, Target}
        /\ frame'.at = "PLATFORM_ACTIVATED" =>
              /\ host'.units = Target
              /\ host'.state = Target
              /\ host'.services = Target
    BY <2>1, <1>host DEF StateActivated, UnitsActivated, Host
  <2>3. Bounded'
    BY <2>2, <1>host, <1>calls DEF HInv, Bounded, Target
  <2>4. frame'.at = "PLATFORM_ACTIVATED" => TargetRuns'
    BY <2>2, <1>calls DEF TargetRuns, Target
  <2>5. Prepared' \/ frame'.at \in {"ROLLBACK_STARTED", "down"}
    BY <2>1, <2>2, <2>4, <1>places, <1>calls
       DEF Prepared, Active, HInv, UndoKept
  <2>6. QED
    BY <2>1, <2>2, <2>3, <2>5, <1>stops, <1>calls, <1>places, RunGoes
       DEF RunPlaces, ForwardSteps
<1>verify. CASE MigratorVerify \/ SignerVerify \/ AdapterVerify
  <2>1. /\ frame.at \in {"MigratorVerify", "SignerVerify", "AdapterVerify"}
        /\ frame'.at \in {"MIGRATOR_VERIFIED", "SIGNER_VERIFIED",
                          "PLUGIN_VERIFIED", "PLATFORM_VERIFIED",
                          "ROLLBACK_STARTED", "down"}
        /\ host' = host
    BY <1>verify DEF MigratorVerify, SignerVerify, AdapterVerify, RunCall,
       Succeed, Fail, CrashDuring, Left, Heedless, CutOff, GoTo, At,
       EnterRollback
  <2>2. Bounded'
    BY <2>1, <1>calls DEF HInv, Bounded, Target
  <2>3. Prepared'
    BY <2>1, <1>places, <1>calls
       DEF Prepared, Active, HInv, UndoKept, TargetRuns, Target
  <2>4. QED
    BY <2>1, <2>2, <2>3, <1>calls, <1>places, RunGoes
       DEF RunPlaces, ForwardSteps
<1>last. QED
  BY <1>signer, <1>units, <1>quiet, <1>state, <1>activate, <1>verify

(* Run's appends and journal writes leave the host alone and go on to the  *)
(* next place, to a rollback or to an error.                               *)
LEMMA RunRecordKeepsHost ==
    ASSUME TypeOK, IInv, DInv, HInv, UNCHANGED supVars, RunStep,
           frame.at \notin RunCalls \ {"StageGeneration"}
    PROVE  HInv'
<1> USE DEF UngatedPlaces, GatedPlaces, UnitsKeptPlaces, StateKeptPlaces,
        BeforePlaces, ActivePlaces
<1>1. /\ frame.at \in RunPlaces
      /\ UNCHANGED <<tx, host, supJournal, sup>>
      /\ progress' \subseteq progress \cup ForwardSteps
      /\ \/ frame'.at \in {"ROLLBACK_STARTED", "down"}
         \/ frame'.at = "return" /\ (result'.err \/ frame.at = "VERIFIED")
         \/ /\ frame.at \in UngatedPlaces
            /\ frame'.at \in UngatedPlaces
         \/ /\ frame.at \in GatedPlaces
            /\ frame'.at \in GatedPlaces
         \/ /\ frame.at \in UnitsKeptPlaces
            /\ frame'.at \in UnitsKeptPlaces
         \/ /\ frame.at \in StateKeptPlaces
            /\ frame'.at \in StateKeptPlaces
         \/ /\ frame.at \in ActivePlaces
            /\ frame'.at \in ActivePlaces
  <2>1. CASE WriteIdle \/ WriteStaged \/ WritePrepared \/ WriteSwitched
             \/ WriteVerified \/ StageGeneration
    BY <2>1 DEF supVars, WriteIdle, WriteStaged, WritePrepared, WriteSwitched,
       WriteVerified, StageGeneration, RunAdvance, GoTo, Return, At,
       RunPlaces, RunCalls, Pending
  <2>2. CASE RecordGenerationStaged
    BY <2>2 DEF supVars, RecordGenerationStaged, Append, AppendFails, GoTo,
       Return, At, RunPlaces, ForwardSteps
  <2>3. CASE \/ RecordSignerPrepared \/ RecordPlatformPrepared
             \/ RecordQuiesceStarted \/ RecordQuiesced \/ RecordStatePrepared
             \/ RecordMigratorPrepared \/ RecordMigratorActivated
             \/ RecordPlatformActivated \/ RecordMigratorVerified
             \/ RecordSignerVerified \/ RecordPluginVerified
             \/ RecordPlatformVerified
    <3>1. ASSUME NEW step \in ForwardSteps, NEW next, NEW restore,
                 RunRecord(step, next, restore)
          PROVE  /\ frame.at = step
                 /\ UNCHANGED <<tx, host>>
                 /\ progress' \subseteq progress \cup ForwardSteps
                 /\ frame'.at \in {next, "ROLLBACK_STARTED"}
      BY <3>1 DEF RunRecord, Append, AppendFails, GoTo, At, EnterRollback
    <3>2. QED
      BY <2>3, <3>1
         DEF supVars, RecordSignerPrepared, RecordPlatformPrepared,
             RecordQuiesceStarted, RecordQuiesced, RecordStatePrepared,
             RecordMigratorPrepared, RecordMigratorActivated,
             RecordPlatformActivated, RecordMigratorVerified,
             RecordSignerVerified, RecordPluginVerified,
             RecordPlatformVerified, RunPlaces, ForwardSteps
  <2>4. ~(\/ SignerPrepare \/ AdapterPrepare \/ Quiesce \/ PrepareState
          \/ MigratorPrepare \/ MigratorActivate \/ AdapterActivate
          \/ MigratorVerify \/ SignerVerify \/ AdapterVerify)
    BY DEF SignerPrepare, AdapterPrepare, Quiesce, PrepareState,
       MigratorPrepare, MigratorActivate, AdapterActivate, MigratorVerify,
       SignerVerify, AdapterVerify, RunCall, RunCalls
  <2>5. QED BY <2>1, <2>2, <2>3, <2>4 DEF RunStep
<1>2. Bounded'
  BY <1>1 DEF HInv, Bounded, Target
<1>3. sup = "awaitRun"
  BY <1>1, RunFinds
<1>4. /\ TargetRuns => TargetRuns'
      /\ UndoKept => UndoKept'
  BY <1>1 DEF TargetRuns, UndoKept, Target
<1>5. Prepared'
  BY <1>1, <1>3, <1>4 DEF HInv, Prepared, Active
<1>6. Target \notin {host.units, host.state, host.services}
      \/ frame.at \notin BeforePlaces
  BY DEF HInv, Untouched, BeforeActivation
<1>7. QED
  BY <1>1, <1>2, <1>5, <1>6, RunGoes
     DEF RunPlaces, ForwardSteps, RunCalls, Pending

(* Run keeps the invariant. *)
LEMMA RunKeepsHost ==
    ASSUME TypeOK, IInv, DInv, HInv, UNCHANGED supVars, RunStep
    PROVE  HInv'
<1>1. CASE frame.at \in RunCalls \ {"StageGeneration"}
  <2>1. ~(\/ WriteIdle \/ WriteStaged \/ WritePrepared \/ WriteSwitched
          \/ WriteVerified \/ StageGeneration \/ RecordGenerationStaged
          \/ RecordSignerPrepared \/ RecordPlatformPrepared
          \/ RecordQuiesceStarted \/ RecordQuiesced \/ RecordStatePrepared
          \/ RecordMigratorPrepared \/ RecordMigratorActivated
          \/ RecordPlatformActivated \/ RecordMigratorVerified
          \/ RecordSignerVerified \/ RecordPluginVerified
          \/ RecordPlatformVerified)
    BY <1>1
       DEF WriteIdle, WriteStaged, WritePrepared, WriteSwitched,
           WriteVerified, StageGeneration, RecordGenerationStaged,
           RecordSignerPrepared, RecordPlatformPrepared,
           RecordQuiesceStarted, RecordQuiesced, RecordStatePrepared,
           RecordMigratorPrepared, RecordMigratorActivated,
           RecordPlatformActivated, RecordMigratorVerified,
           RecordSignerVerified, RecordPluginVerified,
           RecordPlatformVerified, RunAdvance, RunRecord, RunCalls
  <2>2. QED BY <2>1, RunCallKeepsHost DEF RunStep
<1>2. CASE frame.at \notin RunCalls \ {"StageGeneration"}
  BY <1>2, RunRecordKeepsHost
<1>3. QED BY <1>1, <1>2

-----------------------------------------------------------------------------
(* Commit.                                                                 *)

(* What a call or a record of commit finds. *)
LEMMA CommitFinds ==
    ASSUME IInv, HInv, frame.at \in CommitPlaces \cup {"Commit"}
    PROVE  /\ sup \in {"awaitCommit", "awaitRecover"}
           /\ supJournal = "SWITCHED"
           /\ supJournal \in PastDecision
           /\ tx.id > 0
           /\ TargetRuns
BY DEF IInv, InOrder, Belongs, HInv, Bounded, Switched, PastDecision, Absent

(* A step of commit keeps the invariant once its receipts are known to     *)
(* be true, the gate to be there before the signer's commit and the undo   *)
(* data before the manifest's.                                             *)
LEMMA CommitGoes ==
    ASSUME TypeOK, IInv, HInv, frame.at \in CommitPlaces \cup {"Commit"},
           UNCHANGED <<tx, supJournal, sup, host.units, host.state,
                       host.services>>,
           progress \subseteq progress',
           progress' \subseteq progress \cup CommitSteps,
           frame'.at \in CommitPlaces \cup {"return", "down"},
           "MIGRATOR_COMMITTED" \notin progress' => host'.gate = host.gate,
           host'.manifest # Target =>
              UNCHANGED <<host.undoUnits, host.undoState, host.manifest>>,
           host'.undoUnits \in {host.undoUnits, NoUndo},
           host'.undoState \in {host.undoState, NoUndo},
           Receipts', InTurn'
    PROVE  HInv'
<1>0. /\ sup \in {"awaitCommit", "awaitRecover"}
      /\ supJournal = "SWITCHED"
      /\ TargetRuns
      /\ tx.id > 0
  BY CommitFinds
<1>1. frame'.at \notin BeforePlaces \cup ActivePlaces
                       \cup {"TARGET_STOPPED", "PLATFORM_RESTORED"}
  BY DEF BeforePlaces, UngatedPlaces, GatedPlaces, UnitsKeptPlaces,
     StateKeptPlaces, ActivePlaces, CommitPlaces, CommitCalls, CommitSteps
<1>2. Untouched' /\ Prepared'
  BY <1>0, <1>1
     DEF Untouched, BeforeActivation, Prepared, Active, GatedPlaces,
         UnitsKeptPlaces, StateKeptPlaces, BeforePlaces
<1>3. \A step \in {"TARGET_STOPPED", "PLATFORM_RESTORED"} :
         step \in progress' => step \in progress
  BY DEF CommitSteps
<1>4. Undone'
  BY <1>1, <1>3 DEF HInv, Undone, Made, Target
<1>5. Switched'
  BY <1>0 DEF HInv, Switched, TargetRuns, UndoKept, PastDecision, Target
<1>6. Bounded'
  BY <1>0 DEF HInv, Bounded, Target, NoUndo, TypeOK, TargetTypeOK, Transactions
<1>7. QED BY <1>2, <1>4, <1>5, <1>6 DEF HInv

(* Commit's participant calls. *)
LEMMA CommitCallKeepsHost ==
    ASSUME TypeOK, IInv, HInv, UNCHANGED supVars,
           \/ MigratorCommit \/ SignerCommit \/ AdapterCommit
           \/ ManifestCommit \/ Converge \/ Finalize
    PROVE  HInv'
<1> USE DEF CommitCalls, CommitSteps
<1>host. host \in Host /\ tx.id \in Nat /\ Target = tx.id + 1
  BY DEF TypeOK, TargetTypeOK, Transactions, Target
<1>calls. /\ frame.at \in CommitCalls
          /\ UNCHANGED <<tx, progress, supJournal, sup>>
  BY DEF MigratorCommit, SignerCommit, AdapterCommit, ManifestCommit,
         Converge, Finalize, CommitCall, supVars
<1>finds. /\ frame.at \in CommitPlaces
          /\ tx.id > 0
          /\ TargetRuns
  BY <1>calls, CommitFinds DEF CommitPlaces
<1>migrator. CASE MigratorCommit
  <2>1. /\ frame.at = "MigratorCommit"
        /\ \/ /\ "MIGRATOR_COMMITTED" \in progress
              /\ frame'.at = "SignerCommit"
              /\ host' = host
           \/ frame'.at = "MIGRATOR_COMMITTED" /\ host' = MigratorCommitted
           \/ /\ frame'.at \in {"return", "down"}
              /\ host' \in {host, MigratorCommitted} \cup PartlyCommitted
    BY <1>migrator DEF MigratorCommit, CommitCall, Succeed, Fail, CrashDuring,
       Left, Heedless, CutOff, GoTo, At, Return
  <2>2. /\ UNCHANGED <<host.units, host.state, host.services, host.gate,
                       host.current, host.manifest, host.undoUnits,
                       host.undoState>>
        /\ host'.migration \in {host.migration, "final"}
        /\ frame'.at = "MIGRATOR_COMMITTED" => host'.migration = "final"
    BY <2>1, <1>host DEF MigratorCommitted, PartlyCommitted, Host
  <2>3. Receipts' /\ InTurn'
    BY <2>1, <2>2, <1>calls
       DEF HInv, Receipts, InTurn, Made, UndoGone, TargetRuns, Target
  <2>4. QED
    BY <2>1, <2>2, <2>3, <1>calls, <1>finds, CommitGoes DEF CommitPlaces
<1>signer. CASE SignerCommit
  <2>1. /\ frame.at = "SignerCommit"
        /\ \/ /\ "SIGNER_COMMITTED" \in progress
              /\ frame'.at = "AdapterCommit"
              /\ host' = host
           \/ frame'.at = "SIGNER_COMMITTED" /\ host' = GateRemoved /\ GateOurs
           \/ /\ frame'.at \in {"return", "down"}
              /\ host' \in {host, GateRemoved}
    BY <1>signer DEF SignerCommit, CommitCall, Succeed, Fail, CrashDuring,
       Left, Heedless, CutOff, GoTo, At, Return
  <2>2. /\ UNCHANGED <<host.units, host.state, host.services, host.migration,
                       host.current, host.manifest, host.undoUnits,
                       host.undoState>>
        /\ host'.gate \in {host.gate, 0}
        /\ frame'.at = "SIGNER_COMMITTED" => host'.gate # tx.id
    BY <2>1, <1>host, <1>finds DEF GateRemoved, GateOurs, Host
  <2>3. "MIGRATOR_COMMITTED" \in progress
    BY <2>1 DEF HInv, InTurn
  <2>4. Receipts' /\ InTurn'
    BY <2>1, <2>2, <2>3, <1>calls, <1>finds
       DEF HInv, Receipts, InTurn, Made, UndoGone, TargetRuns, Target
  <2>5. QED
    BY <2>1, <2>2, <2>3, <2>4, <1>calls, <1>finds, CommitGoes DEF CommitPlaces
<1>adapter. CASE AdapterCommit
  <2>1. /\ frame.at = "AdapterCommit"
        /\ \/ /\ "PLATFORM_COMMITTED" \in progress
              /\ frame'.at = "ManifestCommit"
              /\ host' = host
           \/ /\ frame'.at = "PLATFORM_COMMITTED"
              /\ host' = [host EXCEPT !.current = Target]
           \/ /\ frame'.at \in {"return", "down"}
              /\ host' \in {host, [host EXCEPT !.current = Target]}
    BY <1>adapter DEF AdapterCommit, CommitCall, Succeed, Fail, CrashDuring,
       Left, Heedless, CutOff, GoTo, At, Return
  <2>2. /\ UNCHANGED <<host.units, host.state, host.services, host.migration,
                       host.gate, host.manifest, host.undoUnits,
                       host.undoState>>
        /\ host'.current \in {host.current, Target}
        /\ frame'.at = "PLATFORM_COMMITTED" => host'.current = Target
    BY <2>1, <1>host DEF Host
  <2>3. Receipts' /\ InTurn'
    BY <2>1, <2>2, <1>calls
       DEF HInv, Receipts, InTurn, Made, UndoGone, TargetRuns, Target
  <2>4. QED
    BY <2>1, <2>2, <2>3, <1>calls, <1>finds, CommitGoes DEF CommitPlaces
<1>manifest. CASE ManifestCommit
  <2>1. /\ frame.at = "ManifestCommit"
        /\ \/ /\ "MANIFEST_COMMITTED" \in progress
              /\ frame'.at = "Converge"
              /\ host' = host
           \/ /\ frame'.at \in {"MANIFEST_COMMITTED", "return", "down"}
              /\ host' \in {host, [host EXCEPT !.manifest = Target]}
    BY <1>manifest DEF ManifestCommit, CommitCall, Succeed, Fail, CrashDuring,
       Left, Heedless, CutOff, GoTo, At, Return
  <2>2. /\ UNCHANGED <<host.units, host.state, host.services, host.migration,
                       host.gate, host.current, host.undoUnits,
                       host.undoState>>
        /\ host'.manifest \in {host.manifest, Target}
    BY <2>1, <1>host DEF Host
  <2>3. "PLATFORM_COMMITTED" \in progress
    BY <2>1 DEF HInv, InTurn
  <2>4. Receipts' /\ InTurn'
    BY <2>1, <2>2, <2>3, <1>calls, <1>finds
       DEF HInv, Receipts, InTurn, Made, UndoGone, TargetRuns, Target
  <2>5. QED
    BY <2>1, <2>2, <2>4, <1>calls, <1>finds, CommitGoes DEF CommitPlaces
<1>converge. CASE Converge
  <2>1. /\ frame.at = "Converge"
        /\ frame'.at \in {"TERMINAL_CONVERGENCE_VERIFIED", "Finalize",
                          "return", "down"}
        /\ host' = host
    BY <1>converge DEF Converge, CommitCall, Succeed, Fail, CrashDuring,
       Left, Heedless, CutOff, GoTo, At, Return
  <2>2. Receipts' /\ InTurn'
    BY <2>1, <1>calls
       DEF HInv, Receipts, InTurn, Made, UndoGone, TargetRuns, Target
  <2>3. QED
    BY <2>1, <2>2, <1>calls, <1>finds, CommitGoes DEF CommitPlaces
<1>finalize. CASE Finalize
  <2>1. /\ frame.at = "Finalize"
        /\ \/ /\ "PLATFORM_FINALIZED" \in progress
              /\ frame'.at = "COMMITTED"
              /\ host' = host
           \/ frame'.at = "PLATFORM_FINALIZED" /\ host' = UndoDropped
           \/ /\ frame'.at \in {"return", "down"}
              /\ host' \in {host, UndoDropped} \cup UndoPartlyDropped
    BY <1>finalize DEF Finalize, CommitCall, Succeed, Fail, CrashDuring,
       Left, Heedless, CutOff, GoTo, At, Return
  <2>2. /\ UNCHANGED <<host.units, host.state, host.services, host.migration,
                       host.gate, host.current, host.manifest>>
        /\ host'.undoUnits \in {host.undoUnits, NoUndo}
        /\ host'.undoState \in {host.undoState, NoUndo}
        /\ frame'.at = "PLATFORM_FINALIZED" =>
              host'.undoUnits = NoUndo /\ host'.undoState = NoUndo
    BY <2>1, <1>host DEF UndoDropped, UndoPartlyDropped, Host
  <2>3. host.manifest = Target
    BY <2>1 DEF HInv, InTurn, IInv, Installed
  <2>4. Receipts' /\ InTurn'
    BY <2>1, <2>2, <2>3, <1>calls, <1>finds
       DEF HInv, Receipts, InTurn, Made, UndoGone, TargetRuns, Target
  <2>5. QED
    BY <2>1, <2>2, <2>3, <2>4, <1>calls, <1>finds, CommitGoes
       DEF CommitPlaces, Target
<1>last. QED
  BY <1>migrator, <1>signer, <1>adapter, <1>manifest, <1>converge, <1>finalize

(* Commit keeps the invariant. *)
LEMMA CommitKeepsHost ==
    ASSUME TypeOK, IInv, HInv, UNCHANGED supVars, CommitStep
    PROVE  HInv'
<1> USE DEF CommitCalls, CommitSteps
<1>calls. CASE \/ MigratorCommit \/ SignerCommit \/ AdapterCommit
               \/ ManifestCommit \/ Converge \/ Finalize
  BY <1>calls, CommitCallKeepsHost
<1>entry. CASE CommitEntry \/ WriteCommitted
  <2>1. /\ frame.at \in {"Commit", "COMMITTED"}
        /\ frame'.at \in {"MigratorCommit", "return"}
        /\ UNCHANGED <<tx, progress, host, supJournal, sup>>
    BY <1>entry DEF CommitEntry, WriteCommitted, ReturnCommitted, GoTo,
       Return, At, supVars
  <2>2. Receipts' /\ InTurn'
    BY <2>1 DEF HInv, Receipts, InTurn, Made, UndoGone, TargetRuns, Target
  <2>3. QED BY <2>1, <2>2, CommitGoes DEF CommitPlaces
<1>records. CASE \/ RecordMigratorCommitted \/ RecordSignerCommitted
                 \/ RecordPlatformCommitted \/ RecordManifestCommitted
                 \/ RecordConverged \/ RecordFinalized
  <2>1. ASSUME NEW step \in CommitSteps, NEW next, CommitRecord(step, next)
        PROVE  /\ frame.at = step
               /\ UNCHANGED <<tx, host>>
               /\ progress \subseteq progress'
               /\ progress' \subseteq progress \cup {step}
               /\ \/ frame'.at = next /\ step \in progress'
                  \/ frame'.at = "return"
    BY <2>1 DEF CommitRecord, Append, AppendFails, GoTo, At, Return
  <2>2. PICK step \in CommitSteps, next \in CommitCalls \cup {"COMMITTED"} :
           /\ frame.at = step
           /\ UNCHANGED <<tx, host, supJournal, sup>>
           /\ progress \subseteq progress'
           /\ progress' \subseteq progress \cup {step}
           /\ \/ frame'.at = next /\ step \in progress'
              \/ frame'.at = "return"
           /\ <<step, next>> \in {<<"MIGRATOR_COMMITTED", "SignerCommit">>,
                 <<"SIGNER_COMMITTED", "AdapterCommit">>,
                 <<"PLATFORM_COMMITTED", "ManifestCommit">>,
                 <<"MANIFEST_COMMITTED", "Converge">>,
                 <<"TERMINAL_CONVERGENCE_VERIFIED", "Finalize">>,
                 <<"PLATFORM_FINALIZED", "COMMITTED">>}
    BY <1>records, <2>1
       DEF RecordMigratorCommitted, RecordSignerCommitted,
           RecordPlatformCommitted, RecordManifestCommitted, RecordConverged,
           RecordFinalized, supVars
  <2>3. Receipts'
    BY <2>2 DEF HInv, Receipts, Made, UndoGone, TargetRuns, Target
  <2>4. InTurn'
    BY <2>2 DEF HInv, InTurn
  <2>5. QED BY <2>2, <2>3, <2>4, CommitGoes DEF CommitPlaces
<1>split. QED
  BY <1>calls, <1>entry, <1>records DEF CommitStep

-----------------------------------------------------------------------------
(* Rollback.                                                               *)

(* A rollback keeps the invariant once its own receipts are known to be    *)
(* true: it serves a supervisor that has not decided, and no Run goes on.  *)
LEMMA RollbackGoes ==
    ASSUME TypeOK, IInv, DInv, HInv, RollbackStep,
           frame.at \in RollbackPlaces,
           UNCHANGED <<tx, supJournal, sup>>,
           progress' \subseteq progress \cup RollbackSteps,
           frame'.at \in RollbackPlaces \cup {"return", "down"},
           Bounded', Undone'
    PROVE  HInv'
<1>1. /\ sup \in {"awaitRun", "awaitAbort"}
      /\ supJournal \in Undecided
      /\ supJournal \notin PastDecision
  BY DEF IInv, InOrder, Belongs, Undecided, PastDecision
<1>2. frame'.at \notin BeforePlaces \cup ActivePlaces \cup CommitCalls
                       \cup CommitSteps
  BY DEF BeforePlaces, UngatedPlaces, GatedPlaces, UnitsKeptPlaces,
     StateKeptPlaces, ActivePlaces, CommitCalls, CommitSteps, RollbackPlaces,
     RollbackCalls, RollbackSteps
<1>3. host'.manifest = host.manifest /\ ~(RunGoesWell' /\ sup = "awaitRun")
  BY RollbackKeepsManifest, RollbackDecidesNothing
<1>4. Receipts' /\ InTurn'
  BY <1>1, <1>2, <1>3, ReceiptsStay
<1>5. Untouched' /\ Prepared' /\ Switched'
  BY <1>1, <1>2, <1>3
     DEF Untouched, BeforeActivation, Prepared, Active, RunGoesWell, Switched,
         BeforePlaces
<1>6. QED BY <1>4, <1>5 DEF HInv

(* Rollback keeps the invariant. *)
LEMMA RollbackKeepsHost ==
    ASSUME TypeOK, IInv, DInv, HInv, UNCHANGED supVars, RollbackStep
    PROVE  HInv'
<1> USE DEF RollbackCalls, RollbackSteps, RollbackPlaces
<1>host. /\ host \in Host
         /\ frame \in Frames
         /\ tx.id \in Nat
         /\ Target = tx.id + 1
         /\ UNCHANGED <<supJournal, sup>>
  BY DEF TypeOK, TargetTypeOK, Transactions, Target, supVars
<1>at. DOMAIN frame = {"at", "restore", "failed"}
  BY <1>host DEF Frames
<1>stop. CASE StopTarget
  <2>1. /\ \/ /\ frame' = [frame EXCEPT !.at = "TARGET_STOPPED"]
              /\ host' = [host EXCEPT !.services = 0]
           \/ /\ \/ frame' = [frame EXCEPT !.at = "SignerAbort"]
                 \/ frame' = [frame EXCEPT !.at = "SignerAbort",
                                           !.failed = TRUE]
                 \/ frame' = At("down")
              /\ host' \in {host, [host EXCEPT !.services = 0]}
    BY <1>stop
       DEF StopTarget, RollbackCall, Succeed, Fail, CrashDuring, Left, CutOff,
           GoTo
  <2>2. /\ \/ /\ frame'.at \in {"TARGET_STOPPED", "down"}
              /\ host' = [host EXCEPT !.services = 0]
           \/ frame'.at \in {"SignerAbort", "down"}
        /\ host' \in {host, [host EXCEPT !.services = 0]}
    <3>1. ASSUME frame' = [frame EXCEPT !.at = "TARGET_STOPPED"]
          PROVE  frame'.at \in {"TARGET_STOPPED", "down"}
      BY <3>1, <1>host, RollbackGoesOn
    <3>2. ASSUME \/ frame' = [frame EXCEPT !.at = "SignerAbort"]
                 \/ frame' = [frame EXCEPT !.at = "SignerAbort",
                                           !.failed = TRUE]
                 \/ frame' = At("down")
          PROVE  frame'.at \in {"SignerAbort", "down"}
      BY <3>2, <1>host, RollbackGoesOn
    <3>3. QED BY <2>1, <3>1, <3>2
  <2>3. /\ UNCHANGED <<host.units, host.state, host.undoUnits,
                       host.undoState>>
        /\ host'.services \in {host.services, 0}
        /\ frame'.at = "TARGET_STOPPED" => host'.services = 0
        /\ frame'.at # "PLATFORM_RESTORED"
    BY <2>2, <1>host DEF Host
  <2>4. UNCHANGED <<tx, progress>> /\ frame.at \in RollbackCalls
    BY <1>stop, RollbackCallGoes
  <2>5. Bounded'
    BY <2>3, <2>4, <1>host DEF HInv, Bounded, Target
  <2>6. Undone'
    BY <2>3, <2>4, <1>host DEF HInv, Undone, Made, Target
  <2>7. QED BY <2>2, <2>4, <2>5, <2>6, <1>host, RollbackGoes
<1>drops. CASE SignerAbort \/ MigratorAbort \/ Discard
  <2>1. host' \in {host, GateRemoved, MigratorAborted, UndoDropped}
                  \cup UndoPartlyDropped
    BY <1>drops
       DEF SignerAbort, MigratorAbort, Discard, RollbackCall, Succeed, Fail,
           CrashDuring, Left, Heedless, CutOff
  <2>2. /\ UNCHANGED <<host.units, host.state, host.services>>
        /\ host'.undoUnits \in {host.undoUnits, NoUndo}
        /\ host'.undoState \in {host.undoState, NoUndo}
    BY <2>1, <1>host
       DEF GateRemoved, MigratorAborted, UndoDropped, UndoPartlyDropped, Host
  <2>3. \E place \in RollbackCalls \cup {"SIGNER_ABORTED", "MIGRATOR_ABORTED",
                      "PLATFORM_DISCARDED", "ROLLBACK_COMPLETED"} :
           \/ frame' = [frame EXCEPT !.at = place]
           \/ frame' = [frame EXCEPT !.at = place, !.failed = TRUE]
           \/ frame' = At("down")
    BY <1>drops
       DEF SignerAbort, MigratorAbort, Discard, RollbackCall, CrashDuring, GoTo
  <2>4. /\ frame'.at \in RollbackPlaces \cup {"down"}
        /\ frame'.at \notin {"TARGET_STOPPED", "PLATFORM_RESTORED"}
    <3>1. PICK place \in RollbackCalls \cup {"SIGNER_ABORTED",
                      "MIGRATOR_ABORTED", "PLATFORM_DISCARDED",
                      "ROLLBACK_COMPLETED"} :
             \/ frame' = [frame EXCEPT !.at = place]
             \/ frame' = [frame EXCEPT !.at = place, !.failed = TRUE]
             \/ frame' = At("down")
      BY <2>3
    <3>2. frame'.at \in {place, "down"}
      BY <3>1, <1>host, RollbackGoesOn
    <3>3. QED BY <3>1, <3>2
  <2>5. UNCHANGED <<tx, progress>> /\ frame.at \in RollbackCalls
    BY <1>drops, RollbackCallGoes
  <2>6. Bounded'
    BY <2>2, <2>5, <1>host DEF HInv, Bounded, Target, NoUndo
  <2>7. Undone'
    BY <2>2, <2>4, <2>5 DEF HInv, Undone, Made, Target
  <2>8. QED BY <2>4, <2>5, <2>6, <2>7, <1>host, RollbackGoes
<1>restore. CASE Restore
  <2>1. /\ \/ /\ frame' = [frame EXCEPT !.at = "PLATFORM_RESTORED"]
              /\ host' = HostRestored
           \/ frame' = [frame EXCEPT !.at = "Discard"]
           \/ frame' = [frame EXCEPT !.at = "Discard", !.failed = TRUE]
           \/ frame' = At("down")
        /\ host' \in {host, StateRestored, UnitsRestored, HostRestored}
    BY <1>restore
       DEF Restore, RollbackCall, Succeed, Fail, CrashDuring, Left, CutOff,
           GoTo
  <2>2. \/ /\ frame'.at \in {"PLATFORM_RESTORED", "down"}
           /\ host' = HostRestored
        \/ frame'.at \in {"Discard", "down"}
    <3>1. ASSUME frame' = [frame EXCEPT !.at = "PLATFORM_RESTORED"]
          PROVE  frame'.at \in {"PLATFORM_RESTORED", "down"}
      BY <3>1, <1>host, RollbackGoesOn
    <3>2. ASSUME \/ frame' = [frame EXCEPT !.at = "Discard"]
                 \/ frame' = [frame EXCEPT !.at = "Discard",
                                           !.failed = TRUE]
                 \/ frame' = At("down")
          PROVE  frame'.at \in {"Discard", "down"}
      BY <3>2, <1>host, RollbackGoesOn
    <3>3. QED BY <2>1, <3>1, <3>2
  <2>3. /\ UNCHANGED <<host.undoUnits, host.undoState>>
        /\ host'.units \in {host.units, host.undoUnits}
        /\ host'.state \in {host.state, host.undoState}
        /\ host'.services \in {host.services, host.undoUnits}
        /\ host' = HostRestored => host'.units = host.undoUnits
    <3>1. PICK kept : kept = StateRestored
      OBVIOUS
    <3>2. /\ DOMAIN kept = DOMAIN host
          /\ kept.units = host.units
          /\ kept.services = host.services
          /\ kept.undoUnits = host.undoUnits
          /\ kept.undoState = host.undoState
          /\ kept.state \in {host.state, host.undoState}
      BY <3>1, <1>host DEF StateRestored, Host
    <3>3. DOMAIN host = {"gate", "services", "units", "state", "marker",
                         "migration", "undoUnits", "undoState", "current",
                         "manifest"}
      BY <1>host DEF Host
    <3>4. PICK moved : moved = [kept EXCEPT !.units = host.undoUnits]
      OBVIOUS
    <3>5. /\ DOMAIN moved = DOMAIN host
          /\ moved.units = host.undoUnits
          /\ moved.services = host.services
          /\ moved.undoUnits = host.undoUnits
          /\ moved.undoState = host.undoState
          /\ moved.state = kept.state
      BY <3>2, <3>3, <3>4
    <3>6. moved = UnitsRestored
      BY <3>1, <3>4 DEF UnitsRestored
    <3>7. PICK services \in {host.services, host.undoUnits} :
             HostRestored = [moved EXCEPT !.services = services]
      BY <3>5, <3>6 DEF HostRestored
    <3>8. QED BY <2>1, <3>1, <3>2, <3>3, <3>5, <3>6, <3>7
  <2>4. UNCHANGED <<tx, progress>> /\ frame.at \in RollbackCalls
    BY <1>restore, RollbackCallGoes
  <2>5. /\ Target = tx.id + 1
        /\ host.undoUnits \in Int
        /\ host.undoState \in Int
    BY <1>host DEF Host, Generations, NoUndo
  <2>6. Bounded'
    BY <2>3, <2>4, <2>5, <1>host DEF HInv, Bounded, Target
  <2>7. Undone'
    BY <2>2, <2>3, <2>4, <2>5, <1>host DEF HInv, Undone, Made, Bounded, Target
  <2>8. QED BY <2>2, <2>4, <2>6, <2>7, <1>host, RollbackGoes
<1>records. CASE \/ RecordRollbackStarted \/ RecordTargetStopped
                 \/ RecordSignerAborted \/ RecordMigratorAborted
                 \/ RecordPlatformRestored \/ RecordPlatformDiscarded
                 \/ RecordRollbackCompleted \/ WriteRolledBack
  <2>1. ASSUME NEW step \in RollbackSteps, NEW next,
               RollbackRecord(step, next)
        PROVE  /\ frame.at = step
               /\ UNCHANGED <<tx, host>>
               /\ progress' \subseteq progress \cup {step}
               /\ frame'.at = next
    BY <2>1, <1>at DEF RollbackRecord, Append, AppendFails
  <2>2. /\ frame.at \in RollbackPlaces
        /\ UNCHANGED <<tx, host>>
        /\ progress' \subseteq progress \cup RollbackSteps
        /\ \A step \in {"TARGET_STOPPED", "PLATFORM_RESTORED"} :
              step \in progress' => step \in progress \/ frame.at = step
        /\ frame'.at \in RollbackPlaces \cup {"return"}
        /\ frame'.at \notin {"TARGET_STOPPED", "PLATFORM_RESTORED"}
    <3>1. CASE \/ RecordTargetStopped \/ RecordSignerAborted
               \/ RecordMigratorAborted \/ RecordPlatformRestored
               \/ RecordPlatformDiscarded
      <4>1. PICK step \in RollbackSteps,
                 next \in {"SignerAbort", "MigratorAbort", "Restore",
                           "Discard", "ROLLBACK_COMPLETED"} :
               RollbackRecord(step, next)
        BY <3>1
           DEF RecordTargetStopped, RecordSignerAborted,
               RecordMigratorAborted, RecordPlatformRestored,
               RecordPlatformDiscarded
      <4>2. QED BY <4>1, <2>1
    <3>2. CASE RecordRollbackStarted
      <4>1. CASE RollbackRecord("ROLLBACK_STARTED", "StopTarget")
        BY <4>1, <2>1
      <4>2. CASE /\ frame.at = "ROLLBACK_STARTED"
                 /\ frame' = [frame EXCEPT !.at = "StopTarget"]
                 /\ UNCHANGED <<tx, journal, progress, host, result, expired,
                                budget>>
        BY <4>2, <1>at
      <4>3. QED BY <3>2, <4>1, <4>2 DEF RecordRollbackStarted
    <3>3. CASE RecordRollbackCompleted
      BY <3>3 DEF RecordRollbackCompleted, Append, AppendFails, GoTo, Return,
         At
    <3>4. CASE WriteRolledBack
      BY <3>4 DEF WriteRolledBack, Return, At
    <3>5. QED BY <1>records, <3>1, <3>2, <3>3, <3>4
  <2>3. Bounded' /\ Undone'
    BY <2>2, <1>host DEF HInv, Bounded, Undone, Made, Target
  <2>4. QED BY <2>2, <2>3, <1>host, RollbackGoes
<1>entries. CASE AbortEntry \/ RecoverEntry
  <2>1. /\ frame.at \in {"Abort", "Recover"}
        /\ UNCHANGED <<tx, progress, host>>
        /\ frame'.at \in {"return", "ROLLBACK_STARTED", "MigratorCommit"}
    BY <1>entries DEF AbortEntry, RecoverEntry, ReturnCommitted,
       EnterRollback, GoTo, Return, At
  <2>2. sup \in {"awaitAbort", "awaitRecover", "awaitComplete"}
    BY <2>1 DEF IInv, Belongs
  <2>3. Untouched' /\ Prepared'
    BY <2>1, <2>2, <1>host
       DEF Untouched, BeforeActivation, Prepared, Active, BeforePlaces,
           UngatedPlaces, GatedPlaces, UnitsKeptPlaces, StateKeptPlaces,
           ActivePlaces
  <2>4. Bounded' /\ Switched' /\ InTurn' /\ Undone'
    BY <2>1, <1>host
       DEF HInv, Bounded, Switched, InTurn, Undone, Made, TargetRuns,
           UndoKept, Target
  <2>5. Receipts'
    BY <2>1 DEF HInv, Receipts, Made, UndoGone, TargetRuns, Target
  <2>6. QED BY <2>3, <2>4, <2>5 DEF HInv
<1>last. QED
  BY <1>stop, <1>drops, <1>restore, <1>records, <1>entries DEF RollbackStep

-----------------------------------------------------------------------------
(* The supervisor and the environment.                                     *)

(* What the supervisor does between two calls of the target engine. *)
LEMMA SupervisorMoves ==
    ASSUME TypeOK, IInv, SupervisorStep
    PROVE  /\ UNCHANGED <<tx, progress, host>>
           /\ frame'.at \in {"idle", "IDLE", "Commit", "Abort", "Recover"}
           /\ frame'.at = "IDLE" => sup = "STAGED"
           /\ sup' # "STAGED"
           /\ sup' \in {"PREPARED", "SWITCHED"} => Active
           /\ supJournal' \in PastDecision =>
                 supJournal \in PastDecision \/ Active
           /\ supJournal' # Absent => supJournal # Absent
<1> USE DEF PastDecision
<1>same. UNCHANGED <<tx, progress, host>>
  BY DEF SupervisorStep, RunTarget, WriteSupPrepared, CommitTarget,
     WriteSupVerified, WriteSupCommitted, WriteSupRolledBack, ResumeCommit,
     RunReturned, AbortReturned, CommitReturned, RecoverReturned,
     CompleteReturned, RecoverPending, Restart, SupAdvance, SupAdvanceAndCall
<1>advances. CASE \/ WriteSupPrepared \/ WriteSupVerified
                  \/ WriteSupCommitted \/ WriteSupRolledBack
                  \/ RunTarget \/ CommitTarget \/ ResumeCommit
  <2>1. sup \notin Awaits
    BY <1>advances
       DEF WriteSupPrepared, WriteSupVerified, WriteSupCommitted,
           WriteSupRolledBack, RunTarget, CommitTarget, ResumeCommit,
           SupAdvance, SupAdvanceAndCall, Awaits
  <2>2. frame.at = "idle"
    BY <2>1 DEF IInv, Belongs
  <2>3. QED
    BY <1>advances, <1>same, <2>2
       DEF WriteSupPrepared, WriteSupVerified, WriteSupCommitted,
           WriteSupRolledBack, RunTarget, CommitTarget, ResumeCommit,
           SupAdvance, SupAdvanceAndCall, CallTarget, At, SupWrites,
           SupWriteFails, LegalTransition, Active, Absent
<1>returns. CASE \/ RunReturned \/ AbortReturned \/ CommitReturned
                 \/ RecoverReturned \/ CompleteReturned
  BY <1>returns, <1>same
     DEF RunReturned, AbortReturned, CommitReturned, RecoverReturned,
         CompleteReturned, Resume, CallTarget, At, Returned, Active
<1>recovers. CASE RecoverPending \/ Restart
  <2>1. supJournal' = supJournal /\ sup' # "STAGED"
        /\ sup' \notin {"PREPARED", "SWITCHED"}
    BY <1>recovers DEF RecoverPending, Restart, Resume, CallTarget
  <2>2. frame'.at \in {"idle", "Abort", "Recover"}
    BY <1>recovers DEF RecoverPending, Restart, Resume, CallTarget, At
  <2>3. QED BY <1>same, <2>1, <2>2
<1>last. QED
  BY <1>advances, <1>returns, <1>recovers DEF SupervisorStep

(* The supervisor keeps the invariant. *)
LEMMA SupervisorKeepsHost ==
    ASSUME TypeOK, IInv, HInv, SupervisorStep
    PROVE  HInv'
<1>1. /\ UNCHANGED <<tx, progress, host>>
      /\ frame'.at \in {"idle", "IDLE", "Commit", "Abort", "Recover"}
      /\ frame'.at = "IDLE" => sup = "STAGED"
      /\ sup' # "STAGED"
      /\ sup' \in {"PREPARED", "SWITCHED"} => Active
      /\ supJournal' \in PastDecision => supJournal \in PastDecision \/ Active
      /\ supJournal' # Absent => supJournal # Absent
  BY SupervisorMoves
<1>2. UNCHANGED <<Target, TargetRuns, UndoKept, UndoGone>>
  BY <1>1 DEF Target, TargetRuns, UndoKept, UndoGone
<1>3. Bounded'
  BY <1>1, <1>2 DEF HInv, Bounded
<1>4. Untouched'
  <2>1. BeforeActivation' => BeforeActivation
    BY <1>1
       DEF BeforeActivation, BeforePlaces, UngatedPlaces, GatedPlaces,
           UnitsKeptPlaces, StateKeptPlaces
  <2>2. QED BY <1>1, <1>2, <2>1 DEF HInv, Untouched
<1>5. Prepared'
  <2>1. frame'.at \notin GatedPlaces \cup UnitsKeptPlaces \cup StateKeptPlaces
    BY <1>1 DEF GatedPlaces, UnitsKeptPlaces, StateKeptPlaces
  <2>2. Active' => Active
    BY <1>1 DEF Active, ActivePlaces
  <2>3. QED BY <1>1, <1>2, <2>1, <2>2 DEF HInv, Prepared
<1>6. Switched'
  BY <1>1, <1>2 DEF HInv, Switched, Prepared
<1>7. Receipts'
  BY <1>1, <1>2 DEF HInv, Receipts, Made
<1>8. InTurn'
  BY <1>1 DEF InTurn
<1>9. Undone'
  BY <1>1, <1>2 DEF HInv, Undone, Made
<1>10. QED
  BY <1>3, <1>4, <1>5, <1>6, <1>7, <1>8, <1>9 DEF HInv

(* A new transaction finds no later generation than its predecessor's on   *)
(* the host; a crash or a deadline changes nothing there.                  *)
LEMMA EnvironmentKeepsHost ==
    ASSUME TypeOK, IInv, DInv, HInv, Environment
    PROVE  HInv'
<1>begin. CASE BeginTransaction
  <2>1. /\ frame.at = "idle"
        /\ frame' = frame
        /\ sup' \in {"STAGED", "idle"}
        /\ supJournal' = "IDLE"
        /\ progress' = {}
        /\ tx'.id = tx.id + 1
        /\ host' = [host EXCEPT !.undoUnits = NoUndo, !.undoState = NoUndo,
                                !.marker = FALSE, !.migration = "previous"]
    BY <1>begin DEF BeginTransaction
  <2>2. /\ tx.id \in Nat
        /\ Target = tx.id + 1
        /\ Target' = tx.id + 2
        /\ {host.units, host.state, host.services, host.manifest} \subseteq Int
    BY <2>1 DEF TypeOK, TargetTypeOK, Transactions, Target, Host, Generations
  <2>3. /\ UNCHANGED <<host.units, host.state, host.services, host.manifest>>
        /\ host'.undoUnits = NoUndo
        /\ host'.undoState = NoUndo
    BY <2>1 DEF TypeOK, TargetTypeOK, Host
  <2>4. /\ host'.units < Target'
        /\ host'.state < Target'
        /\ host'.services < Target'
        /\ host'.manifest < Target'
    BY <2>2, <2>3 DEF HInv, Bounded, DInv, Numbered
  <2>5. Bounded'
    BY <2>1, <2>2, <2>3, <2>4 DEF Bounded, NoUndo
  <2>6. Untouched'
    BY <2>1, <2>2, <2>3, <2>4 DEF Untouched
  <2>7. frame'.at = "idle"
    BY <2>1
  <2>8. Prepared'
    BY <2>1, <2>7 DEF Prepared, Active, GatedPlaces, UnitsKeptPlaces,
       StateKeptPlaces, ActivePlaces
  <2>9. Switched' /\ InTurn'
    BY <2>1, <2>7 DEF Switched, PastDecision, InTurn
  <2>10. host'.manifest # Target'
    BY <2>2, <2>3, <2>4
  <2>11. Receipts' /\ Undone'
    BY <2>1, <2>7, <2>10 DEF Receipts, Undone, Made
  <2>12. QED
    BY <2>5, <2>6, <2>8, <2>9, <2>11 DEF HInv
<1>crash. CASE Crash
  <2>1. /\ UNCHANGED <<tx, progress, host, supJournal>>
        /\ sup' = "idle"
        /\ frame'.at = "idle"
    BY <1>crash DEF Crash, Resume, At
  <2>2. UNCHANGED <<Target, TargetRuns, UndoKept, UndoGone>>
    BY <2>1 DEF Target, TargetRuns, UndoKept, UndoGone
  <2>3. Bounded' /\ Switched'
    BY <2>1, <2>2 DEF HInv, Bounded, Switched
  <2>4. Untouched' /\ Prepared' /\ InTurn'
    BY <2>1
       DEF Untouched, BeforeActivation, Prepared, Active, InTurn,
           BeforePlaces, UngatedPlaces, GatedPlaces, UnitsKeptPlaces,
           StateKeptPlaces, ActivePlaces
  <2>5. Receipts' /\ Undone'
    BY <2>1, <2>2 DEF HInv, Receipts, Undone, Made
  <2>6. QED BY <2>3, <2>4, <2>5 DEF HInv
<1>quiet. CASE Expire \/ Quiescent
  <2>1. UNCHANGED <<tx, progress, host, frame, result, supJournal, sup>>
    BY <1>quiet DEF Expire, Quiescent, vars
  <2>2. QED
    BY <2>1
       DEF HInv, Bounded, Untouched, BeforeActivation, Prepared, Active,
           Switched, Receipts, InTurn, Undone, Made, TargetRuns, UndoKept,
           UndoGone, Target
<1>last. QED
  BY <1>begin, <1>crash, <1>quiet DEF Environment

(* The installed host before the first transaction. *)
LEMMA InitHost == Init => HInv
<1>1. ASSUME Init PROVE HInv
  <2>1. PICK installed \in {0, 1} :
           /\ tx = [id |-> 0, previous |-> installed,
                    migrator |-> "directory"]
           /\ host = [gate |-> 0, services |-> installed, units |-> installed,
                      state |-> installed, marker |-> FALSE,
                      migration |-> "previous", undoUnits |-> NoUndo,
                      undoState |-> NoUndo, current |-> installed,
                      manifest |-> installed]
    BY <1>1 DEF Init, TargetInit
  <2>2. /\ progress = {}
        /\ frame.at = "idle"
        /\ sup = "idle"
        /\ supJournal = Absent
    BY <1>1 DEF Init, TargetInit, At
  <2>3. tx.id = 0 /\ Target = 1
    BY <2>1 DEF Target
  <2>4. Bounded
    BY <2>1, <2>2, <2>3 DEF Bounded, NoUndo
  <2>5. Untouched /\ Prepared /\ Switched /\ InTurn
    BY <2>2
       DEF Untouched, BeforeActivation, Prepared, Active, Switched, InTurn,
           PastDecision, Absent, BeforePlaces, UngatedPlaces, GatedPlaces,
           UnitsKeptPlaces, StateKeptPlaces, ActivePlaces
  <2>6. Receipts /\ Undone
    BY <2>2, <2>3 DEF Receipts, Undone, Made
  <2>7. QED BY <2>4, <2>5, <2>6 DEF HInv
<1>2. QED BY <1>1

(* Every step keeps the invariant. *)
LEMMA NextKeepsHost == TypeOK /\ IInv /\ DInv /\ HInv /\ [Next]_vars => HInv'
<1> SUFFICES ASSUME TypeOK, IInv, DInv, HInv, [Next]_vars PROVE HInv'
  OBVIOUS
<1>1. CASE EngineStep
  BY <1>1, RunKeepsHost, CommitKeepsHost, RollbackKeepsHost
     DEF EngineStep, TargetStep
<1>2. CASE UNCHANGED vars
  BY <1>2
     DEF vars, HInv, Bounded, Untouched, BeforeActivation, Prepared, Active,
         Switched, Receipts, InTurn, Undone, Made, TargetRuns, UndoKept,
         UndoGone, Target
<1>3. QED
  BY <1>1, <1>2, SupervisorKeepsHost, EnvironmentKeepsHost DEF Next

LEMMA HostInvariant == Spec => [](TypeOK /\ IInv /\ DInv /\ HInv)
BY TypeCorrect, Invariant, DecisionInvariant, InitHost, NextKeepsHost, PTL
   DEF Spec

-----------------------------------------------------------------------------
(* What the invariant says of the host.                                    *)

(* An update the supervisor records as verified or committed has the whole *)
(* host on the target generation, its undo data dropped and the signer's   *)
(* gate open (validateTerminalTargetResult).                               *)
THEOREM CommittedHostsConverge == Spec => []CommittedMeansConverged
<1>1. IInv /\ HInv => CommittedMeansConverged
  <2> SUFFICES ASSUME IInv, HInv, supJournal \in {"VERIFIED", "COMMITTED"}
               PROVE  /\ host.manifest = Target
                      /\ host.current = Target
                      /\ TargetRuns
                      /\ UndoGone
                      /\ host.gate # tx.id
    BY DEF CommittedMeansConverged, TargetRuns, UndoGone
  <2>1. journal = "COMMITTED"
    BY DEF IInv, JournalsAgree
  <2>2. "PLATFORM_FINALIZED" \in progress
    BY <2>1 DEF IInv, RecoveryEvidence, RecoveryAccepts, RequiredStep, Absent
  <2>3. host.manifest = Target /\ UndoGone
    BY <2>2 DEF HInv, Receipts, Made
  <2>4. tx.id > 0 /\ TargetRuns
    BY DEF HInv, Bounded, Switched, PastDecision, Absent
  <2>5. "PLATFORM_COMMITTED" \in progress
    BY <2>3, <2>4 DEF HInv, Receipts
  <2>6. host.current = Target /\ host.gate # tx.id
    BY <2>5 DEF HInv, Receipts, Made
  <2>7. QED BY <2>3, <2>4, <2>6
<1>2. QED BY <1>1, HostInvariant, PTL

(* The manifest is switched last: one that names the transaction's         *)
(* generation finds every participant committed to it (engine.commit).     *)
THEOREM ManifestIsLast == Spec => []ManifestLast
<1>1. HInv => ManifestLast
  <2> SUFFICES ASSUME HInv, tx.id > 0, host.manifest = Target
               PROVE  /\ {"MIGRATOR_COMMITTED", "SIGNER_COMMITTED",
                          "PLATFORM_COMMITTED"} \subseteq progress
                      /\ host.current = Target
                      /\ host.services = Target
                      /\ host.migration = "final"
    BY DEF ManifestLast
  <2>1. "PLATFORM_COMMITTED" \in progress /\ host.services = Target
    BY DEF HInv, Receipts, TargetRuns
  <2>2. "SIGNER_COMMITTED" \in progress /\ host.current = Target
    BY <2>1 DEF HInv, Receipts, Made
  <2>3. "MIGRATOR_COMMITTED" \in progress
    BY <2>2 DEF HInv, Receipts, Made
  <2>4. QED BY <2>1, <2>2, <2>3 DEF HInv, Receipts, Made
<1>2. QED BY <1>1, HostInvariant, PTL

(* Where a call that goes forward can be. *)
LEMMA ForwardPlaces ==
    ASSUME GoingForward
    PROVE  \/ frame.at \in BeforePlaces
           \/ frame.at \in ActivePlaces
           \/ frame.at \in CommitPlaces
BY DEF GoingForward, BeforePlaces, UngatedPlaces, GatedPlaces,
   UnitsKeptPlaces, StateKeptPlaces, ActivePlaces, CommitPlaces, RunCalls,
   ForwardSteps, CommitCalls, CommitSteps

(* The write-ahead rule of Run: going forward, from the first thing of the *)
(* target on the host to the manifest, the undo data of units and typed    *)
(* state is there and is an earlier generation's.                          *)
THEOREM UndoIsWrittenAhead == Spec => []UndoBeforeDecision
<1>1. TypeOK /\ IInv /\ HInv => UndoBeforeDecision
  <2> SUFFICES ASSUME TypeOK, IInv, HInv, GoingForward,
                      Target \in {host.units, host.state, host.services},
                      host.manifest # Target
               PROVE  /\ host.undoUnits \notin {NoUndo, Target}
                      /\ host.undoState \notin {NoUndo, Target}
    BY DEF UndoBeforeDecision
  <2>1. UndoKept
    <3>1. CASE frame.at \in BeforePlaces
      BY <3>1 DEF HInv, Untouched, BeforeActivation
    <3>2. CASE frame.at \in ActivePlaces
      BY <3>2 DEF HInv, Prepared, Active
    <3>3. CASE frame.at \in CommitPlaces
      BY <3>3, CommitFinds DEF HInv, Switched
    <3>4. QED BY <3>1, <3>2, <3>3, ForwardPlaces
  <2>2. host.undoUnits < Target /\ host.undoState < Target
    BY DEF HInv, Bounded
  <2>3. {host.undoUnits, host.undoState, Target} \subseteq Int
    BY DEF TypeOK, TargetTypeOK, Transactions, Host, Generations, NoUndo,
       Target
  <2>4. QED BY <2>1, <2>2, <2>3 DEF UndoKept
<1>2. QED BY <1>1, HostInvariant, PTL

(* The signer's update gate is held while the target is started and        *)
(* verified: going forward, target services run only under this            *)
(* transaction's gate until the migrator has committed.                    *)
THEOREM GateIsHeld == Spec => []GateHeld
<1>1. IInv /\ HInv => GateHeld
  <2> SUFFICES ASSUME IInv, HInv, GoingForward, host.services = Target,
                      "MIGRATOR_COMMITTED" \notin progress
               PROVE  host.gate = tx.id
    BY DEF GateHeld
  <2>1. CASE frame.at \in BeforePlaces
    BY <2>1 DEF HInv, Untouched, BeforeActivation
  <2>2. CASE frame.at \in ActivePlaces
    BY <2>2 DEF HInv, Prepared, Active
  <2>3. CASE frame.at \in CommitPlaces
    BY <2>3, CommitFinds DEF HInv, Switched
  <2>4. QED BY <2>1, <2>2, <2>3, ForwardPlaces
<1>2. QED BY <1>1, HostInvariant, PTL

(* A rollback that recorded both the stop and the restore has taken the    *)
(* target's units and services away, whatever failed, was repeated or      *)
(* crashed in between (engine.rollback).                                   *)
THEOREM RestoreTakesTheTargetAway == Spec => []RestoredRunsPrevious
<1>1. HInv => RestoredRunsPrevious
  BY DEF HInv, Undone, Made, RestoredRunsPrevious
<1>2. QED BY <1>1, HostInvariant, PTL

-----------------------------------------------------------------------------
(* What a commit needs is there.                                           *)

(* Where Run is once the migration has its record. *)
MarkedPlaces == {"MIGRATOR_PREPARED", "MigratorActivate", "MIGRATOR_ACTIVATED",
                 "AdapterActivate"} \cup ActivePlaces

(* The record of a hosted migration outlives its commit. *)
Marked ==
    (/\ tx.migrator = "hosted"
     /\ frame.at \in MarkedPlaces \/ Active \/ supJournal \in PastDecision) =>
        host.marker

(* Past its decision the supervisor meets no other transaction's gate, the *)
(* manifest names the generation it was planned on until it names the      *)
(* target, and nothing is finalized before the convergence is on record.   *)
NoForeignGate == supJournal \in PastDecision => GateOurs
Planned == tx.id > 0 => host.manifest \in {tx.previous, Target}
ConvergedFirst ==
    frame.at \in {"Finalize", "PLATFORM_FINALIZED"} =>
        "TERMINAL_CONVERGENCE_VERIFIED" \in progress

CInv ==
    /\ Marked
    /\ NoForeignGate
    /\ Planned
    /\ ConvergedFirst

(* Run's calls write the record before anything else needs it. *)
LEMMA RunMarks ==
    ASSUME TypeOK, RunStep
    PROVE  /\ host'.marker = host.marker \/ frame.at = "MigratorPrepare"
           /\ frame'.at \in MarkedPlaces =>
                 frame.at \in MarkedPlaces \/ host'.marker
           /\ frame'.at = "return" /\ ~result'.err
                 /\ result'.phase = "VERIFIED" => frame.at = "VERIFIED"
           /\ frame'.at \notin {"Finalize", "PLATFORM_FINALIZED"}
<1> USE DEF MarkedPlaces, ActivePlaces
<1>host. host \in Host
  BY DEF TypeOK, TargetTypeOK
<1>early. CASE SignerPrepare \/ AdapterPrepare \/ Quiesce \/ PrepareState
  <2>1. /\ frame'.at \in {"SIGNER_PREPARED", "PLATFORM_PREPARED", "QUIESCED",
                          "STATE_PREPARED", "ROLLBACK_STARTED", "down"}
        /\ host' \in {host, GateWritten, UnitsKept, StateKept,
                      [host EXCEPT !.services = IF Fresh THEN @ ELSE 0]}
    BY <1>early
       DEF SignerPrepare, AdapterPrepare, Quiesce, PrepareState, RunCall,
           Succeed, Fail, CrashDuring, Left, Heedless, CutOff, GoTo, At,
           EnterRollback
  <2>2. host'.marker = host.marker
    BY <2>1, <1>host DEF GateWritten, UnitsKept, StateKept, Host
  <2>3. QED BY <2>1, <2>2
<1>prepare. CASE MigratorPrepare
  <2>1. /\ frame.at = "MigratorPrepare"
        /\ \/ /\ GoTo("MIGRATOR_PREPARED")
              /\ host' = [host EXCEPT !.marker = TRUE]
           \/ EnterRollback(TRUE)
           \/ GoTo("down")
    BY <1>prepare DEF MigratorPrepare, RunCall, Succeed, CrashDuring
  <2>2. \/ frame'.at = "MIGRATOR_PREPARED" /\ host'.marker
        \/ frame'.at \in {"ROLLBACK_STARTED", "down"}
    BY <2>1, <1>host DEF Host, GoTo, At, EnterRollback
  <2>3. QED BY <2>1, <2>2
<1>late. CASE \/ MigratorActivate \/ AdapterActivate
              \/ MigratorVerify \/ SignerVerify \/ AdapterVerify
  <2>1. /\ frame.at \in MarkedPlaces
        /\ frame'.at \notin {"return", "Finalize", "PLATFORM_FINALIZED"}
        /\ host' \in {host, [host EXCEPT !.migration = "target"],
                      StateActivated, UnitsActivated,
                      [UnitsActivated EXCEPT !.services = Target]}
    BY <1>late
       DEF MigratorActivate, AdapterActivate, MigratorVerify, SignerVerify,
           AdapterVerify, RunCall, Succeed, Fail, CrashDuring, Left, Heedless,
           PartlyActivated, CutOff, GoTo, At, EnterRollback
  <2>2. host'.marker = host.marker
    BY <2>1, <1>host DEF StateActivated, UnitsActivated, Host
  <2>3. QED BY <2>1, <2>2
<1>advances. CASE WriteIdle \/ WriteStaged \/ WritePrepared \/ WriteSwitched
                  \/ WriteVerified \/ StageGeneration
                  \/ RecordGenerationStaged
  BY <1>advances
     DEF WriteIdle, WriteStaged, WritePrepared, WriteSwitched, WriteVerified,
         StageGeneration, RecordGenerationStaged, RunAdvance, GoTo, Return, At
<1>record. ASSUME NEW step, NEW next, NEW restore,
                   RunRecord(step, next, restore),
                   next \notin {"return", "Finalize", "PLATFORM_FINALIZED"},
                   next \in MarkedPlaces => step \in MarkedPlaces
            PROVE  /\ host' = host
                   /\ frame'.at \in MarkedPlaces => frame.at \in MarkedPlaces
                   /\ frame'.at \notin {"return", "Finalize",
                                        "PLATFORM_FINALIZED"}
  <2>1. /\ frame.at = step
        /\ host' = host
        /\ frame'.at \in {next, "ROLLBACK_STARTED"}
    BY <1>record DEF RunRecord, GoTo, At, EnterRollback
  <2>2. QED BY <1>record, <2>1
<1>records. CASE \/ RecordSignerPrepared \/ RecordPlatformPrepared
                 \/ RecordQuiesceStarted \/ RecordQuiesced
                 \/ RecordStatePrepared \/ RecordMigratorPrepared
  <2>1. CASE RecordSignerPrepared
    BY <1>record, <2>1 DEF RecordSignerPrepared
  <2>2. CASE RecordPlatformPrepared
    BY <1>record, <2>2 DEF RecordPlatformPrepared
  <2>3. CASE RecordQuiesceStarted
    BY <1>record, <2>3 DEF RecordQuiesceStarted
  <2>4. CASE RecordQuiesced
    BY <1>record, <2>4 DEF RecordQuiesced
  <2>5. CASE RecordStatePrepared
    BY <1>record, <2>5 DEF RecordStatePrepared
  <2>6. CASE RecordMigratorPrepared
    BY <1>record, <2>6 DEF RecordMigratorPrepared
  <2>7. QED
    BY <1>records, <2>1, <2>2, <2>3, <2>4, <2>5, <2>6
<1>verified. CASE \/ RecordMigratorActivated \/ RecordPlatformActivated
                  \/ RecordMigratorVerified \/ RecordSignerVerified
                  \/ RecordPluginVerified \/ RecordPlatformVerified
  <2>1. CASE RecordMigratorActivated
    BY <1>record, <2>1 DEF RecordMigratorActivated
  <2>2. CASE RecordPlatformActivated
    BY <1>record, <2>2 DEF RecordPlatformActivated
  <2>3. CASE RecordMigratorVerified
    BY <1>record, <2>3 DEF RecordMigratorVerified
  <2>4. CASE RecordSignerVerified
    BY <1>record, <2>4 DEF RecordSignerVerified
  <2>5. CASE RecordPluginVerified
    BY <1>record, <2>5 DEF RecordPluginVerified
  <2>6. CASE RecordPlatformVerified
    BY <1>record, <2>6 DEF RecordPlatformVerified
  <2>7. QED
    BY <1>verified, <2>1, <2>2, <2>3, <2>4, <2>5, <2>6
<1>split. QED
  BY <1>early, <1>prepare, <1>late, <1>advances, <1>records, <1>verified
     DEF RunStep

(* Run keeps what a commit needs. *)
LEMMA RunKeepsNeeds ==
    ASSUME TypeOK, IInv, DInv, HInv, CInv, UNCHANGED supVars, RunStep
    PROVE  CInv'
<1>1. /\ sup = "awaitRun" /\ supJournal = "STAGED"
      /\ supJournal \notin PastDecision
      /\ UNCHANGED <<sup, supJournal>>
  BY RunDecidesNothing, RunFinds DEF PastDecision, supVars
<1>2. tx' = tx /\ host'.manifest = host.manifest
  BY RunKeepsManifest
<1>3. NoForeignGate' /\ Planned' /\ ConvergedFirst'
  BY <1>1, <1>2, RunMarks DEF CInv, NoForeignGate, Planned, ConvergedFirst, Target
<1>4. Marked'
  <2>1. frame.at = "VERIFIED" => frame.at \in MarkedPlaces
    BY DEF MarkedPlaces, ActivePlaces
  <2>2. frame.at # "MigratorPrepare" \/ frame.at \notin MarkedPlaces
    BY DEF MarkedPlaces, ActivePlaces
  <2>3. frame'.at \in ActivePlaces => frame'.at \in MarkedPlaces
    BY DEF MarkedPlaces
  <2>4. QED
    BY <1>1, <1>2, <2>1, <2>2, <2>3, RunMarks DEF CInv, Marked, Active
<1>5. QED BY <1>3, <1>4 DEF CInv

(* A commit keeps the record of a hosted migration and any gate but ours,  *)
(* and names the target.                                                   *)
LEMMA CommitKeepsNeeds ==
    ASSUME TypeOK, IInv, DInv, HInv, CInv, UNCHANGED supVars, CommitStep
    PROVE  CInv'
<1> USE DEF CommitCalls, CommitSteps
<1>host. host \in Host
  BY DEF TypeOK, TargetTypeOK
<1>same. UNCHANGED <<sup, supJournal>>
  BY DEF supVars
<1>journal. supJournal = "SWITCHED"
  BY CommitStartsNoRollback
<1>tx. tx' = tx /\ host'.manifest \in {host.manifest, Target}
  BY CommitKeepsManifest
<1>calls. CASE \/ MigratorCommit \/ SignerCommit \/ AdapterCommit
               \/ ManifestCommit \/ Converge \/ Finalize
  <2>1. /\ progress' = progress
        /\ frame'.at \in {"Finalize", "PLATFORM_FINALIZED"} =>
              \/ "TERMINAL_CONVERGENCE_VERIFIED" \in progress
              \/ frame.at = "Finalize"
    <3>1. CASE MigratorCommit
      BY <3>1 DEF MigratorCommit, CommitCall, CrashDuring, GoTo, Return, At
    <3>2. CASE SignerCommit
      BY <3>2 DEF SignerCommit, CommitCall, CrashDuring, GoTo, Return, At
    <3>3. CASE AdapterCommit
      BY <3>3 DEF AdapterCommit, CommitCall, Succeed, Fail, CrashDuring, Left,
         Heedless, CutOff, GoTo, Return, At
    <3>4. CASE ManifestCommit
      BY <3>4 DEF ManifestCommit, CommitCall, CrashDuring, GoTo, Return, At
    <3>5. CASE Converge
      BY <3>5 DEF Converge, CommitCall, Succeed, Fail, CrashDuring, Left,
         Heedless, CutOff, GoTo, Return, At
    <3>6. CASE Finalize
      BY <3>6 DEF Finalize, CommitCall
    <3>7. QED
      BY <1>calls, <3>1, <3>2, <3>3, <3>4, <3>5, <3>6
  <2>2. host' \in {host, MigratorCommitted, GateRemoved,
                   [host EXCEPT !.current = Target],
                   [host EXCEPT !.manifest = Target], UndoDropped}
                  \cup PartlyCommitted \cup UndoPartlyDropped
    BY <1>calls
       DEF MigratorCommit, SignerCommit, AdapterCommit, ManifestCommit,
           Converge, Finalize, CommitCall, Succeed, Fail, CrashDuring, Left,
           Heedless, CutOff
  <2>3. /\ host'.gate \in {host.gate, 0}
        /\ tx.migrator = "hosted" => host'.marker = host.marker
    BY <2>2, <1>host
       DEF MigratorCommitted, PartlyCommitted, GateRemoved, UndoDropped,
           UndoPartlyDropped, Host
  <2>4. QED
    BY <2>1, <2>3, <1>tx, <1>same, <1>journal
       DEF CInv, Marked, NoForeignGate, GateOurs, Planned, ConvergedFirst,
           Target, PastDecision
<1>entry. CASE CommitEntry \/ WriteCommitted
  <2>1. /\ UNCHANGED <<progress, host>>
        /\ frame'.at \in {"MigratorCommit", "return"}
    BY <1>entry DEF CommitEntry, WriteCommitted, ReturnCommitted, GoTo,
       Return, At
  <2>2. QED
    BY <2>1, <1>tx, <1>same, <1>journal
       DEF CInv, Marked, NoForeignGate, GateOurs, Planned, ConvergedFirst,
           Target, PastDecision
<1>records. CASE \/ RecordMigratorCommitted \/ RecordSignerCommitted
                 \/ RecordPlatformCommitted \/ RecordManifestCommitted
                 \/ RecordConverged \/ RecordFinalized
  <2>1. ASSUME NEW step, NEW next, CommitRecord(step, next)
        PROVE  /\ host' = host
               /\ \/ frame'.at = next /\ step \in progress'
                  \/ frame'.at = "return"
    BY <2>1 DEF CommitRecord, Append, AppendFails, GoTo, At, Return
  <2>2. /\ host' = host
        /\ frame'.at \in {"Finalize", "PLATFORM_FINALIZED"} =>
              "TERMINAL_CONVERGENCE_VERIFIED" \in progress'
    BY <1>records, <2>1
       DEF RecordMigratorCommitted, RecordSignerCommitted,
           RecordPlatformCommitted, RecordManifestCommitted, RecordConverged,
           RecordFinalized
  <2>3. QED
    BY <2>2, <1>tx, <1>same, <1>journal
       DEF CInv, Marked, NoForeignGate, GateOurs, Planned, ConvergedFirst,
           Target, PastDecision
<1>split. QED
  BY <1>calls, <1>entry, <1>records DEF CommitStep

(* Where a rollback goes, and what an entry leaves alone. *)
LEMMA RollbackLands ==
    ASSUME TypeOK, IInv, RollbackStep
    PROVE  \/ /\ frame.at \in {"Abort", "Recover"}
              /\ UNCHANGED <<host, progress>>
              /\ frame'.at \in {"return", "ROLLBACK_STARTED", "MigratorCommit"}
           \/ /\ frame.at \in RollbackPlaces
              /\ frame'.at \in RollbackPlaces \cup {"return", "down"}
<1> USE DEF RollbackCalls, RollbackSteps, RollbackPlaces
<1>frame. frame \in Frames
  BY DEF TypeOK, TargetTypeOK
<1>entries. CASE AbortEntry \/ RecoverEntry
  BY <1>entries
     DEF AbortEntry, RecoverEntry, ReturnCommitted, GoTo, Return, At,
         EnterRollback
<1>calls. CASE StopTarget \/ SignerAbort \/ MigratorAbort \/ Restore \/ Discard
  BY <1>calls, RollbackCallGoes
<1>ends. CASE RecordRollbackCompleted \/ WriteRolledBack
  BY <1>ends
     DEF RecordRollbackCompleted, WriteRolledBack, GoTo, Return, At
<1>records. CASE \/ RecordRollbackStarted \/ RecordTargetStopped
                 \/ RecordSignerAborted \/ RecordMigratorAborted
                 \/ RecordPlatformRestored \/ RecordPlatformDiscarded
  <2>1. \E place \in RollbackPlaces :
           /\ frame.at \in RollbackSteps
           /\ \/ frame' = [frame EXCEPT !.at = place]
              \/ frame' = [frame EXCEPT !.at = place, !.failed = TRUE]
    BY <1>records
       DEF RecordRollbackStarted, RecordTargetStopped, RecordSignerAborted,
           RecordMigratorAborted, RecordPlatformRestored,
           RecordPlatformDiscarded, RollbackRecord
  <2>2. QED BY <2>1, <1>frame DEF Frames
<1>last. QED
  BY <1>entries, <1>calls, <1>ends, <1>records DEF RollbackStep

(* A rollback needs and leaves none of it. *)
LEMMA RollbackKeepsNeeds ==
    ASSUME TypeOK, IInv, DInv, HInv, CInv, UNCHANGED supVars, RollbackStep
    PROVE  CInv'
<1> USE DEF MarkedPlaces, ActivePlaces, RollbackPlaces, RollbackCalls,
        RollbackSteps
<1>1. /\ UNCHANGED <<sup, supJournal>>
      /\ tx' = tx /\ host'.manifest = host.manifest
  BY RollbackKeepsManifest DEF supVars
<1>2. /\ frame'.at \notin MarkedPlaces \cup {"Finalize", "PLATFORM_FINALIZED"}
      /\ sup \in Awaits
      /\ Active' => supJournal \in PastDecision
  <2>1. frame'.at \notin MarkedPlaces \cup {"Finalize", "PLATFORM_FINALIZED"}
    BY RollbackLands
  <2>2. sup \in Awaits
    BY RollbackLands DEF IInv, Belongs, Awaits
  <2>3. ~Active'
    BY <1>1, <2>1, <2>2, RollbackDecidesNothing
       DEF Active, RunGoesWell, Awaits
  <2>4. QED BY <2>1, <2>2, <2>3
<1>3. supJournal \in PastDecision => host' = host
  BY RollbackLands DEF IInv, Belongs, InOrder, PastDecision
<1>4. QED
  BY <1>1, <1>2, <1>3
     DEF CInv, Marked, NoForeignGate, GateOurs, Planned, ConvergedFirst,
         Target

(* The supervisor starts to need it when it decides. *)
LEMMA SupervisorKeepsNeeds ==
    ASSUME TypeOK, IInv, HInv, CInv, SupervisorStep
    PROVE  CInv'
<1> USE DEF MarkedPlaces, ActivePlaces
<1>1. /\ UNCHANGED <<tx, progress, host>>
      /\ frame'.at \in {"idle", "IDLE", "Commit", "Abort", "Recover"}
      /\ sup' \in {"PREPARED", "SWITCHED"} => Active
      /\ supJournal' \in PastDecision => supJournal \in PastDecision \/ Active
  BY SupervisorMoves
<1>2. Active => host.gate = tx.id
  BY DEF HInv, Prepared
<1>3. Active' => Active
  BY <1>1 DEF Active
<1>4. QED
  BY <1>1, <1>2, <1>3
     DEF CInv, Marked, NoForeignGate, GateOurs, Planned, ConvergedFirst,
         Target

(* A new transaction needs nothing yet, and a crash takes nothing away. *)
LEMMA EnvironmentKeepsNeeds ==
    ASSUME TypeOK, IInv, CInv, Environment
    PROVE  CInv'
<1> USE DEF MarkedPlaces, ActivePlaces
<1>begin. CASE BeginTransaction
  <2>1. /\ frame'.at = "idle"
        /\ sup' \in {"STAGED", "idle"}
        /\ supJournal' = "IDLE"
        /\ host' = [host EXCEPT !.undoUnits = NoUndo, !.undoState = NoUndo,
                                !.marker = FALSE, !.migration = "previous"]
        /\ \E kind \in MigratorKinds :
              tx' = [id |-> tx.id + 1, previous |-> host.manifest,
                     migrator |-> kind]
    BY <1>begin DEF BeginTransaction
  <2>2. tx'.previous = host.manifest /\ host'.manifest = host.manifest
    BY <2>1 DEF TypeOK, TargetTypeOK, Host
  <2>3. QED
    BY <2>1, <2>2
       DEF CInv, Marked, Active, NoForeignGate, Planned, ConvergedFirst,
           PastDecision
<1>crash. CASE Crash
  <2>1. /\ UNCHANGED <<tx, progress, host, supJournal>>
        /\ sup' = "idle"
        /\ frame'.at = "idle"
    BY <1>crash DEF Crash, Resume, At
  <2>2. QED
    BY <2>1
       DEF CInv, Marked, Active, NoForeignGate, GateOurs, Planned,
           ConvergedFirst, Target
<1>quiet. CASE Expire \/ Quiescent
  <2>1. UNCHANGED <<tx, progress, host, frame, result, supJournal, sup>>
    BY <1>quiet DEF Expire, Quiescent, vars
  <2>2. QED
    BY <2>1
       DEF CInv, Marked, Active, NoForeignGate, GateOurs, Planned,
           ConvergedFirst, Target
<1>last. QED
  BY <1>begin, <1>crash, <1>quiet DEF Environment

(* Before the first transaction nothing is needed. *)
LEMMA InitNeeds == Init => CInv
<1>1. Init => /\ tx.id = 0
              /\ frame.at = "idle"
              /\ sup = "idle"
              /\ supJournal = Absent
  BY DEF Init, TargetInit, At
<1>2. QED
  BY <1>1 DEF CInv, Marked, Active, NoForeignGate, Planned, ConvergedFirst,
     PastDecision, Absent, MarkedPlaces, ActivePlaces

LEMMA NextKeepsNeeds ==
    TypeOK /\ IInv /\ DInv /\ HInv /\ CInv /\ [Next]_vars => CInv'
<1> SUFFICES ASSUME TypeOK, IInv, DInv, HInv, CInv, [Next]_vars PROVE CInv'
  OBVIOUS
<1>1. CASE EngineStep
  BY <1>1, RunKeepsNeeds, CommitKeepsNeeds, RollbackKeepsNeeds
     DEF EngineStep, TargetStep
<1>2. CASE UNCHANGED vars
  BY <1>2
     DEF vars, CInv, Marked, Active, NoForeignGate, GateOurs, Planned,
         ConvergedFirst, Target
<1>3. QED
  BY <1>1, <1>2, SupervisorKeepsNeeds, EnvironmentKeepsNeeds DEF Next

LEMMA NeedsInvariant == Spec => [](TypeOK /\ IInv /\ DInv /\ HInv /\ CInv)
BY HostInvariant, InitNeeds, NextKeepsNeeds, PTL DEF Spec

-----------------------------------------------------------------------------
(* What it takes to reverse a decision.                                    *)

(* No call, write or deadline has failed, only the daemon may have died.   *)
OnlyCrashes == budget.faults = MaxFaults /\ budget.timeouts = MaxTimeouts

(* The deadlines still ahead are those that have not passed. *)
Punctual == OnlyCrashes => ~expired

(* The transaction can be completed whatever died: the record of the local *)
(* bridge, which its commit deletes, is no longer asked for once the       *)
(* manifest is switched.                                                   *)
Unbroken == OnlyCrashes /\ (tx.migrator = "local" => host.manifest = Target)

(* A target asked to complete answers that it has, so the supervisor is    *)
(* not on its way to record a rollback.                                    *)
Answered ==
    (Unbroken /\ supJournal = "SWITCHED") =>
        /\ sup # "ROLLED_BACK"
        /\ Returned => TargetIsTerminal

NotReversed == (Unbroken /\ supJournal = "ROLLED_BACK") => ~Decided

NInv ==
    /\ Punctual
    /\ Answered
    /\ NotReversed

(* What was spent shows. *)
LEMMA FaultShows ==
    ASSUME TypeOK, Spend("faults") \/ Spend("timeouts")
    PROVE  ~OnlyCrashes'
BY BoundsAssumption
   DEF TypeOK, TargetTypeOK, Budgets, Spend, OnlyCrashes

(* A crash is none of the faults that are counted. *)
LEMMA CrashIsNoFault ==
    ASSUME TypeOK, budget' = budget \/ Spend("crashes")
    PROVE  OnlyCrashes' <=> OnlyCrashes
BY DEF TypeOK, TargetTypeOK, Budgets, Spend, OnlyCrashes

(* A step of an engine may meet a fault or a crash, never a deadline. *)
LEMMA RunSpends ==
    ASSUME RunStep
    PROVE  /\ expired' = expired
           /\ budget' = budget \/ Spend("faults") \/ Spend("crashes")
<1>calls. CASE \/ SignerPrepare \/ AdapterPrepare \/ Quiesce \/ PrepareState
               \/ MigratorPrepare \/ MigratorActivate \/ AdapterActivate
               \/ MigratorVerify \/ SignerVerify \/ AdapterVerify
  BY <1>calls
     DEF SignerPrepare, AdapterPrepare, Quiesce, PrepareState,
         MigratorPrepare, MigratorActivate, AdapterActivate, MigratorVerify,
         SignerVerify, AdapterVerify, RunCall, Succeed, Fail, CrashDuring
<1>records. CASE \/ RecordSignerPrepared \/ RecordPlatformPrepared
                 \/ RecordQuiesceStarted \/ RecordQuiesced
                 \/ RecordStatePrepared \/ RecordMigratorPrepared
                 \/ RecordMigratorActivated \/ RecordPlatformActivated
                 \/ RecordMigratorVerified \/ RecordSignerVerified
                 \/ RecordPluginVerified \/ RecordPlatformVerified
  BY <1>records
     DEF RecordSignerPrepared, RecordPlatformPrepared, RecordQuiesceStarted,
         RecordQuiesced, RecordStatePrepared, RecordMigratorPrepared,
         RecordMigratorActivated, RecordPlatformActivated,
         RecordMigratorVerified, RecordSignerVerified, RecordPluginVerified,
         RecordPlatformVerified, RunRecord, Append, AppendFails
<1>advances. CASE WriteIdle \/ WriteStaged \/ WritePrepared \/ WriteSwitched
                  \/ WriteVerified \/ StageGeneration
                  \/ RecordGenerationStaged
  BY <1>advances
     DEF WriteIdle, WriteStaged, WritePrepared, WriteSwitched, WriteVerified,
         StageGeneration, RecordGenerationStaged, RunAdvance, Write,
         WriteFails, Append, AppendFails
<1>split. QED
  BY <1>calls, <1>records, <1>advances DEF RunStep

(* Nor does a step of a commit meet more, *)
LEMMA CommitSpends ==
    ASSUME CommitStep
    PROVE  /\ expired' = expired
           /\ budget' = budget \/ Spend("faults") \/ Spend("crashes")
BY DEF CommitStep, MigratorCommit, SignerCommit, AdapterCommit,
   ManifestCommit, Converge, Finalize, CommitCall, Succeed, Fail, CrashDuring,
   CommitEntry, WriteCommitted, Write, WriteFails, RecordMigratorCommitted,
   RecordSignerCommitted, RecordPlatformCommitted, RecordManifestCommitted,
   RecordConverged, RecordFinalized, CommitRecord, Append, AppendFails

(* or one of a rollback. *)
LEMMA RollbackSpends ==
    ASSUME RollbackStep
    PROVE  /\ expired' = expired
           /\ budget' = budget \/ Spend("faults") \/ Spend("crashes")
<1>calls. CASE StopTarget \/ SignerAbort \/ MigratorAbort \/ Restore \/ Discard
  BY <1>calls
     DEF StopTarget, SignerAbort, MigratorAbort, Restore, Discard,
         RollbackCall, Succeed, Fail, CrashDuring
<1>records. CASE \/ RecordRollbackStarted \/ RecordTargetStopped
                 \/ RecordSignerAborted \/ RecordMigratorAborted
                 \/ RecordPlatformRestored \/ RecordPlatformDiscarded
                 \/ RecordRollbackCompleted \/ WriteRolledBack
  BY <1>records
     DEF RecordRollbackStarted, RecordTargetStopped, RecordSignerAborted,
         RecordMigratorAborted, RecordPlatformRestored,
         RecordPlatformDiscarded, RollbackRecord, RecordRollbackCompleted,
         WriteRolledBack, Append, AppendFails, Write, WriteFails
<1>entries. CASE AbortEntry \/ RecoverEntry
  BY <1>entries DEF AbortEntry, RecoverEntry
<1>last. QED
  BY <1>calls, <1>records, <1>entries DEF RollbackStep

(* A committed journal has its receipt, so its convergence is reported     *)
(* without an error.                                                       *)
LEMMA CommittedIsReceipted ==
    ASSUME IInv, journal = "COMMITTED"
    PROVE  "TERMINAL_CONVERGENCE_VERIFIED" \in progress
<1>1. "PLATFORM_FINALIZED" \in progress
  BY DEF IInv, RecoveryEvidence, RecoveryAccepts, RequiredStep, Absent
<1>2. QED BY <1>1 DEF IInv, Evidenced, ProgressAccepts

(* What each call of a commit needs is there. *)
LEMMA CommitIsAble ==
    ASSUME TypeOK, IInv, HInv, CInv, frame.at \in CommitCalls
    PROVE  /\ (/\ frame.at = "MigratorCommit"
               /\ "MIGRATOR_COMMITTED" \notin progress
               /\ tx.migrator = "local" => host.manifest = Target) =>
                  RecordReadable
           /\ GateOurs
           /\ host.manifest \in {tx.previous, Target}
           /\ frame.at = "Converge" =>
                 /\ host.manifest = Target
                 /\ host.current = Target
                 /\ host.services = Target
<1>1. /\ supJournal \in PastDecision
      /\ tx.id > 0
      /\ TargetRuns
  BY CommitFinds DEF CommitPlaces
<1>2. "PLATFORM_COMMITTED" \in progress => "MIGRATOR_COMMITTED" \in progress
  BY DEF HInv, Receipts, Made
<1>3. host.manifest = Target => "PLATFORM_COMMITTED" \in progress
  BY <1>1 DEF HInv, Receipts
<1>4. tx.migrator \in {"directory", "local", "hosted"}
  BY DEF TypeOK, TargetTypeOK, Transactions
<1>5. tx.migrator = "hosted" => host.marker
  BY <1>1 DEF CInv, Marked
<1>6. GateOurs /\ host.manifest \in {tx.previous, Target}
  BY <1>1 DEF CInv, NoForeignGate, Planned
<1>7. frame.at = "Converge" => host.manifest = Target
  BY DEF HInv, InTurn, IInv, Installed
<1>8. "PLATFORM_COMMITTED" \in progress => host.current = Target
  BY DEF HInv, Receipts, Made
<1>9. QED
  BY <1>1, <1>2, <1>3, <1>4, <1>5, <1>6, <1>7, <1>8
     DEF RecordReadable, TargetRuns

(* No append of a commit is refused. *)
LEMMA CommitIsAccepted ==
    ASSUME IInv, HInv, CInv, frame.at \in CommitSteps
    PROVE  ProgressAccepts(progress, frame.at, Fresh)
<1>1. journal = "VERIFIED"
  BY DEF IInv, Belongs, CommitPlaces
<1>2. ~Fresh => "PLUGIN_VERIFIED" \in progress
  BY <1>1 DEF IInv, RecoveryEvidence, RecoveryAccepts, Absent
<1>3. QED
  BY <1>2
     DEF HInv, InTurn, CInv, ConvergedFirst, ProgressAccepts, CommitSteps

(* A commit that meets no fault and no deadline returns completed. *)
LEMMA CommitAnswers ==
    ASSUME TypeOK, IInv, DInv, HInv, CInv, NInv, UNCHANGED supVars,
           CommitStep, Unbroken', Returned'
    PROVE  TargetIsTerminal'
<1> USE DEF CommitCalls, CommitSteps
<1>spent. /\ ~Spend("faults")
          /\ ~expired
          /\ OnlyCrashes
  BY CommitSpends, FaultShows, CrashIsNoFault DEF NInv, Punctual, Unbroken
<1>tx. tx' = tx /\ supJournal = "SWITCHED"
  BY CommitKeepsManifest, CommitStartsNoRollback
<1>stays. /\ ~GoTo("MIGRATOR_COMMITTED") /\ ~GoTo("SignerCommit")
          /\ ~GoTo("SIGNER_COMMITTED") /\ ~GoTo("AdapterCommit")
          /\ ~GoTo("PLATFORM_COMMITTED") /\ ~GoTo("ManifestCommit")
          /\ ~GoTo("MANIFEST_COMMITTED") /\ ~GoTo("Converge")
          /\ ~GoTo("TERMINAL_CONVERGENCE_VERIFIED") /\ ~GoTo("Finalize")
          /\ ~GoTo("PLATFORM_FINALIZED") /\ ~GoTo("COMMITTED")
          /\ ~GoTo("down") /\ ~GoTo("MigratorCommit")
  BY DEF GoTo, At, Returned
<1>entry. CASE CommitEntry
  <2>1. journal \in {"VERIFIED", "COMMITTED"}
    BY <1>tx DEF IInv, JournalsAgree
  <2>2. journal = "COMMITTED" /\ ReturnCommitted
    BY <1>entry, <1>stays, <2>1 DEF CommitEntry
  <2>3. QED
    BY <2>2, CommittedIsReceipted
       DEF ReturnCommitted, Return, TargetIsTerminal
<1>last. CASE WriteCommitted
  <2>1. journal = "VERIFIED"
    BY <1>last DEF WriteCommitted, IInv, Belongs, CommitPlaces
  <2>2. JournalAccepts(journal, "COMMITTED")
    BY <2>1 DEF JournalAccepts, LegalTransition, Absent
  <2>3. ~WriteFails("COMMITTED")
    BY <2>2, <1>spent DEF WriteFails
  <2>4. Return("COMMITTED", FALSE)
    BY <1>last, <2>3 DEF WriteCommitted
  <2>5. QED BY <2>4 DEF Return, TargetIsTerminal
<1>records. CASE \/ RecordMigratorCommitted \/ RecordSignerCommitted
                 \/ RecordPlatformCommitted \/ RecordManifestCommitted
                 \/ RecordConverged \/ RecordFinalized
  <2>1. \E step \in CommitSteps :
           /\ frame.at = step
           /\ AppendFails(step)
    BY <1>records, <1>stays
       DEF RecordMigratorCommitted, RecordSignerCommitted,
           RecordPlatformCommitted, RecordManifestCommitted, RecordConverged,
           RecordFinalized, CommitRecord, CommitSteps
  <2>2. AppendFails(frame.at) /\ frame.at \in CommitSteps
    BY <2>1
  <2>3. ProgressAccepts(progress, frame.at, Fresh)
    BY <2>2, CommitIsAccepted
  <2>4. QED BY <2>2, <2>3, <1>spent DEF AppendFails
<1>calls. CASE \/ MigratorCommit \/ SignerCommit \/ AdapterCommit
               \/ ManifestCommit \/ Converge \/ Finalize
  <2>migrator. CASE MigratorCommit
    <3>1. /\ frame.at = "MigratorCommit"
          /\ "MIGRATOR_COMMITTED" \notin progress
          /\ ~RecordReadable /\ host' = host
      BY <2>migrator, <1>stays, <1>spent
         DEF MigratorCommit, CommitCall, CrashDuring, Fail, CutOff
    <3>2. tx.migrator = "local" => host.manifest = Target
      BY <3>1, <1>tx DEF Unbroken, Target
    <3>3. QED BY <3>1, <3>2, CommitIsAble
  <2>signer. CASE SignerCommit
    <3>1. frame.at = "SignerCommit" /\ ~GateOurs
      BY <2>signer, <1>stays, <1>spent
         DEF SignerCommit, CommitCall, CrashDuring, Fail, CutOff
    <3>2. QED BY <3>1, CommitIsAble
  <2>adapter. CASE AdapterCommit
    BY <2>adapter, <1>stays, <1>spent
         DEF AdapterCommit, CommitCall, CrashDuring, Fail, CutOff
  <2>manifest. CASE ManifestCommit
    <3>1. /\ frame.at = "ManifestCommit"
          /\ host.manifest \notin {tx.previous, Target}
      BY <2>manifest, <1>stays, <1>spent
         DEF ManifestCommit, CommitCall, CrashDuring, Fail, CutOff
    <3>2. QED BY <3>1, CommitIsAble
  <2>converge. CASE Converge
    <3>1. /\ frame.at = "Converge"
          /\ ~(/\ host.manifest = Target
               /\ host.current = Target
               /\ host.services = Target)
      BY <2>converge, <1>stays, <1>spent
         DEF Converge, CommitCall, CrashDuring, Fail, CutOff
    <3>2. QED BY <3>1, CommitIsAble
  <2>finalize. CASE Finalize
    BY <2>finalize, <1>stays, <1>spent
         DEF Finalize, CommitCall, CrashDuring, Fail, CutOff
  <2>last. QED
    BY <1>calls, <2>migrator, <2>signer, <2>adapter, <2>manifest,
       <2>converge, <2>finalize
<1>split. QED
  BY <1>entry, <1>last, <1>records, <1>calls DEF CommitStep

(* A recovery past the decision completes the commit or finds it complete. *)
LEMMA RecoveryAnswers ==
    ASSUME TypeOK, IInv, RollbackStep, supJournal = "SWITCHED", Returned'
    PROVE  TargetIsTerminal'
<1>1. frame.at = "Recover"
  BY RollbackLands DEF IInv, Belongs, InOrder
<1>2. RecoverEntry
  <2>1. CASE \/ StopTarget \/ SignerAbort \/ MigratorAbort \/ Restore
             \/ Discard
    BY <2>1, <1>1 DEF StopTarget, SignerAbort, MigratorAbort, Restore, Discard,
       RollbackCall
  <2>2. CASE \/ RecordRollbackStarted \/ RecordTargetStopped
             \/ RecordSignerAborted \/ RecordMigratorAborted
             \/ RecordPlatformRestored \/ RecordPlatformDiscarded
             \/ RecordRollbackCompleted \/ WriteRolledBack \/ AbortEntry
    BY <2>2, <1>1
       DEF RecordRollbackStarted, RecordTargetStopped, RecordSignerAborted,
           RecordMigratorAborted, RecordPlatformRestored,
           RecordPlatformDiscarded, RollbackRecord, RecordRollbackCompleted,
           WriteRolledBack, AbortEntry
  <2>3. QED BY <2>1, <2>2 DEF RollbackStep
<1>3. /\ journal \in {"VERIFIED", "COMMITTED"}
      /\ journal # Absent
      /\ RecoveryAccepts(journal, progress, Fresh)
  BY DEF IInv, JournalsAgree, RecoveryEvidence, Absent
<1>4. ~GoTo("MigratorCommit")
  BY DEF GoTo, At, Returned
<1>5. /\ journal = "VERIFIED" => RecoveryDecision(journal) = "COMPLETE_COMMIT"
      /\ journal = "COMMITTED" => RecoveryDecision(journal) = "ALREADY_CURRENT"
  BY DEF RecoveryDecision
<1>6. journal = "COMMITTED" /\ ReturnCommitted
  BY <1>2, <1>3, <1>4, <1>5 DEF RecoverEntry
<1>7. QED
  BY <1>6, CommittedIsReceipted DEF ReturnCommitted, Return, TargetIsTerminal

(* The engine keeps what its answers are worth. *)
LEMMA EngineKeepsAnswers ==
    ASSUME TypeOK, IInv, DInv, HInv, CInv, NInv, EngineStep
    PROVE  NInv'
<1>1. UNCHANGED supVars /\ UNCHANGED <<sup, supJournal>>
  BY DEF EngineStep, supVars
<1>2. /\ expired' = expired
      /\ OnlyCrashes' => OnlyCrashes
  BY RunSpends, CommitSpends, RollbackSpends, FaultShows, CrashIsNoFault
     DEF EngineStep, TargetStep
<1>3. Punctual'
  BY <1>2 DEF NInv, Punctual
<1>4. /\ supJournal # "ROLLED_BACK"
      /\ supJournal = "SWITCHED" =>
            (CommitStep \/ RollbackStep) /\ sup # "ROLLED_BACK"
  <2>1. CASE RunStep
    BY <2>1, RunDecidesNothing, RunFinds
  <2>2. CASE CommitStep
    BY <2>2, CommitStartsNoRollback
  <2>3. CASE RollbackStep
    BY <2>3, RollbackLands DEF IInv, Belongs, InOrder
  <2>4. QED BY <2>1, <2>2, <2>3 DEF EngineStep, TargetStep
<1>5. NotReversed'
  BY <1>1, <1>4 DEF NotReversed
<1>6. Answered'
  <2>1. ASSUME Unbroken', supJournal = "SWITCHED", Returned'
        PROVE  TargetIsTerminal'
    BY <2>1, <1>1, <1>4, CommitAnswers, RecoveryAnswers
  <2>2. QED BY <2>1, <1>1, <1>4 DEF Answered
<1>7. QED BY <1>3, <1>5, <1>6 DEF NInv

(* The supervisor records a rollback only of what it has not decided.      *)
LEMMA SupervisorKeepsAnswers ==
    ASSUME TypeOK, IInv, DInv, NInv, SupervisorStep
    PROVE  NInv'
<1>moves. /\ UNCHANGED <<tx, progress, host>>
          /\ frame'.at \in {"idle", "IDLE", "Commit", "Abort", "Recover"}
  BY SupervisorMoves
<1>writes. CASE \/ WriteSupPrepared \/ WriteSupVerified
                \/ WriteSupCommitted \/ WriteSupRolledBack
                \/ RunTarget \/ CommitTarget \/ ResumeCommit
  <2>1. /\ expired' = expired
        /\ sup' # "ROLLED_BACK"
        /\ \/ Spend("faults")
           \/ UNCHANGED <<budget, supJournal>>
           \/ /\ UNCHANGED budget
              /\ sup = "ROLLED_BACK" \/ supJournal' # "ROLLED_BACK"
    BY <1>writes
       DEF WriteSupPrepared, WriteSupVerified, WriteSupCommitted,
           WriteSupRolledBack, RunTarget, CommitTarget, ResumeCommit,
           SupAdvance, SupAdvanceAndCall, SupWrites, SupWriteFails, CallTarget
  <2>2. OnlyCrashes' => OnlyCrashes
    BY <2>1, FaultShows, CrashIsNoFault
  <2>3. Punctual'
    BY <2>1, <2>2 DEF NInv, Punctual
  <2>4. Answered'
    BY <2>1, <1>moves DEF Answered, Returned
  <2>5. Unbroken' => Unbroken
    BY <2>2, <1>moves DEF Unbroken, Target
  <2>6. Decided' = Decided
    BY <1>moves DEF Decided, Target
  <2>7. Unbroken /\ sup = "ROLLED_BACK" => ~Decided
    BY DEF IInv, InOrder, DInv, NeverBoth, Undecided, NInv, Answered
  <2>8. Unbroken' /\ supJournal' = "ROLLED_BACK" => ~Decided
    BY <2>1, <2>5, <2>7, FaultShows DEF NInv, NotReversed, Unbroken
  <2>9. NotReversed'
    BY <2>6, <2>8 DEF NotReversed
  <2>10. QED BY <2>3, <2>4, <2>9 DEF NInv
<1>goes. CASE \/ RunReturned \/ AbortReturned \/ CommitReturned
              \/ RecoverReturned \/ CompleteReturned
              \/ RecoverPending \/ Restart
  <2>1. /\ expired' \in {expired, FALSE}
        /\ UNCHANGED <<budget, supJournal>>
        /\ sup' = "ROLLED_BACK" =>
              \/ sup = "awaitAbort"
              \/ sup = "awaitRecover" /\ Returned /\ ~TargetIsTerminal
    BY <1>goes
       DEF RunReturned, AbortReturned, CommitReturned, RecoverReturned,
           CompleteReturned, RecoverPending, Restart, Resume, CallTarget
  <2>2. OnlyCrashes' <=> OnlyCrashes
    BY <2>1 DEF OnlyCrashes
  <2>3. Punctual'
    BY <2>1, <2>2 DEF NInv, Punctual
  <2>4. Unbroken' <=> Unbroken
    BY <2>2, <1>moves DEF Unbroken, Target
  <2>5. Answered'
    BY <2>1, <2>4, <1>moves
       DEF NInv, Answered, Returned, IInv, InOrder
  <2>6. NotReversed'
    BY <2>1, <2>4, <1>moves DEF NInv, NotReversed, Decided, Target
  <2>7. QED BY <2>3, <2>5, <2>6 DEF NInv
<1>last. QED
  BY <1>writes, <1>goes DEF SupervisorStep

(* The environment changes no answer without a fault. *)
LEMMA EnvironmentKeepsAnswers ==
    ASSUME TypeOK, NInv, Environment
    PROVE  NInv'
<1>begin. CASE BeginTransaction
  <2>1. /\ supJournal' = "IDLE"
        /\ expired' \in {FALSE, expired}
        /\ budget' = budget \/ Spend("faults")
    BY <1>begin DEF BeginTransaction
  <2>2. OnlyCrashes' => OnlyCrashes
    BY <2>1, FaultShows, CrashIsNoFault
  <2>3. Punctual'
    BY <2>1, <2>2 DEF NInv, Punctual
  <2>4. Answered' /\ NotReversed'
    BY <2>1 DEF Answered, NotReversed
  <2>5. QED BY <2>3, <2>4 DEF NInv
<1>crash. CASE Crash
  <2>1. /\ UNCHANGED <<tx, host, expired, supJournal>>
        /\ sup' = "idle"
        /\ frame'.at = "idle"
        /\ Spend("crashes")
    BY <1>crash DEF Crash, Resume, At
  <2>2. OnlyCrashes' <=> OnlyCrashes
    BY <2>1, CrashIsNoFault
  <2>3. QED
    BY <2>1, <2>2
       DEF NInv, Punctual, Answered, NotReversed, Unbroken, Returned, Decided,
           Target
<1>expire. CASE Expire
  <2>1. ~OnlyCrashes'
    BY <1>expire, FaultShows DEF Expire
  <2>2. QED BY <2>1 DEF NInv, Punctual, Answered, NotReversed, Unbroken
<1>quiet. CASE Quiescent
  BY <1>quiet
     DEF Quiescent, vars, NInv, Punctual, Answered, NotReversed, Unbroken,
         OnlyCrashes, Returned, TargetIsTerminal, Decided, Target
<1>last. QED
  BY <1>begin, <1>crash, <1>expire, <1>quiet DEF Environment

(* Nothing has been answered at first. *)
LEMMA InitAnswers == Init => NInv
BY DEF Init, TargetInit, NInv, Punctual, Answered, NotReversed, Absent

LEMMA NextKeepsAnswers ==
    TypeOK /\ IInv /\ DInv /\ HInv /\ CInv /\ NInv /\ [Next]_vars => NInv'
<1> SUFFICES ASSUME TypeOK, IInv, DInv, HInv, CInv, NInv, [Next]_vars
             PROVE  NInv'
  OBVIOUS
<1>1. CASE UNCHANGED vars
  BY <1>1
     DEF vars, NInv, Punctual, Answered, NotReversed, Unbroken, OnlyCrashes,
         Returned, TargetIsTerminal, Decided, Target
<1>2. QED
  BY <1>1, EngineKeepsAnswers, SupervisorKeepsAnswers, EnvironmentKeepsAnswers
     DEF Next

LEMMA AnswersInvariant ==
    Spec => [](TypeOK /\ IInv /\ DInv /\ HInv /\ CInv /\ NInv)
BY NeedsInvariant, InitAnswers, NextKeepsAnswers, PTL DEF Spec

(* "After the decision, recovery completes forward" holds of every number  *)
(* of crashes, wherever they fall: an update whose manifest is switched is *)
(* reported as rolled back only after a call or a durable write has failed *)
(* or a deadline has passed, which takes Recover of supervisor.go to its   *)
(* rollback.                                                               *)
THEOREM CrashesReverseNoDecision == Spec => [](OnlyCrashes => DecisionIsFinal)
<1>1. NInv => (OnlyCrashes => DecisionIsFinal)
  BY DEF NInv, NotReversed, Unbroken, Decided, DecisionIsFinal
<1>2. QED BY AnswersInvariant, <1>1, PTL

(* Nor do crashes alone give custody back that has moved, but for the      *)
(* local bridge, whose commit deletes the record that its repetition reads *)
(* (hosted_signer.go keeps its record until MIGRATOR_COMMITTED is on disk).*)
THEOREM CrashesReverseNoCustody ==
    Spec => [](OnlyCrashes /\ tx.migrator # "local" => CustodyIsFinal)
<1>1. NInv => (OnlyCrashes /\ tx.migrator # "local" => CustodyIsFinal)
  BY DEF NInv, NotReversed, Unbroken, Decided, CustodyIsFinal
<1>2. QED BY AnswersInvariant, <1>1, PTL
=============================================================================
