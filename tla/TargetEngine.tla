---------------------------- MODULE TargetEngine ----------------------------
(***************************************************************************)
(* The installed target controller of the lifecycle engine                 *)
(* (tools/fased-lifecycled/engine/target.go) with the participants it      *)
(* drives: signer, schema migrator, platform adapter and installation      *)
(* manifest.  A generation is a number: 0 is "nothing installed", 1 what   *)
(* the first transaction may find installed, and transaction k installs    *)
(* generation k + 1.                                                       *)
(*                                                                         *)
(* One engine call runs at a time; frame.at names the participant call or  *)
(* durable write it is about to make.  Each is one action: it may succeed, *)
(* report an error after any part of its effect, or be cut by a crash.     *)
(***************************************************************************)
EXTENDS Integers, LifecyclePhases

CONSTANTS
    MaxTx,         \* bound: transactions in a behaviour
    MaxFaults,     \* bound: calls or durable writes that fail of themselves
    MaxCrashes,    \* bound: crashes of the daemon
    MaxTimeouts,   \* bound: operations whose deadline passes
    MigratorKinds  \* adapters of RegistryFor a transaction's migration may use

ASSUME BoundsAssumption ==
    /\ MaxTx \in Nat \ {0}
    /\ MaxFaults \in Nat
    /\ MaxCrashes \in Nat
    /\ MaxTimeouts \in Nat

ASSUME MigratorAssumption ==
    MigratorKinds \in (SUBSET {"directory", "local", "hosted"}) \ {{}}

VARIABLES
    tx,        \* the transaction: number, generation it replaces, migration
    journal,   \* phase in the TARGET_CONTROLLER journal
    progress,  \* steps in progress.json
    host,      \* what the participants changed on the machine
    frame,     \* the engine call in progress
    result,    \* what the last engine call returned
    expired,   \* the operation's deadline has passed
    budget     \* faults, crashes and deadlines still allowed

targetVars == <<tx, journal, progress, host, frame, result, expired, budget>>

NoUndo == -1
Target == tx.id + 1
Fresh == tx.previous = 0      \* PlanAction = "INSTALL" and Previous = nil

Generations == 0 .. MaxTx + 1

RunCalls == {"StageGeneration", "SignerPrepare", "AdapterPrepare", "Quiesce",
             "PrepareState", "MigratorPrepare", "MigratorActivate",
             "AdapterActivate", "MigratorVerify", "SignerVerify",
             "AdapterVerify"}
CommitCalls == {"MigratorCommit", "SignerCommit", "AdapterCommit",
                "ManifestCommit", "Converge", "Finalize"}
RollbackCalls == {"StopTarget", "SignerAbort", "MigratorAbort", "Restore",
                  "Discard"}
Entries == {"Commit", "Abort", "Recover"}

(* Where a call can be: at an entry, before a participant call, before an  *)
(* append (the step's name), before a journal write (the phase's name),    *)
(* returned, or lost with the process.                                     *)
Locations == RunCalls \cup CommitCalls \cup RollbackCalls \cup Entries
             \cup ProgressSteps \cup Phases \cup {"idle", "return", "down"}

Host == [gate        : 0 .. MaxTx,        \* transaction in the signer's update gate
         services    : Generations,       \* generation the services run, 0 = stopped
         units       : Generations,       \* generation of unit and lifecycle files
         state       : Generations,       \* generation whose typed-state form is on disk
         marker      : BOOLEAN,           \* the migration record exists
         migration   : {"previous", "target", "final"},
         undoUnits   : Generations \cup {NoUndo},
         undoState   : Generations \cup {NoUndo},
         current     : Generations,       \* generation the `current` link selects
         manifest    : Generations]       \* ActiveGeneration of the manifest

Transactions == [id : 0 .. MaxTx, previous : Generations,
                 migrator : {"directory", "local", "hosted"}]

Frames == [at : Locations, restore : BOOLEAN, failed : BOOLEAN]

Results == [phase : Phases \cup {Absent}, err : BOOLEAN]

Budgets == [faults : 0 .. MaxFaults, crashes : 0 .. MaxCrashes,
            timeouts : 0 .. MaxTimeouts]

TargetTypeOK ==
    /\ tx \in Transactions
    /\ journal \in Phases \cup {Absent}
    /\ progress \subseteq ProgressSteps
    /\ host \in Host
    /\ frame \in Frames
    /\ result \in Results
    /\ expired \in BOOLEAN
    /\ budget \in Budgets

At(location) == [at |-> location, restore |-> FALSE, failed |-> FALSE]

TargetInit ==
    /\ \E installed \in {0, 1} :
          /\ tx = [id |-> 0, previous |-> installed, migrator |-> "directory"]
          /\ host = [gate |-> 0, services |-> installed, units |-> installed,
                     state |-> installed, marker |-> FALSE,
                     migration |-> "previous", undoUnits |-> NoUndo,
                     undoState |-> NoUndo, current |-> installed,
                     manifest |-> installed]
    /\ journal = Absent
    /\ progress = {}
    /\ frame = At("idle")
    /\ result = [phase |-> Absent, err |-> FALSE]
    /\ expired = FALSE
    /\ budget = [faults |-> MaxFaults, crashes |-> MaxCrashes,
                 timeouts |-> MaxTimeouts]

-----------------------------------------------------------------------------
(* How a call or a write ends.                                             *)

Spend(kind) == budget[kind] > 0 /\ budget' = [budget EXCEPT ![kind] = @ - 1]

Return(phase, err) ==
    /\ frame' = At("return")
    /\ result' = [phase |-> phase, err |-> err]

GoTo(location) == frame' = At(location)

(* `return engine.rollback(ctx, tx, restore, err)`.  The error a rollback  *)
(* passes on is not kept: no caller looks at it, only at the phase.        *)
EnterRollback(restore) ==
    frame' = [at |-> "ROLLBACK_STARTED", restore |-> restore, failed |-> FALSE]

(* `late` holds what a call cut by its deadline may leave of the host; it  *)
(* is empty for a call that does not heed its context.                     *)
Heedless == {}
CutOff(late) == expired /\ late # Heedless

(* A call whose precondition fails changes nothing; any other failure or a *)
(* crash leaves part of its effect.                                        *)
Left(able, done, parts) == IF able THEN {host, done} \cup parts ELSE {host}

Succeed(able, late, done) ==
    able /\ ~CutOff(late) /\ host' = done /\ UNCHANGED budget

Fail(able, late, done, parts) ==
    \/ able /\ CutOff(late) /\ host' \in late /\ UNCHANGED budget
    \/ able /\ ~CutOff(late) /\ Spend("faults")
       /\ host' \in Left(able, done, parts)
    \/ ~able /\ UNCHANGED <<host, budget>>

CrashDuring(able, done, parts) ==
    /\ Spend("crashes")
    /\ host' \in Left(able, done, parts)
    /\ GoTo("down")
    /\ UNCHANGED result

(* A durable write that reports an error may have reached the disk:        *)
(* writeAtomic syncs the directory after the rename.                       *)
Append(step) ==
    /\ ProgressAccepts(progress, step, Fresh)
    /\ progress' = progress \cup {step}
    /\ UNCHANGED budget

AppendFails(step) ==
    IF ProgressAccepts(progress, step, Fresh)
    THEN Spend("faults") /\ progress' \in {progress, progress \cup {step}}
    ELSE UNCHANGED <<progress, budget>>

Write(phase) ==
    JournalAccepts(journal, phase) /\ journal' = phase /\ UNCHANGED budget

WriteFails(phase) ==
    IF JournalAccepts(journal, phase)
    THEN Spend("faults") /\ journal' \in {journal, phase}
    ELSE UNCHANGED <<journal, budget>>

-----------------------------------------------------------------------------
(* The shapes the engine's statements have.                                *)

RunCall(location, able, late, done, parts, next, restore) ==
    /\ frame.at = location
    /\ \/ Succeed(able, late, done) /\ GoTo(next) /\ UNCHANGED result
       \/ Fail(able, late, done, parts) /\ EnterRollback(restore)
          /\ UNCHANGED result
       \/ CrashDuring(able, done, parts)
    /\ UNCHANGED <<tx, journal, progress, expired>>

RunRecord(step, next, restore) ==
    /\ frame.at = step
    /\ \/ Append(step) /\ GoTo(next)
       \/ AppendFails(step) /\ EnterRollback(restore)
    /\ UNCHANGED <<tx, journal, host, result, expired>>

(* engine.advance inside Run: an error returns without any rollback. *)
RunAdvance(phase, next) ==
    /\ frame.at = phase
    /\ \/ Write(phase) /\ GoTo(next) /\ UNCHANGED result
       \/ WriteFails(phase) /\ Return(Absent, TRUE)
    /\ UNCHANGED <<tx, progress, host, expired>>

(* `if !done[step] { call; progress }` in commit: an error leaves the      *)
(* commit pending at VERIFIED.                                             *)
CommitCall(location, step, able, late, done, parts, next) ==
    /\ frame.at = location
    /\ \/ /\ step \in progress
          /\ GoTo(next)
          /\ UNCHANGED <<host, result, budget>>
       \/ /\ step \notin progress
          /\ \/ Succeed(able, late, done) /\ GoTo(step) /\ UNCHANGED result
             \/ Fail(able, late, done, parts) /\ Return("VERIFIED", TRUE)
             \/ CrashDuring(able, done, parts)
    /\ UNCHANGED <<tx, journal, progress, expired>>

CommitRecord(step, next) ==
    /\ frame.at = step
    /\ \/ Append(step) /\ GoTo(next) /\ UNCHANGED result
       \/ AppendFails(step) /\ Return("VERIFIED", TRUE)
    /\ UNCHANGED <<tx, journal, host, expired>>

(* `if needed && !done[step]` in rollback: an error is remembered and the  *)
(* remaining steps still run.                                              *)
RollbackCall(location, step, needed, able, late, done, parts, next) ==
    /\ frame.at = location
    /\ \/ /\ ~needed \/ step \in progress
          /\ frame' = [frame EXCEPT !.at = next]
          /\ UNCHANGED <<host, result, budget>>
       \/ /\ needed /\ step \notin progress
          /\ \/ /\ Succeed(able, late, done)
                /\ frame' = [frame EXCEPT !.at = step]
                /\ UNCHANGED result
             \/ /\ Fail(able, late, done, parts)
                /\ frame' = [frame EXCEPT !.at = next, !.failed = TRUE]
                /\ UNCHANGED result
             \/ CrashDuring(able, done, parts)
    /\ UNCHANGED <<tx, journal, progress, expired>>

RollbackRecord(step, next) ==
    /\ frame.at = step
    /\ \/ Append(step) /\ frame' = [frame EXCEPT !.at = next]
       \/ AppendFails(step)
          /\ frame' = [frame EXCEPT !.at = next, !.failed = TRUE]
    /\ UNCHANGED <<tx, journal, host, result, expired>>

-----------------------------------------------------------------------------
(* TargetEngine.Run                                                        *)

WriteIdle == RunAdvance("IDLE", "StageGeneration")

(* The generation bytes are staged already: the daemon staged them under   *)
(* the lock.  An error returns with the journal at IDLE.                   *)
StageGeneration ==
    /\ frame.at = "StageGeneration"
    /\ \/ GoTo("GENERATION_STAGED") /\ UNCHANGED <<result, budget>>
       \/ Spend("faults") /\ Return("IDLE", TRUE)
       \/ Spend("crashes") /\ GoTo("down") /\ UNCHANGED result
    /\ UNCHANGED <<tx, journal, progress, host, expired>>

RecordGenerationStaged ==
    /\ frame.at = "GENERATION_STAGED"
    /\ \/ Append("GENERATION_STAGED") /\ GoTo("STAGED") /\ UNCHANGED result
       \/ AppendFails("GENERATION_STAGED") /\ Return(Absent, TRUE)
    /\ UNCHANGED <<tx, journal, host, expired>>

WriteStaged == RunAdvance("STAGED", "SignerPrepare")

(* Mutated form: a gate that is there is taken for this transaction's *)
SignerPrepareUnderAnyGate ==
    RunCall("SignerPrepare", TRUE, Heedless,
            [host EXCEPT !.gate = IF @ = 0 THEN tx.id ELSE @],
            {}, "SIGNER_PREPARED", FALSE)

(* writeGate and removeGate: the gate of another transaction is an error,  *)
(* nothing to remove is success.                                           *)
GateOurs == host.gate \in {0, tx.id}
GateWritten == [host EXCEPT !.gate = tx.id]
GateRemoved == [host EXCEPT !.gate = IF @ = tx.id THEN 0 ELSE @]

(* Same-schema updates make no call to the signer itself. *)
SignerPrepare ==
    RunCall("SignerPrepare", GateOurs, Heedless, GateWritten, {},
            "SIGNER_PREPARED", FALSE)

RecordSignerPrepared == RunRecord("SIGNER_PREPARED", "AdapterPrepare", FALSE)

(* Units.Prepare and Files.Prepare keep what they find the first time. *)
UnitsKept == [host EXCEPT !.undoUnits = IF @ = NoUndo THEN host.units ELSE @]

AdapterPrepare ==
    RunCall("AdapterPrepare", TRUE, {host}, UnitsKept, {},
            "PLATFORM_PREPARED", FALSE)

RecordPlatformPrepared == RunRecord("PLATFORM_PREPARED", "PREPARED", FALSE)

WritePrepared == RunAdvance("PREPARED", "QUIESCE_STARTED")

RecordQuiesceStarted == RunRecord("QUIESCE_STARTED", "Quiesce", FALSE)

Quiesce ==
    RunCall("Quiesce", TRUE, {host},
            [host EXCEPT !.services = IF Fresh THEN @ ELSE 0],
            {}, "QUIESCED", TRUE)

RecordQuiesced == RunRecord("QUIESCED", "PrepareState", TRUE)

StateKept == [host EXCEPT !.undoState = host.state]

PrepareState ==
    RunCall("PrepareState", TRUE, Heedless, StateKept, {},
            "STATE_PREPARED", TRUE)

RecordStatePrepared == RunRecord("STATE_PREPARED", "MigratorPrepare", TRUE)

MigratorPrepare ==
    RunCall("MigratorPrepare", TRUE, Heedless,
            [host EXCEPT !.marker = TRUE], {}, "MIGRATOR_PREPARED", TRUE)

RecordMigratorPrepared ==
    RunRecord("MIGRATOR_PREPARED", "MigratorActivate", TRUE)

MigratorActivate ==
    RunCall("MigratorActivate", host.marker, Heedless,
            [host EXCEPT !.migration = "target"],
            {}, "MIGRATOR_ACTIVATED", TRUE)

RecordMigratorActivated ==
    RunRecord("MIGRATOR_ACTIVATED", "AdapterActivate", TRUE)

(* Typed state, then unit and lifecycle files, then the services start. *)
StateActivated == [host EXCEPT !.state = Target]
UnitsActivated == [StateActivated EXCEPT !.units = Target]
PartlyActivated == {StateActivated, UnitsActivated}

AdapterActivate ==
    RunCall("AdapterActivate",
            host.undoUnits # NoUndo /\ host.undoState # NoUndo,
            PartlyActivated, [UnitsActivated EXCEPT !.services = Target],
            PartlyActivated, "PLATFORM_ACTIVATED", TRUE)

RecordPlatformActivated == RunRecord("PLATFORM_ACTIVATED", "SWITCHED", TRUE)

WriteSwitched == RunAdvance("SWITCHED", "MigratorVerify")

MigratorVerify ==
    RunCall("MigratorVerify", host.marker,
            IF tx.migrator = "hosted" THEN {host} ELSE Heedless,
            host, {}, "MIGRATOR_VERIFIED", TRUE)

RecordMigratorVerified ==
    RunRecord("MIGRATOR_VERIFIED", "SignerVerify", TRUE)

SignerVerify ==
    RunCall("SignerVerify", TRUE, Heedless, host, {}, "SIGNER_VERIFIED", TRUE)

RecordSignerVerified == RunRecord("SIGNER_VERIFIED", "AdapterVerify", TRUE)

(* A fresh installation returns no plugin receipt and records none. *)
AdapterVerify ==
    RunCall("AdapterVerify", host.services = Target, {host}, host, {},
            IF Fresh THEN "PLATFORM_VERIFIED" ELSE "PLUGIN_VERIFIED", TRUE)

RecordPluginVerified ==
    RunRecord("PLUGIN_VERIFIED", "PLATFORM_VERIFIED", TRUE)

(* Mutated form: the append is forgotten *)
UnrecordedPlatformVerified ==
    /\ frame.at = "PLATFORM_VERIFIED"
    /\ GoTo("VERIFIED")
    /\ UNCHANGED <<tx, journal, progress, host, result, expired, budget>>

RecordPlatformVerified ==
    RunRecord("PLATFORM_VERIFIED", "VERIFIED", TRUE)

WriteVerified ==
    /\ frame.at = "VERIFIED"
    /\ \/ Write("VERIFIED") /\ Return("VERIFIED", FALSE)
       \/ WriteFails("VERIFIED") /\ Return(Absent, TRUE)
    /\ UNCHANGED <<tx, progress, host, expired>>

RunStep ==
    \/ WriteIdle \/ StageGeneration \/ RecordGenerationStaged \/ WriteStaged
    \/ SignerPrepare \/ RecordSignerPrepared
    \/ AdapterPrepare \/ RecordPlatformPrepared \/ WritePrepared
    \/ RecordQuiesceStarted \/ Quiesce \/ RecordQuiesced
    \/ PrepareState \/ RecordStatePrepared
    \/ MigratorPrepare \/ RecordMigratorPrepared
    \/ MigratorActivate \/ RecordMigratorActivated
    \/ AdapterActivate \/ RecordPlatformActivated \/ WriteSwitched
    \/ MigratorVerify \/ RecordMigratorVerified
    \/ SignerVerify \/ RecordSignerVerified
    \/ AdapterVerify \/ RecordPluginVerified \/ RecordPlatformVerified
    \/ WriteVerified

-----------------------------------------------------------------------------
(* TargetEngine.Commit and the commit half of Recover                      *)

(* AdapterRegistry: a directory record disappears with its commit; the     *)
(* local bridge deletes the legacy custody, then its record; the hosted    *)
(* migration keeps a record so that its commit can be repeated.            *)
MigratorCommitted ==
    [host EXCEPT !.migration = "final",
                 !.marker = (tx.migrator = "hosted") /\ @]

PartlyCommitted ==
    IF tx.migrator = "directory" THEN {}
    ELSE {[host EXCEPT !.migration = "final"]}

(* Only the directory migration commits without its record. *)
RecordReadable == tx.migrator = "directory" \/ host.marker

MigratorCommit ==
    CommitCall("MigratorCommit", "MIGRATOR_COMMITTED",
               RecordReadable,
               IF tx.migrator = "hosted" THEN {host} \cup PartlyCommitted
               ELSE Heedless,
               MigratorCommitted, PartlyCommitted,
               "SignerCommit")

RecordMigratorCommitted == CommitRecord("MIGRATOR_COMMITTED", "SignerCommit")

SignerCommit ==
    CommitCall("SignerCommit", "SIGNER_COMMITTED", GateOurs, Heedless,
               GateRemoved, {}, "AdapterCommit")

(* Mutated form: the manifest is committed before the platform *)
ManifestBeforePlatform == CommitRecord("SIGNER_COMMITTED", "ManifestCommit")

RecordSignerCommitted == CommitRecord("SIGNER_COMMITTED", "AdapterCommit")

(* ActivateGeneration points `current` at the target, whatever it was. *)
AdapterCommit ==
    CommitCall("AdapterCommit", "PLATFORM_COMMITTED", TRUE, Heedless,
               [host EXCEPT !.current = Target], {}, "ManifestCommit")

RecordPlatformCommitted == CommitRecord("PLATFORM_COMMITTED", "ManifestCommit")

(* CommitManifest compares with the digest the transaction was planned on. *)
ManifestCommit ==
    CommitCall("ManifestCommit", "MANIFEST_COMMITTED",
               host.manifest \in {tx.previous, Target}, {host},
               [host EXCEPT !.manifest = Target], {}, "Converge")

RecordManifestCommitted == CommitRecord("MANIFEST_COMMITTED", "Converge")

(* currentConvergenceEvidence reads the manifest, `current` and the        *)
(* services, and fails unless all of them are the target's.                *)
Converge ==
    CommitCall("Converge", "TERMINAL_CONVERGENCE_VERIFIED",
               /\ host.manifest = Target
               /\ host.current = Target
               /\ host.services = Target, {host}, host, {}, "Finalize")

RecordConverged ==
    CommitRecord("TERMINAL_CONVERGENCE_VERIFIED", "Finalize")

(* Mutated form: the typed-state snapshot outlives the transaction *)
UnitsUndoDropped == [host EXCEPT !.undoUnits = NoUndo]

(* Units, files, typed state and plugins are dropped one by one; the error *)
(* of one does not keep the others.                                        *)
UndoDropped == [host EXCEPT !.undoUnits = NoUndo, !.undoState = NoUndo]
UndoPartlyDropped ==
    {[host EXCEPT !.undoUnits = NoUndo], [host EXCEPT !.undoState = NoUndo]}

Finalize ==
    CommitCall("Finalize", "PLATFORM_FINALIZED", TRUE, Heedless, UndoDropped,
               UndoPartlyDropped, "COMMITTED")

RecordFinalized == CommitRecord("PLATFORM_FINALIZED", "COMMITTED")

WriteCommitted ==
    /\ frame.at = "COMMITTED"
    /\ \/ Write("COMMITTED") /\ Return("COMMITTED", FALSE)
       \/ WriteFails("COMMITTED") /\ Return(Absent, TRUE)
    /\ UNCHANGED <<tx, progress, host, expired>>

(* convergenceDigest of a committed transaction: the receipt must exist. *)
ReturnCommitted ==
    Return("COMMITTED", "TERMINAL_CONVERGENCE_VERIFIED" \notin progress)

(* Mutated form: the undo data is dropped before the decision *)
FinalizeFirstEntry ==
    /\ frame.at = "Commit"
    /\ IF journal = "VERIFIED" THEN GoTo("Finalize") /\ UNCHANGED result
                               ELSE Return(Absent, TRUE)
    /\ UNCHANGED <<tx, journal, progress, host, expired, budget>>

CommitEntry ==
    /\ frame.at = "Commit"
    /\ \/ journal = "VERIFIED" /\ GoTo("MigratorCommit") /\ UNCHANGED result
       \/ journal = "COMMITTED" /\ ReturnCommitted
       \/ journal \notin {"VERIFIED", "COMMITTED"} /\ Return(Absent, TRUE)
    /\ UNCHANGED <<tx, journal, progress, host, expired, budget>>

CommitStep ==
    \/ CommitEntry
    \/ MigratorCommit \/ RecordMigratorCommitted
    \/ SignerCommit \/ RecordSignerCommitted
    \/ AdapterCommit \/ RecordPlatformCommitted
    \/ ManifestCommit \/ RecordManifestCommitted
    \/ Converge \/ RecordConverged
    \/ Finalize \/ RecordFinalized
    \/ WriteCommitted

-----------------------------------------------------------------------------
(* TargetEngine.rollback, Abort and Recover                                *)

RecordRollbackStarted ==
    \/ /\ "ROLLBACK_STARTED" \notin progress
       /\ RollbackRecord("ROLLBACK_STARTED", "StopTarget")
    \/ /\ frame.at = "ROLLBACK_STARTED"
       /\ "ROLLBACK_STARTED" \in progress
       /\ frame' = [frame EXCEPT !.at = "StopTarget"]
       /\ UNCHANGED <<tx, journal, progress, host, result, expired, budget>>

StopTarget ==
    RollbackCall("StopTarget", "TARGET_STOPPED", frame.restore, TRUE, {host},
                 [host EXCEPT !.services = 0], {}, "SignerAbort")

RecordTargetStopped == RollbackRecord("TARGET_STOPPED", "SignerAbort")

SignerAbort ==
    RollbackCall("SignerAbort", "SIGNER_ABORTED",
                 "SIGNER_PREPARED" \in progress, GateOurs, Heedless,
                 GateRemoved, {}, "MigratorAbort")

RecordSignerAborted == RollbackRecord("SIGNER_ABORTED", "MigratorAbort")

(* No record: nothing to abort. *)
MigratorAborted ==
    IF host.marker
    THEN [host EXCEPT !.marker = FALSE, !.migration = "previous"]
    ELSE host

(* The hosted migration refuses once its native custody change started. *)
CustodyMoved == tx.migrator = "hosted" /\ host.migration = "final"

MigratorAbort ==
    RollbackCall("MigratorAbort", "MIGRATOR_ABORTED",
                 "MIGRATOR_PREPARED" \in progress, ~CustodyMoved, Heedless,
                 MigratorAborted, {}, "Restore")

RecordMigratorAborted == RollbackRecord("MIGRATOR_ABORTED", "Restore")

(* Mutated form: the missing snapshot is not noticed *)
StateRestoredBlindly == [host EXCEPT !.state = host.undoState]

(* TypedState.Restore without a snapshot is silently complete; the files   *)
(* and units need theirs.                                                  *)
StateRestored ==
    IF host.undoState = NoUndo THEN host
    ELSE [host EXCEPT !.state = host.undoState]

(* Mutated form: the unit files are forgotten *)
OnlyStateRestored == StateRestored

UnitsRestored == [StateRestored EXCEPT !.units = host.undoUnits]

(* systemctl start leaves a running service as it is; a fresh installation *)
(* has no predecessor to start.                                            *)
HostRestored ==
    [UnitsRestored EXCEPT !.services =
        IF Fresh \/ @ # 0 THEN @ ELSE host.undoUnits]

Restore ==
    RollbackCall("Restore", "PLATFORM_RESTORED", frame.restore,
                 host.undoUnits # NoUndo, {UnitsRestored}, HostRestored,
                 {StateRestored, UnitsRestored}, "Discard")

RecordPlatformRestored == RollbackRecord("PLATFORM_RESTORED", "Discard")

(* Discard runs whatever became of Restore. *)
Discard ==
    RollbackCall("Discard", "PLATFORM_DISCARDED", TRUE, TRUE, Heedless,
                 UndoDropped, UndoPartlyDropped, "ROLLBACK_COMPLETED")

RecordPlatformDiscarded ==
    RollbackRecord("PLATFORM_DISCARDED", "ROLLBACK_COMPLETED")

(* With any error the transaction stays where it is, to be rolled back by  *)
(* a later call.                                                           *)
RecordRollbackCompleted ==
    /\ frame.at = "ROLLBACK_COMPLETED"
    /\ \/ /\ frame.failed
          /\ Return(journal, TRUE)
          /\ UNCHANGED <<progress, budget>>
       \/ /\ ~frame.failed
          /\ "ROLLBACK_COMPLETED" \in progress
          /\ GoTo("ROLLED_BACK")
          /\ UNCHANGED <<progress, result, budget>>
       \/ /\ ~frame.failed
          /\ "ROLLBACK_COMPLETED" \notin progress
          /\ \/ Append("ROLLBACK_COMPLETED") /\ GoTo("ROLLED_BACK")
                /\ UNCHANGED result
             \/ AppendFails("ROLLBACK_COMPLETED") /\ Return(journal, TRUE)
    /\ UNCHANGED <<tx, journal, host, expired>>

(* advance(tx, ROLLED_BACK) is illegal from VERIFIED. *)
WriteRolledBack ==
    /\ frame.at = "ROLLED_BACK"
    /\ \/ Write("ROLLED_BACK") /\ Return("ROLLED_BACK", FALSE)
       \/ WriteFails("ROLLED_BACK") /\ Return(journal, TRUE)
    /\ UNCHANGED <<tx, progress, host, expired>>

AbortEntry ==
    /\ frame.at = "Abort"
    /\ \/ journal \in {Absent, "COMMITTED"} /\ Return(Absent, TRUE)
       \/ journal = "ROLLED_BACK" /\ Return("ROLLED_BACK", FALSE)
       \/ /\ journal \in Pending
          /\ EnterRollback(journal \in {"SWITCHED", "VERIFIED"})
          /\ UNCHANGED result
    /\ UNCHANGED <<tx, journal, progress, host, expired, budget>>

RecoverEntry ==
    /\ frame.at = "Recover"
    /\ IF journal = Absent \/ ~RecoveryAccepts(journal, progress, Fresh)
       THEN Return(Absent, TRUE)
       ELSE LET decision == RecoveryDecision(journal)
            IN  \/ /\ decision \in {"DISCARD_STAGED", "ABORT_PREPARED"}
                   /\ EnterRollback("QUIESCE_STARTED" \in progress)
                   /\ UNCHANGED result
                \/ /\ decision = "RESTORE_PREVIOUS"
                   /\ EnterRollback(TRUE)
                   /\ UNCHANGED result
                \/ /\ decision = "COMPLETE_COMMIT"
                   /\ GoTo("MigratorCommit")
                   /\ UNCHANGED result
                \/ decision = "ALREADY_CURRENT" /\ ReturnCommitted
                \/ decision = "RETRY_ALLOWED" /\ Return("ROLLED_BACK", FALSE)
    /\ UNCHANGED <<tx, journal, progress, host, expired, budget>>

RollbackStep ==
    \/ AbortEntry \/ RecoverEntry
    \/ RecordRollbackStarted
    \/ StopTarget \/ RecordTargetStopped
    \/ SignerAbort \/ RecordSignerAborted
    \/ MigratorAbort \/ RecordMigratorAborted
    \/ Restore \/ RecordPlatformRestored
    \/ Discard \/ RecordPlatformDiscarded
    \/ RecordRollbackCompleted \/ WriteRolledBack

TargetStep == RunStep \/ CommitStep \/ RollbackStep
=============================================================================
