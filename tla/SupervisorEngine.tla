-------------------------- MODULE SupervisorEngine --------------------------
(***************************************************************************)
(* The supervisor half of the lifecycle engine (engine/supervisor.go) and  *)
(* the daemon that drives it (daemon/service.go), composed with the target *)
(* engine: a two-journal commit.  The daemon's mutation lock admits one    *)
(* operation at a time, and an unfinished supervisor journal is recovered  *)
(* before a new transaction is planned.                                    *)
(***************************************************************************)
EXTENDS TargetEngine

VARIABLES
    supJournal,   \* phase in the SUPERVISOR journal
    sup           \* where the supervisor's operation is

supVars == <<supJournal, sup>>
vars == <<tx, journal, progress, host, frame, result, expired, budget,
          supJournal, sup>>

(* A phase is the journal write to come; an await is a call of the target  *)
(* authority; RESUMED is the VERIFIED written by a recovery, which then    *)
(* completes the commit.                                                   *)
Awaits == {"awaitRun", "awaitCommit", "awaitAbort", "awaitRecover",
           "awaitComplete"}
SupLocations == {"idle", "RESUMED"} \cup Phases \cup Awaits

TypeOK ==
    /\ TargetTypeOK
    /\ supJournal \in Phases \cup {Absent}
    /\ sup \in SupLocations

Init == TargetInit /\ supJournal = Absent /\ sup = "idle"

Returned == frame.at = "return"

(* A call of the target authority, entered at `entry`. *)
CallTarget(entry, await) == frame' = At(entry) /\ sup' = await

Resume(location) == frame' = At("idle") /\ sup' = location

(* engine.advance: a failed write ends the operation, and the record may   *)
(* be on disk all the same.                                                *)
SupWrites(phase) ==
    /\ LegalTransition(supJournal, phase)
    /\ supJournal' = phase
    /\ UNCHANGED budget

SupWriteFails(phase) ==
    /\ IF LegalTransition(supJournal, phase)
       THEN Spend("faults") /\ supJournal' \in {supJournal, phase}
       ELSE UNCHANGED <<supJournal, budget>>
    /\ sup' = "idle"
    /\ UNCHANGED frame

SupAdvance(location, phase, next) ==
    /\ sup = location
    /\ \/ SupWrites(phase) /\ sup' = next /\ UNCHANGED frame
       \/ SupWriteFails(phase)
    /\ UNCHANGED <<tx, journal, progress, host, result, expired>>

SupAdvanceAndCall(location, phase, entry, await) ==
    /\ sup = location
    /\ \/ SupWrites(phase) /\ CallTarget(entry, await)
       \/ SupWriteFails(phase)
    /\ UNCHANGED <<tx, journal, progress, host, result, expired>>

-----------------------------------------------------------------------------
(* Service.converge up to the first record of SupervisorEngine.Run.  The   *)
(* plan is made under the lock for the generation the manifest names; the  *)
(* daemon reads only the supervisor's journals, so a target journal the    *)
(* previous transaction left unfinished does not stop it.  The stores of   *)
(* undo data and the migration records are per transaction: the new one    *)
(* starts with none.  A request that first recovered another transaction   *)
(* may have none of its time left.                                         *)
BeginTransaction ==
    /\ sup = "idle"
    /\ frame.at = "idle"
    /\ supJournal \notin Pending
    /\ tx.id < MaxTx
    /\ \E kind \in MigratorKinds :
          tx' = [id |-> tx.id + 1, previous |-> host.manifest, migrator |-> kind]
    /\ journal' = Absent
    /\ progress' = {}
    /\ host' = [host EXCEPT !.undoUnits = NoUndo, !.undoState = NoUndo,
                            !.marker = FALSE, !.migration = "previous"]
    /\ expired' \in {FALSE, expired}
    /\ supJournal' = "IDLE"
    /\ \/ sup' = "STAGED" /\ UNCHANGED budget
       \/ sup' = "idle" /\ Spend("faults")
    /\ UNCHANGED <<frame, result>>

(* The STAGED record, then Target.Run. *)
RunTarget == SupAdvanceAndCall("STAGED", "STAGED", "IDLE", "awaitRun")

(* Anything but a verified transaction is aborted, and what the abort      *)
(* returns is ignored.                                                     *)
RunReturned ==
    /\ sup = "awaitRun"
    /\ Returned
    /\ IF ~result.err /\ result.phase = "VERIFIED"
       THEN Resume("PREPARED")
       ELSE CallTarget("Abort", "awaitAbort")
    /\ UNCHANGED <<tx, journal, progress, host, result, expired, budget,
                   supJournal>>

AbortReturned ==
    /\ sup = "awaitAbort"
    /\ Returned
    /\ Resume("ROLLED_BACK")
    /\ UNCHANGED <<tx, journal, progress, host, result, expired, budget,
                   supJournal>>

WriteSupPrepared == SupAdvance("PREPARED", "PREPARED", "SWITCHED")

(* The SWITCHED record, then Target.Commit. *)
CommitTarget ==
    SupAdvanceAndCall("SWITCHED", "SWITCHED", "Commit", "awaitCommit")

(* Mutated form: a commit left pending is taken for a commit *)
TargetAnswered == result.phase \in {"VERIFIED", "COMMITTED"}

TargetIsTerminal == ~result.err /\ result.phase = "COMMITTED"

CommitReturned ==
    /\ sup = "awaitCommit"
    /\ Returned
    /\ Resume(IF TargetIsTerminal THEN "VERIFIED" ELSE "idle")
    /\ UNCHANGED <<tx, journal, progress, host, result, expired, budget,
                   supJournal>>

WriteSupVerified == SupAdvance("VERIFIED", "VERIFIED", "COMMITTED")

WriteSupCommitted == SupAdvance("COMMITTED", "COMMITTED", "idle")

WriteSupRolledBack == SupAdvance("ROLLED_BACK", "ROLLED_BACK", "idle")

-----------------------------------------------------------------------------
(* Mutated form: the pending scan overlooks a transaction still at STAGED *)
RecoverPendingFromPrepared ==
    /\ sup = "idle"
    /\ frame.at = "idle"
    /\ supJournal \in Pending \ {"IDLE", "STAGED"}
    /\ expired' = FALSE
    /\ IF supJournal = "PREPARED" THEN CallTarget("Abort", "awaitAbort")
       ELSE CallTarget("Recover", IF supJournal = "SWITCHED"
                                  THEN "awaitRecover" ELSE "awaitComplete")
    /\ UNCHANGED <<tx, journal, progress, host, result, budget, supJournal>>

(* Service.recoverPendingLocked, at start and at the head of every         *)
(* request, with a deadline of its own; then SupervisorEngine.Recover.     *)
RecoverPending ==
    /\ sup = "idle"
    /\ frame.at = "idle"
    /\ supJournal \in Pending
    /\ expired' = FALSE
    /\ LET decision == RecoveryDecision(supJournal)
       IN  \/ /\ decision \in {"DISCARD_STAGED", "ABORT_PREPARED"}
              /\ CallTarget("Abort", "awaitAbort")
           \/ /\ decision = "RESTORE_PREVIOUS"
              /\ CallTarget("Recover", "awaitRecover")
           \/ /\ decision = "COMPLETE_COMMIT"
              /\ CallTarget("Recover", "awaitComplete")
    /\ UNCHANGED <<tx, journal, progress, host, result, budget, supJournal>>

(* A target that could not complete its commit, for whatever reason, takes *)
(* the supervisor to its rollback.                                         *)
RecoverReturned ==
    /\ sup = "awaitRecover"
    /\ Returned
    /\ Resume(IF TargetIsTerminal THEN "RESUMED" ELSE "ROLLED_BACK")
    /\ UNCHANGED <<tx, journal, progress, host, result, expired, budget,
                   supJournal>>

ResumeCommit ==
    SupAdvanceAndCall("RESUMED", "VERIFIED", "Recover", "awaitComplete")

CompleteReturned ==
    /\ sup = "awaitComplete"
    /\ Returned
    /\ Resume(IF TargetIsTerminal THEN "COMMITTED" ELSE "idle")
    /\ UNCHANGED <<tx, journal, progress, host, result, expired, budget,
                   supJournal>>

-----------------------------------------------------------------------------
(* The environment: the daemon dies between two steps, a crash cuts a      *)
(* participant call, an operation's deadline passes, or nothing is asked.  *)

Crash ==
    /\ sup # "idle"
    /\ frame.at # "down"
    /\ Spend("crashes")
    /\ Resume("idle")
    /\ UNCHANGED <<tx, journal, progress, host, result, expired, supJournal>>

Restart ==
    /\ frame.at = "down"
    /\ Resume("idle")
    /\ UNCHANGED <<tx, journal, progress, host, result, expired, budget,
                   supJournal>>

Expire ==
    /\ sup # "idle"
    /\ ~expired
    /\ Spend("timeouts")
    /\ expired' = TRUE
    /\ UNCHANGED <<tx, journal, progress, host, frame, result, supJournal, sup>>

(* The daemon waits for a request: all transactions of the bound are over. *)
Quiescent ==
    /\ sup = "idle"
    /\ supJournal \notin Pending
    /\ tx.id = MaxTx
    /\ UNCHANGED vars

SupervisorStep ==
    \/ RunTarget \/ RunReturned \/ AbortReturned
    \/ WriteSupPrepared \/ CommitTarget \/ CommitReturned
    \/ WriteSupVerified \/ WriteSupCommitted \/ WriteSupRolledBack
    \/ RecoverPending \/ RecoverReturned \/ ResumeCommit \/ CompleteReturned
    \/ Restart

EngineStep == TargetStep /\ UNCHANGED supVars

Environment == BeginTransaction \/ Crash \/ Expire \/ Quiescent

Next == EngineStep \/ SupervisorStep \/ Environment

Spec == Init /\ [][Next]_vars

(* The program runs: its next call or write is made, a dead daemon is      *)
(* restarted, and an unfinished transaction is recovered.                  *)
FairSpec == Spec /\ WF_vars(EngineStep \/ SupervisorStep)

-----------------------------------------------------------------------------
(* What the two engines keep true.                                         *)

(* The record an engine reopens after a crash always carries the durable   *)
(* evidence validateRecoveryProgress demands of its phase: no interleaving *)
(* of appends, journal writes, failed writes and crashes leaves a target   *)
(* journal that Recover refuses.                                           *)
RecoveryEvidence ==
    journal # Absent => RecoveryAccepts(journal, progress, Fresh)

(* The two journals never contradict each other: while the supervisor may  *)
(* still roll back freely the target has not committed, from PREPARED on   *)
(* it has verified, and a supervisor at VERIFIED or COMMITTED has a target *)
(* journal at COMMITTED (Run, Recover and completeCommit of supervisor.go).*)
JournalsAgree ==
    /\ supJournal \in {"IDLE", "STAGED"} => journal # "COMMITTED"
    /\ supJournal = "PREPARED" => journal = "VERIFIED"
    /\ supJournal = "SWITCHED" => journal \in {"VERIFIED", "COMMITTED"}
    /\ supJournal \in {"VERIFIED", "COMMITTED"} => journal = "COMMITTED"

(* validateTerminalTargetResult: an update is recorded as verified or      *)
(* committed only with the whole host on the target generation, the undo   *)
(* data gone and the signer's gate open.                                   *)
CommittedMeansConverged ==
    supJournal \in {"VERIFIED", "COMMITTED"} =>
        /\ host.manifest = Target
        /\ host.current = Target
        /\ host.services = Target
        /\ host.units = Target
        /\ host.state = Target
        /\ host.undoUnits = NoUndo
        /\ host.undoState = NoUndo
        /\ host.gate # tx.id

(* Once the migrator has given up its way back, or the manifest names the  *)
(* target, the target engine never starts to roll back: Commit and Recover *)
(* only ever complete forward.                                             *)
NoRollbackAfterDecision ==
    (tx.id > 0 /\ (host.migration = "final" \/ host.manifest = Target)) =>
        "ROLLBACK_STARTED" \notin progress

(* engine.commit switches the manifest last: a manifest that names the     *)
(* transaction's generation finds every participant committed to it.       *)
ManifestLast ==
    (tx.id > 0 /\ host.manifest = Target) =>
        /\ {"MIGRATOR_COMMITTED", "SIGNER_COMMITTED", "PLATFORM_COMMITTED"}
              \subseteq progress
        /\ host.current = Target
        /\ host.services = Target
        /\ host.migration = "final"

(* Run and the commit go forward, as long as no rollback is entered. *)
GoingForward ==
    frame.at \in RunCalls \cup ForwardSteps \cup CommitCalls \cup CommitSteps
                 \cup {"SWITCHED", "VERIFIED"}

(* The write-ahead rule of Run: going forward, from the first thing of the *)
(* target on the host to the manifest, the undo data of units and typed    *)
(* state is there and is another generation's.                             *)
UndoBeforeDecision ==
    (/\ GoingForward
     /\ Target \in {host.units, host.state, host.services}
     /\ host.manifest # Target) =>
        /\ host.undoUnits \notin {NoUndo, Target}
        /\ host.undoState \notin {NoUndo, Target}

(* signer.go: the gate freezes application mutations while the target      *)
(* transaction replaces and health-checks the signer runtime; going        *)
(* forward, target services run only under this transaction's gate until   *)
(* the migrator has committed.                                             *)
GateHeld ==
    (/\ GoingForward
     /\ host.services = Target
     /\ "MIGRATOR_COMMITTED" \notin progress) =>
        host.gate = tx.id

(* A rollback that recorded both the stop and the restore has taken the    *)
(* target's units and services away, whatever failed, was repeated or      *)
(* crashed in between.                                                     *)
RestoredRunsPrevious ==
    {"TARGET_STOPPED", "PLATFORM_RESTORED"} \subseteq progress =>
        host.units # Target /\ host.services # Target

(* What the requester of an update sees: see UpdateContract.               *)
Status ==
    CASE supJournal = Absent                         -> "none"
      [] supJournal \in {"IDLE", "STAGED", "PREPARED"} -> "open"
      [] supJournal = "SWITCHED"                     -> "deciding"
      [] supJournal = "VERIFIED"                     -> "confirmed"
      [] supJournal = "COMMITTED"                    -> "committed"
      [] supJournal = "ROLLED_BACK"                  -> "rolledBack"

Contract == INSTANCE UpdateContract WITH
    txn <- tx.id, installed <- host.manifest, status <- Status

(* The engines implement the contract, its liveness included: every        *)
(* transaction whose record exists reaches COMMITTED or ROLLED_BACK.       *)
KeepsContract == Contract!Spec

NothingGoesWrong ==
    ~expired /\ budget = [faults |-> 0, crashes |-> 0, timeouts |-> 0]

(* A transaction that begins with no fault ahead and no foreign gate in    *)
(* its way commits: the two engines never wait on each other and no        *)
(* precondition of a call is left unestablished by the calls before it.    *)
FaultlessUpdateCommits ==
    (NothingGoesWrong /\ sup = "STAGED" /\ host.gate = 0)
        ~> (supJournal = "COMMITTED")

-----------------------------------------------------------------------------
(* What the repository says and the code does not keep.                    *)

(* "Failure restores the previous generation, services, and declared state *)
(* before reporting rollback" (lifecycle.md): a rolled back update that had *)
(* stopped the services of its predecessor has restored.                   *)
QuiescedIsRestored ==
    (journal = "ROLLED_BACK" /\ ~Fresh /\ "QUIESCED" \in progress) =>
        "PLATFORM_RESTORED" \in progress

(* The same sentence, of the services and of what the supervisor reports.  *)
RolledBackServicesRun ==
    (supJournal = "ROLLED_BACK") => host.services = tx.previous

(* signer.go: the gate is there while the target transaction replaces the  *)
(* signer runtime; a transaction that has ended leaves none behind.        *)
GateReleased ==
    (supJournal \in Terminal) => host.gate # tx.id

(* "After the decision, recovery completes forward" (updating.md): an      *)
(* update whose manifest is committed is not reported as rolled back.      *)
DecisionIsFinal ==
    (tx.id > 0 /\ host.manifest = Target) => supJournal # "ROLLED_BACK"

(* A migrator's commit can be repeated "until the outer engine durably     *)
(* journals MIGRATOR_COMMITTED" (hosted_signer.go): once the old custody   *)
(* is gone the transaction is not reported as rolled back.                 *)
CustodyIsFinal ==
    (host.migration = "final") => supJournal # "ROLLED_BACK"

=============================================================================
