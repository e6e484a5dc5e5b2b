-------------------------- MODULE LifecyclePhases --------------------------
(***************************************************************************)
(* The vocabulary the two authority journals of the lifecycle engine share *)
(* (tools/fased-lifecycled/model/model.go and store/progress.go): the      *)
(* phases of a transaction, the transitions a journal may record, what a   *)
(* reopened journal asks its engine to do, and the progress steps a target *)
(* engine appends between two phases.                                      *)
(***************************************************************************)
EXTENDS Naturals

Absent == "ABSENT"        \* no journal file: os.ErrNotExist when it is read

Terminal == {"COMMITTED", "ROLLED_BACK"}

Pending == {"IDLE", "STAGED", "PREPARED", "SWITCHED", "VERIFIED"}

Phases == Pending \cup Terminal

(* The switch of legalTransition: a step forward, or a rollback from any   *)
(* phase before VERIFIED.                                                  *)
LegalTransition(from, to) ==
    \/ from = "IDLE"     /\ to \in {"STAGED", "ROLLED_BACK"}
    \/ from = "STAGED"   /\ to \in {"PREPARED", "ROLLED_BACK"}
    \/ from = "PREPARED" /\ to \in {"SWITCHED", "ROLLED_BACK"}
    \/ from = "SWITCHED" /\ to \in {"VERIFIED", "ROLLED_BACK"}
    \/ from = "VERIFIED" /\ to = "COMMITTED"

(* What CommitJournal accepts for a journal that holds `from`: a new       *)
(* journal begins at IDLE, the same envelope again is a no-op, and any     *)
(* other record is the legal successor of the stored one.                  *)
JournalAccepts(from, to) ==
    \/ from = Absent /\ to = "IDLE"
    \/ from # Absent /\ from = to
    \/ LegalTransition(from, to)

(* Mutated form: a switched transaction is aborted like a prepared one *)
AbortSwitched(phase) ==
    CASE phase \in {"IDLE", "STAGED"} -> "DISCARD_STAGED"
      [] phase \in {"PREPARED", "SWITCHED"} -> "ABORT_PREPARED"
      [] phase = "VERIFIED"    -> "COMPLETE_COMMIT"
      [] phase = "COMMITTED"   -> "ALREADY_CURRENT"
      [] phase = "ROLLED_BACK" -> "RETRY_ALLOWED"

(* model.Recover: the decision a reopened journal asks for. *)
RecoveryDecision(phase) ==
    CASE phase \in {"IDLE", "STAGED"} -> "DISCARD_STAGED"
      [] phase = "PREPARED"           -> "ABORT_PREPARED"
      [] phase = "SWITCHED"           -> "RESTORE_PREVIOUS"
      [] phase = "VERIFIED"           -> "COMPLETE_COMMIT"
      [] phase = "COMMITTED"          -> "ALREADY_CURRENT"
      [] phase = "ROLLED_BACK"        -> "RETRY_ALLOWED"

ForwardSteps == {"GENERATION_STAGED", "SIGNER_PREPARED", "PLATFORM_PREPARED",
                 "QUIESCE_STARTED", "QUIESCED", "STATE_PREPARED",
                 "MIGRATOR_PREPARED", "MIGRATOR_ACTIVATED",
                 "PLATFORM_ACTIVATED", "MIGRATOR_VERIFIED",
                 "SIGNER_VERIFIED", "PLUGIN_VERIFIED", "PLATFORM_VERIFIED"}

CommitSteps == {"MIGRATOR_COMMITTED", "SIGNER_COMMITTED",
                "PLATFORM_COMMITTED", "MANIFEST_COMMITTED",
                "TERMINAL_CONVERGENCE_VERIFIED", "PLATFORM_FINALIZED"}

RollbackSteps == {"ROLLBACK_STARTED", "TARGET_STOPPED", "SIGNER_ABORTED",
                  "MIGRATOR_ABORTED", "PLATFORM_RESTORED",
                  "PLATFORM_DISCARDED", "ROLLBACK_COMPLETED"}

ProgressSteps == ForwardSteps \cup CommitSteps \cup RollbackSteps

(* Mutated form: a fresh installation is asked for the plugin receipt too *)
AcceptsWithPlugin(done, step, fresh) ==
    /\ step \in {"PLATFORM_VERIFIED", "MANIFEST_COMMITTED"}
          => "PLUGIN_VERIFIED" \in done
    /\ step = "TERMINAL_CONVERGENCE_VERIFIED" => "MANIFEST_COMMITTED" \in done
    /\ step = "PLATFORM_FINALIZED" => "TERMINAL_CONVERGENCE_VERIFIED" \in done

(* validateProgressRecord, for one more event after those of `done`. A     *)
(* fresh installation defers its Gateway and has no plugin receipt.        *)
ProgressAccepts(done, step, fresh) ==
    /\ (step \in {"PLATFORM_VERIFIED", "MANIFEST_COMMITTED"} /\ ~fresh)
          => "PLUGIN_VERIFIED" \in done
    /\ step = "TERMINAL_CONVERGENCE_VERIFIED" => "MANIFEST_COMMITTED" \in done
    /\ step = "PLATFORM_FINALIZED" => "TERMINAL_CONVERGENCE_VERIFIED" \in done

(* The step validateRecoveryProgress demands of a journal in each phase. *)
RequiredStep(phase) ==
    CASE phase = "STAGED"      -> "GENERATION_STAGED"
      [] phase = "PREPARED"    -> "PLATFORM_PREPARED"
      [] phase = "SWITCHED"    -> "PLATFORM_ACTIVATED"
      [] phase = "VERIFIED"    -> "PLATFORM_VERIFIED"
      [] phase = "COMMITTED"   -> "PLATFORM_FINALIZED"
      [] phase = "ROLLED_BACK" -> "ROLLBACK_COMPLETED"
      [] OTHER                 -> "GENERATION_STAGED"

(* validateRecoveryProgress: whether the engine agrees to recover at all. *)
RecoveryAccepts(phase, done, fresh) ==
    \/ phase = "IDLE"
    \/ /\ RequiredStep(phase) \in done
       /\ (phase \in {"VERIFIED", "COMMITTED"} /\ ~fresh)
             => "PLUGIN_VERIFIED" \in done
=============================================================================
