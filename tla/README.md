# Fased: a verification project

TLA+ modules of the parts of Fased whose correctness depends on the order in
which durable records, calls and failures happen. They are checked with TLC on
small instances, and what matters most is proved with TLAPS for every value of
the constants. Every definition that models code is listed, with its lines, in
`PROJECT.json` under `map`.

Five parts are modelled:

- the **lifecycle engine** (`tools/fased-lifecycled`), the root daemon that
  installs, updates and rolls back everything else on the host: two journals,
  participants with side effects of their own, crashes between any two writes,
  and a promise that an update either happened or did not;
- the **signer's operations** (`tools/fased-signerd`): a ledger of spending
  requests that several connections execute against a chain that may not answer;
- the gateway's **command lanes** (`src/process`) and the run loop that drains
  and restarts them;
- its **outbound delivery queue** (`src/infra/outbound`), which survives crashes;
- its **cron run queue** (`src/cron`), whose steps several processes lease.

- [Inventory](#inventory)
- [Modules and code](#modules-and-code)
- [Runs, bounds and what they show](#runs-bounds-and-what-they-show)
- [Fairness](#fairness)
- [Proofs](#proofs)
- [What the code does not keep](#what-the-code-does-not-keep)
- [What is not modelled](#what-is-not-modelled)
- [Plan](#plan)

## Inventory

Fased is an AI agent gateway (TypeScript, `src/`), with a wallet signer
(`tools/fased-signerd`, Go), its smaller EVM sibling (`tools/fased-evm-signerd`)
and a privileged installer and updater (`tools/fased-lifecycled`, Go). `ui/`,
`apps/`, `extensions/` and `docs/` are clients, plugins and documentation,
`vendor/` is third-party.

### Lifecycle engine (`tools/fased-lifecycled`)

| part | state it keeps | operations | hard behaviour | correct when |
|---|---|---|---|---|
| supervisor engine, `engine/supervisor.go` | SUPERVISOR journal | `Run`, `Recover`, its own `rollback` | crash between its record and the target's | the two journals never contradict each other |
| target engine, `engine/target.go` | TARGET_CONTROLLER journal, `progress.json` | `Run`, `Commit`, `Abort`, `Recover`, `rollback` | a step done but not recorded, recorded but reported failed, repeated | every phase on disk has its evidence on disk; forward after the decision, back before it |
| store, `store/` | journals, progress, manifest, locks, generations | `CommitJournal`, `AppendProgress`, `CommitManifest`, `PruneGenerations` | `writeAtomic` fails after its rename | a reader finds the old or the new record |
| platform adapter, `platform/target_adapter.go` and its stores | unit files, lifecycle files, typed state, plugin locks, `current`, undo data | `Prepare`, `Quiesce`, `PrepareState`, `Activate`, `Verify`, `Commit`, `Finalize`, `StopTarget`, `Restore`, `Discard` | a call cut in the middle, an expired deadline | undo data exists before anything is replaced, and is dropped only after the decision |
| signer participant, `signer/signer.go` | the update gate file | `Prepare`, `Verify`, `Commit`, `Abort` | the gate outliving its transaction | mutations are frozen while the new runtime is not decided |
| migrators, `migrator/` | a record per migration, legacy or native custody | `Prepare`, `Activate`, `Verify`, `Commit`, `Abort` | a commit repeated after its record is gone | custody is never given back once it moved |
| daemon, `daemon/service.go`, `server.go` | mutation lock, operation deadline | converge, recover at start and before a request | a deadline shared by a run and its rollback | an unfinished transaction is recovered before the next is planned |
| planner, acquisition, trust, host security | release manifests and plans | pure selection, downloads, signature checks | | the selected path is applicable |

The supervisor calls the target engine in process (`Target.Run`, `Commit`,
`Abort`, `Recover`); the target engine calls its participants one after the
other, and appends a progress record after each. Crashes are answered at start
(`cmd/fased-lifecycled/main.go`) and at the head of every request by
`recoverPendingLocked`.

### Wallet signer (`tools/fased-signerd`)

| part | state it keeps | operations | hard behaviour | correct when |
|---|---|---|---|---|
| ledger of operations, `v2_store.go`, `v2_retention.go` | operations, usage counter per day, leases, archive against replays | reserve, claim, record, confirm, fail, mark unknown, maintain | two callers of one request, an expired lease taken over, a policy changed or a day ended in between, retention | what may have been sent stays charged, and nothing is given back twice |
| drivers, `v2_ops.go` | none of their own | `execute`, `reconcile` | a crash between the record of a broadcast and the broadcast, a replay racing the answer | a request sends one transaction, and its outcome is the chain's |
| approvals (WebAuthn), key rotation, Jupiter and WEN intents | the same store | | | not modelled |

The drivers of all connections share the ledger; each store transaction is
atomic, and no lock is held while a transaction is built, sent or looked up.

### Gateway (`src/`)

| part | state | hard behaviour | correct when |
|---|---|---|---|
| command lanes, `process/command-queue.ts` | queue and active set per lane, draining mark, generation | pumps that nest, a reset while tasks of the old generation run | no lane idles over work it has room for; what is counted is what runs; an accepted command is settled once |
| run loop, `cli/gateway-cli/run-loop.ts` | the server, the signal being handled | a signal while the server starts or closes, deadlines | a checkpoint is taken over quiescent lanes; every shutdown ends |
| outbound delivery queue, `infra/outbound/` | a file per delivery | a crash between send and acknowledgement; recovery passes beside live senders and beside each other; a count read, kept and written back | a delivery is never lost before its retries are used up |
| cron run queue, `cron/task-run-queue.ts`, `cron/service/` | a table of runs with leased steps; the run each job holds, in a file and in the gateway's copy of it | workers in several processes, leases that expire under a living worker, cancel and retry beside them, jobs disabled and removed under them, restarts | a result is sent once, or again for a cause; a canceled run stays canceled; a job is let go |
| cron schedules, task ledger, `cron/`, `tasks/` | due times, records | | not modelled |
| wallet send ledgers, `wallet/*-ledger.ts` | one row per send | retry against a signer that already sent | not modelled |
| subagents, ACP control plane, auto-reply queues, pairing, federation | registries in memory with files behind them | await between a check and its use | not modelled |
| channels, providers, CLI, wizard, UI | | I/O | not candidates |

The delivery queue is written through by every sender of a message, the last
step of a cron run among them; there it is one step, `Deliver`, that may fail
with the message out. A command lane runs what callers put into it; that of
`cron` is one of the lanes.

## Modules and code

| module | what it is | code |
|---|---|---|
| `LifecyclePhases` | phases, legal transitions, recovery decisions, the order of progress records, the evidence a recovery demands; pure operators | `model/model.go`, `store/progress.go`, `store/store.go` |
| `TargetEngine` | `EXTENDS LifecyclePhases`. The target engine's calls, one action per participant call, append and journal write, with what each participant does to the host | `engine/target.go`, `platform/`, `signer/signer.go`, `migrator/` |
| `SupervisorEngine` | `EXTENDS TargetEngine`. The supervisor engine and the daemon, composed with the target engine; crashes, deadlines; `Spec`, `FairSpec`, the properties | `engine/supervisor.go`, `daemon/service.go`, `daemon/server.go` |
| `UpdateContract` | the abstract specification: what the requester of an update may rely on. `SupervisorEngine` instantiates it as `Contract` | |
| `LifecycleTypeProofs` | proof of type correctness | |
| `LifecycleProofs` | the inductive invariant, and the proofs that rest on it | |
| `DecisionProofs` | `EXTENDS LifecycleProofs`. The decision to complete an update, what the host is like on the way to it, and what it takes to reverse it | |
| `SignerOperations` | the ledger, the connections that work on it, and the chain as far as they see it; `MCSignerOperations` has the amounts and the symmetry for TLC | `v2_store.go`, `v2_ops.go`, `v2_retention.go` |
| `Amounts` | what a set of requests holds of a wallet's money, as a number of units | `v2_store.go` |
| `SpendingContract` | the abstract specification: what the owner of a wallet relies on. `SignerOperations` instantiates it as `Wallet` | |
| `SignerProofs` | `EXTENDS SignerOperations`. All its safety properties, and that it implements the contract | |
| `CommandLanes` | the lanes as a call stack over queues, and the run loop; `MCCommandLanes` says which command goes to which lane | `process/command-queue.ts`, `cli/gateway-cli/run-loop.ts` |
| `LaneContract` | the abstract specification: what the callers of the lanes rely on. `CommandLanes` instantiates it as `Contract` | |
| `LanesProofs` | `EXTENDS CommandLanes`. All its safety properties, and that it implements the contract | |
| `DeliveryQueue` | live senders and recovery passes over the files of the queue | `infra/outbound/delivery-queue.ts`, `infra/outbound/deliver.ts`, `gateway/server.impl.ts` |
| `DeliveryProofs` | `EXTENDS DeliveryQueue`. All its safety properties | |
| `CronRunQueue` | the table of runs, the job's record and the gateway's copy of it, its workers and the operator; `MCCronRunQueue` names the workers and bounds the search | `cron/task-run-queue.ts`, `cron/service/timer.ts`, `ops.ts`, `jobs.ts`, `store.ts`, `run-lease.ts` |
| `CronProofs` | `EXTENDS CronRunQueue`. Its types, that sends are bounded and that a cancellation is final | |
| `CronOrderProofs` | `EXTENDS CronProofs`. The order workers keep without a lock: one send, one executor, an end that stays | |

Correspondence of the state, in the lifecycle engine:

- `journal`, `supJournal`: the phase of the two journals' last record,
  `ABSENT` where there is no file. A transaction has journals of its own, so
  `BeginTransaction` starts from `ABSENT`.
- `progress`: the steps in `progress.json`. Only membership is asked
  (`done[...]`), and the order matters only through `validateProgressRecord`,
  which is `ProgressAccepts`.
- `host`: what the participants changed. Generations are numbers: 0 is nothing
  installed, 1 what the first transaction finds, `Target` what the current one
  installs. `undoUnits` and `undoState` are the snapshots of units and
  lifecycle files, and of typed state; `gate` is the transaction named by the
  signer's gate file; `marker` is the migration's record and `migration` how
  far custody or directories went.
- `frame`: the Go call stack, reduced to the statement about to be executed
  (`frame.at`), the `restore` argument of a rollback, and whether it has
  remembered an error. An append's location has the name of its step, a
  journal write's that of its phase.
- `sup`: the same for the supervisor: a phase is the record to be written, an
  `await...` a call of the target engine.
- `expired`: the operation's context is done. `CutOff` says which calls heed it.
- `budget`: how many faults, crashes and deadlines are left.

Every participant call has five ends: success; failure before any effect;
failure after a part of the effect or all of it; cut by the deadline; cut by a
crash. `RunCall`, `CommitCall` and `RollbackCall` say what each end does to the
control of their callers: a failed call of `Run` enters the rollback, one of
`Commit` returns with the commit pending, and one of the rollback is remembered
while the other steps still run. A durable write that reports an error may be
on disk (`writeAtomic` syncs the directory after the rename): `AppendFails` and
`WriteFails`.

In `SignerOperations`:

- `op[r]` is the record of a request: `active` is a reservation that is held,
  `tx` the attempt whose signed bytes were recorded, `lease` what is left of
  `executionLeaseUntil`, compared with the clock only through `LeaseExpires`.
  An archived operation keeps its record in the model, for the properties to
  read; the code keeps its request id.
- `version` stands for the policy's hash: a caller names the one it reviewed.
- `worker[w]` is the driver of a connection: between two store transactions it
  holds a request, an attempt and, in `execute`, the reviewed policy.
- `chain[r][a]` is external: the transaction an attempt signed. A broadcast may
  take effect whatever it answers, and a lookup may fail.

In `CommandLanes`:

- JavaScript runs one call at a time, so `calls` is the call stack: a pump of a
  lane, or the part of a task before its first `await`, which may enqueue and
  clear again (`Calling`). Events are taken with an empty stack only (`Idle`).
- `fate` is the promise given to the caller; `startedIn` the generation a task
  captured. `pumping` is the `draining` mark, which the innermost pump of a
  lane takes down under the outer ones, as in the code.
- `loop`, `shutdown`, `action`, `drained`, `exit`: where `runGatewayLoop` and
  the handler of a signal are.

In `DeliveryQueue`:

- `file`, `retries`, `tried`: the JSON file of an entry. Reading it and
  renaming the new version over it are two steps (`ReadEntry`, `WriteEntry`).
  Both write through one temporary name per process (`.<pid>.tmp`): when two are
  between the two steps, the rename of one may put the other's unfinished copy in
  place (`TearEntry`), or find its own gone (`UpdateFails`).
- one worker per live delivery and one per recovery pass (`Passes`), with the
  entry it has in hand; `listed[p]` is what a pass read of the others at its
  start. `StartGateway` waits for no earlier pass: the code fires
  `recoverPendingDeliveries` at each start of the gateway, one within the same
  process included (`gateway/server.impl.ts:833`).
- `mode`: a strict caller gets the error; a best-effort caller does not, and
  only with an `onError` of its own does the wrapper see it. Either kind may
  throw outside of the payloads, before the first (no handler for the channel)
  and after the last (the transcript cannot be appended): `CanThrow`.
- `CutOff` is a live strict send that ends with an error named `AbortError`. The
  wrapper tells the caller's signal from a timeout of the channel's own
  (`utils/fetch-timeout.ts`) by nothing, and so does the action.

In `CronRunQueue`:

- `status`, `canceled`, `step`: the row of a run. A lease and a retry delay
  are a `timer` of their step, which runs out at any time. `Leased` are the
  steps a worker leases; the phases it writes on its way are `Update`s in
  `todo`, one transaction of the table each.
- `job`, `active`, `overdue`: whether the job is enabled, disabled or removed,
  the run in its record and whether the lease of that run is over. A section
  under the file lock is one step.
- `cached`: the run in the gateway's copy of the record. The timer, the check
  before a step and the look of a retry read the file again (`Read`); `list`,
  `status`, `run`, `update`, `remove` and the apply of an outcome work on the copy
  (`store.ts:232`), and whoever persists writes all of it (`Save`), an outcome
  that an outside worker has meanwhile put into the file undone (`EditJobs`).
- `Maintain` is `normalizeJobTickState`, on the file for a tick and on the copy
  for `list` and `status`: it lets go of an overdue run, and of the run of a
  disabled job whatever its lease. `ChangeJob` disables, enables and removes the
  job; `RunNow` may be forced on a disabled one.
- `worker[w]`: the gateway's timer, the calls of an operator the gateway
  serves, and worker processes outside of it. A gateway restart ends the first
  two and leaves the third.
- `incidents` counts what goes wrong, and bounds it (`MaxFailures` for failures
  of the agent, the channel and the gateway, `MaxIncidents` for all others
  together); properties name the incidents that excuse them. An `overrun` is a
  run taken by an expired lease or a restart from a worker that is at it, a
  `discard` one taken from it by a job that is disabled or removed.

## Runs, bounds and what they show

| run | shows |
|---|---|
| `core` | all invariants, for two transactions in a row, two faults, one crash, one deadline, three kinds of migration (2.7 million states) |
| `contract` | the composition implements `UpdateContract`, liveness included, and a transaction without trouble commits (310 thousand states) |
| `quiesced_not_restored`, `deadline_leaves_down`, `gate_left_behind`, `decision_reversed`, `custody_reversed` | five statements of the repository that the code does not keep, see below |
| `signer` | what is charged, sent and recorded of two requests under two connections, and that this is what `SpendingContract` allows (1.6 million states, up to symmetry) |
| `lanes` | no lost entry, no leaked slot, no checkpoint over running work, every shutdown ends, and `LaneContract` is kept (3 commands in 2 lanes) |
| `delivery` | at least once, given up for cause, decided in the end (1 delivery of 2 payloads, all modes) |
| `cron` | what is sent and frozen, and that runs end, for one run of three attempts under two failures and any one other incident (166 thousand states) |
| `cron_jobs` | one run of a job executes at a time, for two runs under one failure or death, up to an incident that excuses it (710 thousand states) |

Bounds of the lifecycle engine, all of them constants of `TargetEngine`:

- `MaxTx = 2`. What one transaction leaves behind (a gate, stopped services, an
  unfinished target journal, a manifest already switched) meets the next one;
  a third meets nothing a second one does not, since undo data, journals and
  progress are per transaction. The first may find an installation or none.
- `MaxFaults = 2`. A rollback needs one fault to start, its failure a second.
- `MaxCrashes = 1`, `MaxTimeouts = 1`: with the faults above, each at any step.
- `MigratorKinds`: all three in `core`. `contract` leaves the hosted one out,
  which differs from the local one in what a repeated commit finds.
- The runs that look for a violation have the smallest budget with one.

The properties of `core`:

- `RecoveryEvidence`: the journal on disk always has the progress
  `validateRecoveryProgress` demands, so `Recover` never refuses.
- `JournalsAgree`: no pair of phases in which one authority has finished and
  the other has not got there, or went the other way.
- `CommittedMeansConverged`: a supervisor at VERIFIED or COMMITTED has the
  whole host on the target generation, undo data gone, gate open.
- `NoRollbackAfterDecision`: no rollback once custody is final or the manifest
  names the target.
- `ManifestLast`: a manifest that names the target finds every participant
  committed.
- `UndoBeforeDecision`: going forward, a host with anything of the target on it
  has undo data of another generation, until the manifest is switched.
- `GateHeld`: going forward, target services run only behind this
  transaction's gate until the migrator has committed.
- `RestoredRunsPrevious`: a rollback that recorded stop and restore has neither
  units nor services of the target left.

`KeepsContract` is a refinement: the status of an update is read off the
supervisor's journal, the installed generation off the manifest. It says that
the manifest changes only while the supervisor is at SWITCHED, that an update is
confirmed only with its generation installed, that it is never given up after
that, and that every update ends. `FaultlessUpdateCommits` says that no call's
precondition is left unestablished by the calls before it.

Deadlock is checked in these runs; `Quiescent` is the daemon waiting for a
request once the bound on transactions is reached. The other modules stop where
their requests, commands, deliveries or runs are used up, or their process has
exited, and their configurations say so.

Bounds of `signer`: two connections are enough for one to lose its lease to the
other; the two requests have the same amount of two units, and the caps are one and two
units, so that one request fits the larger cap, none the smaller, and no cap both. Two
days, with retention of none, let a day end, its counter be swept and an
operation be archived and asked for again; the ledger holds both requests, so
that the third thing in it is refused. Two policies and two attempts let each be
overtaken once. Two requests differ in nothing, and neither do connections:
symmetry is sound, for no property tells them apart and none is a liveness
property.

- `UsageIsReserved`: the counter of a day is the sum of what the operations
  reserved on it still hold, until it is swept: nothing is given back twice, or
  kept for nothing.
- `SentIsReserved`: what may have reached the chain stays charged, whoever
  records its failure and when.
- `SpentWithinCap`: a day's requests that were sent fit the largest cap it saw.
- `OneTransaction`, `OutcomeIsTrue`: a request sends one transaction, and the
  recorded outcome is that of the chain, with the exception named below.
- `KeepsSpendingContract` is a refinement: a charge is what the record of a
  request and the chain say together, the limit of a day the largest cap it saw.
  A request is charged once, to one day; what is charged is sent or given back,
  never both; and the chain's answer is final. Several charges may be given back
  by one step, as `maintain` does.

Bounds of `lanes`: a task enqueues the second command, and a third waits behind
them, in the lane of one of them or in the other; limits 1 and 2; one restart
has an old generation and a new one.

- `NoIdleLane`: with no call in progress, a lane with work is full.
- `ActiveIsRunning`: what a lane counts is what runs of this generation,
  whatever settles late.
- `QueuedOnce`, `SettledOnce`: an accepted command is in one place, and a
  promise settles once.
- `CheckpointIsQuiescent`: after an answered drain, nothing runs and nothing is
  admitted until the end.
- `KeepsLaneContract` is a refinement: what a lane executes are the tasks of
  this generation, what a restart left behind those of an earlier one. The
  commands of a lane start in the order of their arrival and only with room
  under its limit, and each is settled once.
- `EveryEntrySettles`, `ShutdownEnds`: the liveness of both.

Bounds of `delivery`: entries do not share state and a pass takes one at a time,
so that one delivery meets all that happens to it; two payloads let a part be
sent; two passes and the live sender are three workers at one entry, and with
two retries (five in the code) overlapping passes raise the count beyond what
one pass allows. A silent best-effort delivery differs from a reporting one in
noticing less, and is left to the proofs. Crashes and starts are unbounded.

- `StrictIsNeverLost`: the file of a strict delivery goes only when all was sent,
  its live send ended with an `AbortError`, or to `failed/`; it becomes
  unreadable only if two workers had it at once.
- `FailedForCause`, `RetriesBounded`: given up only for a permanent error or
  `MAX_RETRIES` recorded failures; and, unless two passes had the entry at once,
  never retried more often than that and the live attempt.
- `OnlyARaceRevives`: an entry that has left the queue comes back only if two
  workers had it at once, two passes or one and the live sender.
- `EveryEntryIsDecided`: once crashes stop, every entry leaves the queue.

Bounds of `cron`: one run, its three attempts as in the code, so that a first
retry is immediate and a second one delayed; two failures use them up, and one
other incident is enough to take the run from its worker or to act on it again.
The job stays enabled there. `cron_jobs` is about two runs, so that the job may
pass from one to the other, of a job that is disabled, enabled, removed and
edited under them, with one failure (of the agent, the channel or the gateway) or
the death of the outside worker (`OneTrouble`). `OneRunExecutes` says nothing of
what follows the incidents it excuses, and none is forgotten, so that the search
ends with them (`NothingIsExcused`). The proofs have no bound on either.

- `SendsAreBounded`: a result is given to the channel at most once per attempt
  granted; `SentAgainForCause`: a second time only for an answer in doubt, a
  worker that outlived its lease, or an operator's retry.
- `CanceledIsFrozen`, `OkIsFinal`: late workers change neither a canceled run
  nor one that has ended well, the latter unless they outlived their lease.
- `OneRunExecutes`: who executes a step does so for the run its job holds, unless
  the run was taken from it, by a lease, a disabled or removed job or an operator.
- `EveryRunEnds`: a job is let go by its run, whoever dies and without any worker
  outside of the gateway. That the run ends too is claimed only where workers
  outside of the gateway poll for ever (`Polled`), and unless one of the named
  incidents took it from its worker: a gateway alone may leave it, see below.

## Fairness

`FairSpec` adds `WF_vars(EngineStep \/ SupervisorStep)`: the program makes its
next call or write when it has one. The daemon is sequential under its mutation
lock, so one fairness condition over all its steps is enough. `SupervisorStep`
includes `Restart` and `RecoverPending`: the service manager restarts the
daemon, which recovers before it serves (`main.go`, `recoverStoppedSupervisorPending`),
and every request recovers first (`service.go`, `recoverPendingLocked`). No
fairness is assumed of `BeginTransaction`, of crashes or of deadlines. A
participant that fails for ever would keep a commit pending for ever, as in the
code; the bound on faults stands for the assumption that it does not.

`CommandLanes`: `WF_vars(PumpStep)`, for a call in progress is run to its end;
`SF_vars` of a task that settles and of the deadlines, which the event loop does
not starve whatever else is ready. Nothing is assumed of `server.close`: that it
may hang is why the code has a timer.

`DeliveryQueue`: sends and file operations return (`WF_vars`, for each worker).
Entries are replayed at a start of the gateway only, so that a decision needs the
gateway to be started again and again, some pass to have the budget and the
entry's backoff to elapse, and the file operations of the passes not to fail for
ever: `SF_vars` of there being a pass that starts, that takes the entry, that
reads and that writes; none of a particular pass. Crashes may go on:
`EveryEntryIsDecided` has their end as its premise.

`CronRunQueue`: each worker goes on with what it has begun (`WF_vars` of
`Advance` and `Proceed`), the timer of the gateway being re-armed after every
tick; and time passes. No operator has to call, nobody to start a worker outside
of the gateway (`fased task worker` is a command), to restart or die. That such
workers poll is no fairness but the premise `Polled` of the part of
`EveryRunEnds` that needs it; without it TLC finds a run that stays queued.

`SignerOperations` states none: a reconcile is asked by a caller, and nothing in
the daemon repeats it.

## Proofs

`LifecycleTypeProofs` proves `TypeCorrect == Spec => []TypeOK`: one lemma per
shape of statement, then one step per action, which only types what the call
leaves of the host.

`LifecycleProofs` proves, for every value of the constants,

- `JournalsAlwaysAgree == Spec => []JournalsAgree`
- `RecoveryIsNeverRefused == Spec => []RecoveryEvidence`
- `ContractIsKept == Spec => Contract!Safety`

`JournalsAgree` is not inductive: to know that a supervisor recording VERIFIED
has a committed target one must know where the target's answer came from. The
inductive invariant `IInv` adds

- `InOrder`: what the supervisor's journal holds at each place of its operation;
- `Belongs`: which operation of the supervisor an engine call serves. A call
  that commits serves a supervisor past its decision and has the journal at
  VERIFIED, one that rolls back serves a supervisor before it. This is what
  keeps an Abort from undoing a commit;
- `Truthful`: an answer VERIFIED or COMMITTED without an error is what the
  journal says;
- `Evidenced`: each recorded step was accepted over its predecessors, and a
  phase is about to be written only over its evidence;
- `Installed`: the manifest's receipt is true.

Each part was checked with TLC before it was proved. The proof has a lemma per
shape of statement (`RunCallKeeps`, `CommitRecordKeeps`, ...), a lemma per half
of the engines with one step per action, and separate lemmas that only the
manifest's call touches the manifest (`RunKeepsManifest`, ...), which the
refinement uses again. For the refinement, an engine step is a stutter or
`Install`, and a supervisor step follows `LegalTransition`; a record of VERIFIED
is a `Confirm` because a committed journal leads back, receipt by receipt, to
the manifest (`CommittedIsInstalled`).

`DecisionProofs` proves
`DecisionIsNeverRolledBack == Spec => []NoRollbackAfterDecision` from `IInv` and
one more invariant, `DInv`. Its part `NeverBoth` ties what is final on the host
to the supervisor's journal: before SWITCHED nothing is final, from SWITCHED on
no rollback has started, and a Run that has not failed has recorded none. That
last part is needed for the supervisor's own decision, the write of SWITCHED: it
is taken on the word of a Run, and the Run must not have rolled anything back on
its way. `Numbered` says that the manifest never names a generation newer than
the transaction's, so that a new transaction starts undecided. The proof has a
lemma per half of the engines saying what its steps may do to the decision.

It then proves the properties of `core` that are about the host,

- `CommittedHostsConverge == Spec => []CommittedMeansConverged`
- `ManifestIsLast == Spec => []ManifestLast`
- `UndoIsWrittenAhead == Spec => []UndoBeforeDecision`
- `GateIsHeld == Spec => []GateHeld`
- `RestoreTakesTheTargetAway == Spec => []RestoredRunsPrevious`

from one invariant, `HInv`, which ties what the participants changed on the
machine to the place of the engine and to the steps on record. `Bounded`: no
later generation is on the host, and undo data is an earlier one's; this is why
a restore takes the target away. `Untouched`: before its activation nothing of
the target is there. `Prepared`: each place of Run has what the calls before it
left, up to the supervisor's decision. `Switched`: from there the target runs,
the gate stays to the signer's commit and the undo data to the manifest's.
`Receipts`, `InTurn` and `Undone`: a recorded step is true of the host, and a
commit finds the receipts of its predecessors. The five only read the host at
some places or under some receipts; none is inductive, for a commit resumed after
a crash knows the host by what is on record alone, and a rollback between two
attempts of it must be excluded (`NeverBoth`).

Last, `DecisionProofs` says what it takes to reverse a decision, which the runs
`decision_reversed` and `custody_reversed` show to happen:

- `CrashesReverseNoDecision == Spec => [](OnlyCrashes => DecisionIsFinal)`
- `CrashesReverseNoCustody == Spec => [](OnlyCrashes /\ tx.migrator # "local" => CustodyIsFinal)`

`OnlyCrashes` says that no call and no durable write has failed of itself and no
deadline has passed; the daemon may have died any number of times. So a switched
manifest is reported as rolled back only after a fault, and custody only after
one or with the local bridge, whose commit deletes the record that its repetition
reads. The argument is that a commit then always answers. `CInv` has what its
calls need beyond `HInv`: the record of a hosted migration (`Marked`), no other
transaction's gate (`NoForeignGate`), a manifest that is the one planned on or the
target's (`Planned`), and the convergence on record before anything is finalized
(`ConvergedFirst`). `CommitIsAble` and `CommitIsAccepted` conclude that no call
finds its precondition missing and no append is refused. `NInv` carries the
answer to the supervisor (`Answered`), which therefore never takes the branch of
`Recover` that rolls back.

The assumptions of these three are the two on the constants in `TargetEngine`:
`BoundsAssumption` (they are naturals, with at least one transaction) and
`MigratorAssumption` (a non-empty set of the three kinds).

`SignerProofs` proves, for any number of requests, connections, days, policies
and attempts (`SignerAssumption`),

- `SignerTypeCorrect == Spec => []TypeOK`
- `SentStaysReserved == Spec => []SentIsReserved`
- `RequestSendsOnce == Spec => []OneTransaction`
- `RecordedOutcomeIsTrue == Spec => []OutcomeIsTrue`
- `CountersAreReserved == Spec => []UsageIsReserved`
- `SentWithinTheCap == Spec => []SpentWithinCap`
- `SignerKeepsContract == Spec => KeepsSpendingContract`

None of them is inductive: that an attempt sends nothing after another has
sent depends on what a connection in the middle of its work knows. `IInv` has
`Consistent` (a record by itself: no transaction before it is recorded, a
reservation from the first moment on), `Truthful` (a record and the chain: only
the recorded transaction was ever sent), `Building` (a connection that builds
has the current attempt and nothing is recorded, or it has outlived its lease),
`Asking` (one that asks the chain has the recorded transaction), and `Fenced`
(no two connections build the same attempt). Each action becomes a change of
one record, of one connection, or of the chain; the lemmas say which changes of
a record keep which parts, and each action is then an instance.

The accounts need a sum over a set of requests. A sum is defined by recursion,
about which nothing can be proved here, so `Amounts` counts: `Total(R)` is the
cardinality of a set with as many units of each request as its amount, and the
theorems on finite sets give what a counter needs (`TotalAdds`, `TotalOfPart`).
The set of requests may be infinite; only finitely many have come (`Ledger`).
`AInv` adds `Policies` (the cap of today is among those the day has seen, and
the days to come have seen none) and `Counters`: the counter of a day is what
its holders hold, or was swept with none of them reserved, and within the day's
largest cap either way. A step reserves one amount, gives back those of a set of
requests (`GivesBack`, which covers failure, a stale policy, the day's end and the
sweep) or leaves the accounts alone. A counter is an integer in `AInv`; that it
is a natural, as `TypeOK` says, follows from its being a sum. For the
refinement, such a step is a `Hold` or a `GiveBack`, and a step of the chain a
`Send` or a `Conclude`.

`DeliveryProofs` proves, for any number of deliveries, payloads, retries,
starts and crashes (`DeliveryAssumption`),

- `NothingStrictIsLost == Spec => []StrictIsNeverLost`
- `GivenUpForCause == Spec => []FailedForCause`
- `RetriesAreBounded == Spec => []RetriesBounded`
- `OnlyRacesRevive == Spec => OnlyARaceRevives`
- `TypeCorrect == Spec => []TypeOK`

What makes them hard is that a count of retries exists in many copies: in the
file, in the lists the passes read, and in what each worker read before it
writes. `IInv` bounds each copy by the failures recorded so far (`Recorded`).
Where no two passes had the entry at once, its distance from the file's is at
most one, and none while the live sender still works (`Bounded`, `Lag`): it
writes once, and a pass only below the limit. `RaceIsKnown` and `CrowdIsKnown`
say that the two histories miss nothing. `Delivering` is what a worker knows of
the channel before it removes a file, `Counting` why it moves one, `PassServes`
that a pass has an entry that was enqueued and that it took off its list. The
steps fall into two kinds: a worker moves and leaves the files alone, or it
changes the file of its delivery; the remaining ones are the enqueue, the list,
the crash.

`LanesProofs` proves, for any number of commands, lanes, limits and restarts
(`LanesAssumption`),

- `NoLaneIdlesOverWork == Spec => []NoIdleLane`
- `CountedIsRunning == Spec => []ActiveIsRunning`
- `NoCommandIsLostOrDoubled == Spec => []QueuedOnce`
- `CheckpointsAreQuiescent == Spec => []CheckpointIsQuiescent`
- `NothingSettlesTwice == Spec => SettledOnce`

and its types (`TypeCorrect`), and that it implements `LaneContract`:
`LanesKeepContract == Spec => KeepsLaneContract`.

`NoIdleLane` speaks of the moments between events; `Pumped` says what makes it
true in the middle of a call: a lane with work and room has a pump somewhere on
the stack, or its drain after a reset is due, and so does a lane whose draining
mark is up. It needs the shape of the stack (`TasksOf`: the tasks on it are in
their first part, each once), and the others need what is in a queue
(`Holds`), what is counted (`Counted`) and that no task was started in a
generation to come. The nesting of pumps is handled by lemmas on a stack that
is pushed to or popped (`Pushed`, `Popped`, `TasksPushed`), so that each
operation is proved whatever the stack below it. The refinement rests on the
same invariant: that a lane has room by what it counts means that it has room by
what it executes, because the two are the same set, and that an entry taken off
a queue is not there again, because it was there once.

`CronProofs` proves, for any number of runs, workers, attempts and restarts
(`QueueAssumption`),

- `TypesHold == Spec => []TypeOK`
- `CanceledStaysFrozen == Spec => CanceledIsFrozen`
- `SendsBounded == Spec => []SendsAreBounded`

The invariant `DInv` says of each step of a run what its row may look like (one
that is running has a timer, one that waits for its delay is queued), of each
run what its rows may look like together (the worker's result is there once its
step is ok, nothing of a canceled run is queued or running), and of each worker
that it has a run and a list of writes that can be made. It has one lemma per
action, which `Steps` draws together. That a cancellation is final then needs
that each action which writes a row asks first (`FrozenByWorkers`,
`FrozenByControls`). Sends
are counted as grants: those already made, those of the workers that are at a
delivery, and those a retry asked for and has yet to hand out are together no
more than the attempts of the delivery and those that retries gave.

`CronOrderProofs` proves, from the same assumption,

- `OkStaysOk == Spec => OkIsFinal`
- `SentOnceUnlessCaused == Spec => []SentAgainForCause`
- `OneRunHolds == Spec => []OneRunExecutes`

Nothing in the code locks a run while a worker is at it: the worker has leased
one of its steps and trusts that nobody does anything to the others. The
invariant `OInv` says what that trust is worth as long as no run is taken from a
worker that is at it and none is retried (`Orderly`). `Alone`: a worker is alone
at its run. `Knows`: what it may rely on at its place, from the lease of its
step to the last of its writes; after them, that the run has nothing left to
start (`NothingLeft`). `InOrder`: steps pass in the order of the pipeline, and a
run that is ok has nobody at it who still writes. A lease is safe because a
worker at a run leaves it with no step to lease (`EngagedIsDone`), which is why
`Alone` and `Knows` must be proved together. `Controls` says that what an
operator's call is about to do has been counted. Two more invariants stand on
it: `SInv`, that a result once sent is recorded or about to be, by the one
worker at the run, and that nobody is on the way to send it; and `HInv`, that a
worker past `Prepare` keeps the job until it has applied its outcome, whatever the
gateway writes back of its copy (`JobSound`: the file has the run of the copy or
none). A run that
was canceled is exempt from most of this, as its workers write nothing
(`CanceledKeeps`).

Every invariant and every action property that a passing run checks is a
theorem. Model-checked only is what rests on fairness: the liveness half of
`KeepsContract`, `FaultlessUpdateCommits`, `EveryEntrySettles`, `ShutdownEnds`,
`EveryEntryIsDecided` and `EveryRunEnds`. Fairness is stated with ENABLED, which
is beyond the prover.

## What the code does not keep

Each is a run that TLC violates, with a finding in `PROJECT.json` that quotes
the repository:

1. `QuiescedIsRestored`: a crash after the services were stopped, with the
   journal at PREPARED. The supervisor recovers through `Abort`, which restores
   only from SWITCHED on; ROLLED_BACK is reported with the services down.
   `Recover` would have restored.
2. `RolledBackServicesRun`: the rollback runs in the context whose deadline
   caused it. Stop and restore fail, `Discard` drops the undo data, and the
   next abort completes without a restore.
3. `GateReleased`: the gate is written before SIGNER_PREPARED is recorded and
   removed only if it was; a crash in between leaves a gate that blocks every
   later update.
4. `DecisionIsFinal`: after the manifest is switched, an error of the target's
   recovery makes the supervisor record ROLLED_BACK.
5. `CustodyIsFinal`: the local bridge's commit deletes its record, so that a
   repetition fails, and the supervisor records ROLLED_BACK.

The following are without a run of their own: they are the exceptions the
properties above name, found while stating them, or follow from an action.

- Signer: a worker whose lease expired while it was building is refused when it
  records its transaction, and then fails the operation of the attempt that has
  sent one meanwhile (`v2_store.go:710` fences by the attempt only while the
  operation is reserved). The operation is called failed with its transaction
  pending or landed, and stays so (`outlived` in `OutcomeIsTrue`). It stays
  charged and is not sent again.
- Signer: `security-test-report.md:218-219` says an unknown outcome is never
  automatically broadcast again; a reconcile that finds nothing does broadcast
  the same signed bytes (`v2_ops.go:1567`). The chain takes them once
  (`OneTransaction`).
- Signer: a claim just before midnight is charged to the day that ends, though
  its transaction may be sent on the next one; `SpentWithinCap` counts it on the
  day of its reservation. An operation reserved under an earlier policy is
  released only when it is asked for again, or at the day's end.
- Lanes: the comment at `command-queue.ts:326-330` speaks of waiting for all
  active tasks; after a restart whose drain timed out, tasks of the old
  generation still run and neither the limit nor the next drain counts them
  (`command-queue.ts:249`). `ActiveIsRunning` is about one generation.
- Lanes: a restart asked while the server is starting wakes no loop and resets
  no lane (`run-loop.ts:83`): the gateway then serves and refuses every command
  until the next restart.
- Delivery: only a caller's `onError` lets the wrapper see that a payload of a
  best-effort delivery failed (`deliver.ts:259-264`). The replay passes none, so
  a replay that fails again is acknowledged: such an entry gets one more
  attempt, not `MAX_RETRIES`.
- Delivery: a strict send that a timeout of the channel ends is removed from the
  queue unsent, though nobody aborted it: `deliver.ts:286` acknowledges every
  error named `AbortError`, and `fetchWithTimeout`, which the Signal client uses,
  throws one. The comment at `deliver.ts:243` says "persist before sending, remove
  after success". `StrictIsNeverLost` excepts it (`CutOff`).
- Delivery: a start of the gateway within the process does not wait for the
  recovery pass of the one before. Passes that overlap replay an entry at once and
  may count it beyond `MAX_RETRIES` and the live attempt (`crowded`).
- Delivery: an acknowledgement by one worker while another is between the
  read and the rename of the same entry is undone, and the message is sent again
  at the next start; two that rename at once may leave a torn file, which no pass
  can read (`OnlyARaceRevives` and `StrictIsNeverLost` say that it takes a race).
- Delivery: an append to the transcript that fails counts as a failed attempt of
  a delivery whose payloads are all out, and they are sent again.
- Cron: a start of the gateway recovers the run its job holds although an
  outside worker is at it; the worker's next phase puts the run back to
  "running" with no step left to run (`EveryRunEnds` excepts "overrun";
  `docs/automation/troubleshooting.md:68-72` tells the operator to look for it).
  The same happens if an outside worker dies between the end of one phase and
  the beginning of the next, and there is nothing to recover: no lease runs.
- Cron: a gateway without an outside worker may leave a run unended, with no step
  wrong. The timer and a call of `run` lease only the runs they have just reserved
  (`timer.ts:3374-3379`, `ops.ts:896`), until there is nothing to lease. A step
  that fails twice waits for its delay, so that nothing is, and nobody comes back
  to the run: it stays queued until an operator acts on it or `fased task worker`
  is started. The same holds of a run whose lease passes to nobody. The job itself
  is let go when its lease is over (`EveryRunEnds`, the part without `Polled`).
- Cron: the run of a disabled job is let go by the next `list`, `status` or tick,
  whatever its lease (`jobs.ts:309-319`), although a forced run, which `cron run` asks
  for, may execute a disabled job (`jobs.ts:738`). A second forced run then executes beside the first;
  so does one after the job was disabled and enabled again. `OneRunExecutes` excepts
  both ("discard").
- Cron: sections of the gateway that work on its copy of the jobs undo what an
  outside worker has written to the file: a job whose run that worker ended holds it
  again, until its lease is over.
- Cron: a completion is refused for a canceled run only; a worker that lost its
  lease still completes the step its successor is at. The lease of the job is
  shorter than several attempts of one step.
- Cron: the outcome of a run, and its cancellation, let go whatever run the job
  holds then (`ops.ts:878-879`); clearing a stale step does not look at the
  run's status. `OneRunExecutes` excepts both.

## What is not modelled

- Lifecycle engine: the signer's own calls for a transaction that changes the
  signer's schema; plugin locks (their receipt is); onboarding, repair and
  inspection commands; schema-one journals; digests of envelopes and receipts (a
  receipt is there or not); pruning, which runs inside `Finalize`; the read-only
  recovery of a transaction that is current. `TargetEngine` takes the
  participants as they are used by the engine; systemd, the file system and the
  signer's runtime are their effect on `host`.
- Signer: the caller's role, approvals reviewed with WebAuthn, Jupiter and WEN
  intents and their two entries into the store, reservations of the legacy
  format, the capacity of the archive, several wallets and assets (each has a
  counter of its own), that a reconcile is asked often enough.
- Command lanes: the text of errors, the warning about waiting time, and which
  process takes over after an exit.
- Delivery queue: hooks and adapters of the channels, the value of the backoff,
  the migration of old entry formats.
- Cron: the steps collect and plan-analysis (they write records before the first
  leased step), preflight and session preparation, graph jobs, runs that are
  skipped, jobs whose agent delivers by itself, an aborted delivery; the due
  time of a job, which is any time; how a job is edited, but for what an edit
  makes of its active run; changes of the job made in its file by other programs.
- The other components of the inventory, each with its reason in `PROJECT.json`.
  The larger part of the repository is adapters, user interface, providers and
  their tests, which keep little shared state; what the modules cover is a small
  part of its lines.

## Plan

Next, in this order:

1. The wallet's send ledger (`wallet/wallet-send-execution-ledger.ts`) composed
   with `SpendingContract`: a retry of the gateway never sends twice.
2. What it takes for a rollback to leave the services down or the gate behind
   (`quiesced_not_restored`, `deadline_leaves_down`, `gate_left_behind`), proved
   as `DecisionProofs` does it for a reversed decision.
3. Lifecycle: update lock, generations and pruning; the planner as operators
   checked against a reference definition.
4. Cron: the planning steps and graph jobs.
