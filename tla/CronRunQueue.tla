----------------------------- MODULE CronRunQueue -----------------------------
(***************************************************************************)
(* The queue of scheduled task runs (src/src/cron/task-run-queue.ts), the  *)
(* workers that lease its steps (src/src/cron/service/timer.ts), and the   *)
(* controls of an operator (src/src/cron/service/ops.ts), for one job      *)
(* whose result is delivered to a channel.                                 *)
(*                                                                         *)
(* The queue is a SQLite table: an update of it is one step.  The job's    *)
(* record, with the run it holds as active, is in another file, read and   *)
(* written under a file lock: a locked section is one step.  The gateway   *)
(* keeps a copy of that file in memory; some of its sections read the file *)
(* again first, the others work on the copy and write all of it back.      *)
(* Between two steps, and while the agent or the channel works, the others *)
(* run: the timer of the gateway, calls an operator makes to it, and       *)
(* worker processes outside of it (`fased task worker`).                   *)
(***************************************************************************)
EXTENDS Integers, Sequences, FiniteSets

CONSTANTS Runs,         \* number of runs; they are numbered in the order of the table
          Timer,        \* the gateway's timer as a worker
          Callers,      \* operator calls the gateway serves at once
          Outside,      \* worker processes outside the gateway
          JobChanges,   \* what an operator makes of the job, see `job`
          MaxAttempts,  \* DEFAULT_EXECUTE_STEP_MAX_ATTEMPTS
          MaxFailures,  \* bound: failures, see `incidents`
          MaxIncidents  \* bound: other incidents

ASSUME QueueAssumption ==
  /\ Runs \in Nat /\ MaxFailures \in Nat /\ MaxIncidents \in Nat
  /\ MaxAttempts \in Nat \ {0}
  /\ ({Timer} \cup Callers) \cap Outside = {}
  /\ JobChanges \subseteq {"enabled", "disabled", "removed"}

Run == 1..Runs
Worker == {Timer} \cup Callers \cup Outside
Gateway == {Timer} \cup Callers

\* The steps a worker leases, from the agent's on (the bookkeeping steps before it,
\* collect and plan-analysis, have passed), and a phase one of them writes on the way.
Leased == {"worker", "synthesize", "deliver"}
Step == Leased \cup {"evaluate"}

RunStatus == {"none", "queued", "running", "ok", "error", "canceled", "recovered"}
StepStatus == {"queued", "running", "ok", "error", "skipped", "canceled", "recovered"}

VARIABLES status,    \* status of each run in the table, "none" before it is there
          canceled,  \* cancelRequestedAtMs is set
          step,      \* per run and step: status, attempt, timer, result in the checkpoint
          job,       \* the job is "enabled", "disabled" or "removed"
          active,    \* the job's activeRun in the file, 0 for none
          cached,    \* the same in the gateway's copy of the file
          overdue,   \* the lease of that activeRun has expired
          worker,    \* what each worker is doing
          sends,     \* history: times the channel was given the result of a run
          doubt,     \* history: whether the channel has a result was once not known
          incidents  \* history: how often what can go wrong has happened

queueVars == <<status, canceled, step>>
jobVars == <<job, active, cached, overdue>>
history == <<sends, doubt, incidents>>
vars == <<queueVars, jobVars, worker, history>>

NewStep == [status |-> "queued", attempt |-> 0, timer |-> "none", result |-> "none"]
\* Failures of the agent, the channel or the gateway, runs taken from a worker that is
\* at them (a lease expires, the gateway starts again) or that their job lets go (it is
\* disabled or removed), calls of an operator and deaths of an outside worker.
Incidents == {"failure", "overrun", "discard", "cancel", "retry", "clear", "death"}
Happened(i) == incidents[i] > 0
Quiet(kinds) == \A i \in kinds : ~Happened(i)
Apart == Incidents \ {"failure"}
MayHappen(i) ==
  IF i = "failure" THEN incidents[i] < MaxFailures
  ELSE Cardinality({e \in Apart \X (1..MaxIncidents) : e[2] <= incidents[e[1]]}) < MaxIncidents
Record(i) == MayHappen(i) /\ incidents' = [incidents EXCEPT ![i] = @ + 1]

Resting == [at |-> "rest", run |-> 0, step |-> "worker", todo |-> <<>>]

Init ==
  /\ status = [r \in Run |-> "none"]
  /\ canceled = [r \in Run |-> FALSE]
  /\ step = [r \in Run |-> [s \in Step |-> NewStep]]
  /\ job = "enabled" /\ active = 0 /\ cached = 0 /\ overdue = FALSE
  /\ worker = [w \in Worker |-> Resting]
  /\ sends = [r \in Run |-> 0]
  /\ doubt = FALSE
  /\ incidents = [i \in Incidents |-> 0]

At(w, stage) == worker[w].at = stage
RunOf(w) == worker[w].run
StepOf(w) == worker[w].step
Go(w, stage) == worker' = [worker EXCEPT ![w].at = stage]
Rest(w) == worker' = [worker EXCEPT ![w] = Resting]

\* Back to the loop of processQueuedCronTaskRuns; an outside worker takes any run.
Looping(w, r) == [Resting EXCEPT !.at = "loop", !.run = IF w \in Outside THEN 0 ELSE r]
Loop(w) == worker' = [worker EXCEPT ![w] = Looping(w, RunOf(w))]

\* A worker past the check that the job is still its run's.
Executing(w) == worker[w].at \in {"exec", "failed", "write"}
Engaged(w) == Executing(w) \/ worker[w].at \in {"leased", "check", "apply"}
Working(r) == \E w \in Worker : Engaged(w) /\ RunOf(w) = r

-----------------------------------------------------------------------------
(* The job's record, in the file and in the gateway's copy.                *)

Removed == job = "removed"
Read(w) ==
  IF w \in Gateway
  THEN cached' = active /\ overdue' = (overdue /\ active # 0)
  ELSE UNCHANGED <<cached, overdue>>
Save(r) == active' = r /\ cached' = r

\* The job is free: of the gateway's doing, or by an outside worker, which changes the
\* file only.
LetGo == Save(0) /\ overdue' = FALSE
LetGoBy(w) == IF w \in Gateway THEN LetGo ELSE active' = 0 /\ UNCHANGED <<cached, overdue>>

\* A run that is taken from the job while a worker is at it.
Loses(kind) == IF Working(active) THEN Record(kind) ELSE UNCHANGED incidents

-----------------------------------------------------------------------------
(* Policies of the steps.                                                  *)

AttemptsOf(s) == IF s \in Leased THEN MaxAttempts ELSE 1
NoLimit(r, s) == step[r][s].attempt <= AttemptsOf(s)
BelowLimit(r, s) == step[r][s].attempt < AttemptsOf(s)
HasAttemptsLeft(r, s) == BelowLimit(r, s)

\* Attempts are only compared with the limit, and are counted up to it.
OneMore(n) == IF n < MaxAttempts THEN n + 1 ELSE MaxAttempts

\* The first retry is immediate, the next ones wait.
RetryTimer(n) == IF n <= 1 THEN "none" ELSE "delay"

IsExpired(r, s) == step[r][s].timer = "expired"
Resumable(r, s) == s \in Leased /\ IsExpired(r, s) /\ HasAttemptsLeft(r, s)

StepIsRunnable(r, s) ==
  \/ step[r][s].status = "queued" /\ step[r][s].timer = "none" /\ HasAttemptsLeft(r, s)
  \/ step[r][s].status = "error" /\ HasAttemptsLeft(r, s)
  \/ Resumable(r, s)

Passed(r, s) == step[r][s].status \in {"ok", "skipped"}

\* What must have passed before a step, in findRunnableQueueStep.
Before(s) ==
  CASE s = "worker" -> {}
    [] s = "synthesize" -> {"worker"}
    [] s = "deliver" -> {"worker", "synthesize", "evaluate"}

WorkerStepIsHeld(r) == step[r]["worker"].status = "running" /\ ~Resumable(r, "worker")
WorkerStepFirst(r) == StepIsRunnable(r, "worker") /\ step[r]["worker"].attempt > 0

\* A worker step that has run before comes first; otherwise the first step of the
\* pipeline that may run, if all before it have passed (the worker step with "ok").
RunnableSteps(r) ==
  IF WorkerStepIsHeld(r) THEN {}
  ELSE IF WorkerStepFirst(r) THEN {"worker"}
  ELSE {s \in Leased :
          /\ StepIsRunnable(r, s)
          /\ \A b \in Before(s) : Passed(r, b)
          /\ "worker" \in Before(s) => step[r]["worker"].status = "ok"}

-----------------------------------------------------------------------------
(* Updates of the queue.                                                   *)

\* Every update by a worker leaves a canceled run alone.
NeverClosed(r) == TRUE
OpenUnlessCanceled(r) == status[r] # "canceled" /\ ~canceled[r]
Open(r) == OpenUnlessCanceled(r)

\* recoverExpiredCronTaskRunQueueLeases.
Stale(r) == status[r] = "running" /\ \E s \in Step : IsExpired(r, s)
CanResume(r) == \E s \in Leased : Resumable(r, s)

AfterExpiry(r, s) ==
  IF Resumable(r, s)
  THEN [step[r][s] EXCEPT !.status = "queued", !.timer = RetryTimer(step[r][s].attempt)]
  ELSE IF IsExpired(r, s) /\ ~CanResume(r)
       THEN [step[r][s] EXCEPT !.status = "recovered", !.timer = "none"]
  ELSE step[r][s]

RecoverExpiredLeases ==
  /\ status' = [r \in Run |->
                  IF ~Stale(r) THEN status[r]
                  ELSE IF CanResume(r) THEN "queued" ELSE "recovered"]
  /\ step' = [r \in Run |-> IF ~Stale(r) THEN step[r]
                            ELSE [s \in Step |-> AfterExpiry(r, s)]]
  /\ UNCHANGED canceled

\* Steps that are queued or running end with the run.
EndSteps(r, st) ==
  [s \in Step |-> IF step[r][s].status \in {"queued", "running"}
                  THEN [step[r][s] EXCEPT !.status = st, !.timer = "none"]
                  ELSE step[r][s]]

LeftQueued(stp) == [stp EXCEPT !.attempt = OneMore(@)]
Taken(stp) == [stp EXCEPT !.status = "running", !.attempt = OneMore(@), !.timer = "lease"]
Held(stp) == Taken(stp)

-----------------------------------------------------------------------------
(* What a worker writes, one update of the queue each.                     *)

Begin(s) == [op |-> "begin", step |-> s, status |-> "running", result |-> "none"]
End(s, st) == [op |-> "end", step |-> s, status |-> st, result |-> "none"]
Report(s, res) == [op |-> "end", step |-> s, status |-> "ok", result |-> res]
Close(st) == [op |-> "close", step |-> "deliver", status |-> st, result |-> "none"]
Updates ==
  {Begin(s) : s \in Step}
    \cup {End(s, st) : s \in Step, st \in {"ok", "error", "skipped"}}
    \cup {Report(s, res) : s \in {"worker", "synthesize"}, res \in {"ok", "error"}}
    \cup {Close(st) : st \in {"ok", "error"}}

\* The result in the checkpoint a delivery reads: the synthesis's, else the worker's.
ResultAfter(r, s) ==
  IF step[r][s].result # "none" THEN step[r][s].result ELSE step[r]["worker"].result

\* What is written when a step has failed for good.
Failure ==
  <<Begin("synthesize"), End("synthesize", "skipped"),
    Begin("evaluate"), End("evaluate", "error"),
    Begin("deliver"), End("deliver", "skipped"), Close("error")>>
DeliveryFailure == <<End("deliver", "error"), Close("error")>>

Write(w, todo) == worker' = [worker EXCEPT ![w].at = "write", ![w].todo = todo]

\* startCronTaskRunQueueStep, completeCronTaskRunQueueStep, finishCronTaskRunQueueItem.
BeginMayWrite(r) == ~canceled[r]
KeepTimer(stp) == stp.timer
StopTimer(stp) == "none"
TimerAtEnd(stp) == StopTimer(stp)
Written(r, u) ==
  IF u.op = "begin" THEN Held(step[r][u.step])
  ELSE [step[r][u.step] EXCEPT !.status = u.status, !.timer = TimerAtEnd(step[r][u.step]),
          !.result = IF u.result = "none" THEN @ ELSE u.result]
StatusAfter(r, u) ==
  CASE u.op = "begin" -> "running" [] u.op = "close" -> u.status [] OTHER -> status[r]

Update(w) ==
  /\ At(w, "write")
  /\ LET r == RunOf(w)
         u == Head(worker[w].todo)
         rest == Tail(worker[w].todo)
     IN /\ IF IF u.op = "begin" THEN BeginMayWrite(r) ELSE Open(r)
           THEN /\ status' = [status EXCEPT ![r] = StatusAfter(r, u)]
                /\ step' = IF u.op = "close" THEN step
                           ELSE [step EXCEPT ![r][u.step] = Written(r, u)]
           ELSE UNCHANGED <<status, step>>
        /\ worker' = [worker EXCEPT ![w] =
                        IF rest # <<>> THEN [@ EXCEPT !.todo = rest]
                        ELSE IF u.op = "close"
                             THEN [Resting EXCEPT !.at = "check", !.run = r]
                        ELSE Looping(w, r)]
  /\ UNCHANGED <<canceled, jobVars, history>>

-----------------------------------------------------------------------------
(* A worker at a step (executeLeasedQueueRun).                             *)

Scope(w) == IF w \in Outside THEN Run ELSE {RunOf(w)}

\* leaseCronTaskRunQueueExecuteSteps: the first run of the table that has a runnable
\* step.  Runs with a cancel mark that the scan meets before it become canceled.
Leasable(w) ==
  {r \in Scope(w) : /\ status[r] \in {"queued", "running"} /\ Open(r)
                    /\ RunnableSteps(r) # {}}
Met(w, r) == {c \in Scope(w) : canceled[c] /\ c <= r}
Marked(w, r) ==
  [c \in Run |-> IF c \in Met(w, r) THEN "canceled" ELSE status[c]]

Lease(w) ==
  /\ At(w, "loop") /\ Leasable(w) # {}
  /\ LET r == CHOOSE c \in Leasable(w) : \A d \in Leasable(w) : c <= d
         s == CHOOSE x \in RunnableSteps(r) : TRUE
     IN /\ status' = [Marked(w, r) EXCEPT ![r] = "running"]
        /\ step' = [step EXCEPT ![r][s] = Held(@)]
        /\ worker' = [worker EXCEPT ![w].at = "leased", ![w].run = r, ![w].step = s]
  /\ UNCHANGED <<canceled, jobVars, history>>

\* Nothing to lease: the worker is done, whatever the state of its run.
LeaseNothing(w) ==
  /\ At(w, "loop") /\ Leasable(w) = {}
  /\ status' = Marked(w, Runs)
  /\ Rest(w)
  /\ UNCHANGED <<canceled, step, jobVars, history>>

\* The step is executed only while the job is the run's; otherwise it stays leased.
AnyJob(w) == TRUE
MarkedForRun(w) == active = RunOf(w)
HoldsJob(w) == MarkedForRun(w)

Prepare(w) ==
  /\ At(w, "leased")
  /\ IF HoldsJob(w) THEN Go(w, "exec") ELSE Loop(w)
  /\ Read(w)
  /\ UNCHANGED <<queueVars, job, active, history>>

\* executeLeasedSynthesizeStep, for a job that asks for delivery.
Synthesize(w) ==
  /\ At(w, "exec") /\ StepOf(w) = "synthesize"
  /\ Write(w, <<Report("synthesize", step[RunOf(w)]["worker"].result),
                 Begin("evaluate"), End("evaluate", "ok")>>)
  /\ UNCHANGED <<queueVars, jobVars, history>>

\* The agent returns a result, throws, or is aborted by a timeout or a cancellation.
AgentReturns(w, res) ==
  /\ At(w, "exec") /\ StepOf(w) = "worker"
  /\ Write(w, <<Report("worker", res)>>)
  /\ UNCHANGED <<queueVars, jobVars, history>>

AgentThrows(w) ==
  /\ At(w, "exec") /\ StepOf(w) = "worker"
  /\ Go(w, "failed")
  /\ Record("failure")
  /\ UNCHANGED <<queueVars, jobVars, sends, doubt>>

AgentIsAborted(w) ==
  /\ At(w, "exec") /\ StepOf(w) = "worker"
  /\ Write(w, Failure)
  /\ Record("failure")
  /\ UNCHANGED <<queueVars, jobVars, sends, doubt>>

\* executeLeasedDeliveryStep: a result that is an error is not delivered.
Delivering(w) == At(w, "exec") /\ StepOf(w) = "deliver"
HasResult(w) == ResultAfter(RunOf(w), "synthesize") = "ok"

SkipDelivery(w) ==
  /\ Delivering(w) /\ ~HasResult(w)
  /\ Write(w, <<End("deliver", "skipped"), Close("error")>>)
  /\ UNCHANGED <<queueVars, jobVars, history>>

Deliver(w) ==
  /\ Delivering(w) /\ HasResult(w)
  /\ sends' = [sends EXCEPT ![RunOf(w)] = @ + 1]
  /\ Write(w, <<End("deliver", "ok"), Close("ok")>>)
  /\ UNCHANGED <<queueVars, jobVars, doubt, incidents>>

\* Neither taken nor an error, as of a best-effort delivery: the step counts as skipped.
DeliveryIsBlocked(w) ==
  /\ Delivering(w) /\ HasResult(w)
  /\ Write(w, <<End("deliver", "skipped"), Close("ok")>>)
  /\ UNCHANGED <<queueVars, jobVars, history>>

\* The channel answers with an error, or the call throws (never as aborted: it is given
\* no signal); the message may be out.
DeliveryFails(w, out) ==
  /\ Delivering(w) /\ HasResult(w)
  /\ sends' = [sends EXCEPT ![RunOf(w)] = @ + out]
  /\ doubt' = TRUE
  /\ Go(w, "failed")
  /\ Record("failure")
  /\ UNCHANGED <<queueVars, jobVars>>

\* retryCronTaskRunQueueStep.
MayRetry(r, s) == HasAttemptsLeft(r, s)

RetryStep(w) ==
  /\ At(w, "failed")
  /\ LET r == RunOf(w)
         s == StepOf(w)
         again == Open(r) /\ MayRetry(r, s)
     IN /\ IF Open(r)
           THEN /\ status' = [status EXCEPT ![r] = IF again THEN "queued" ELSE "error"]
                /\ step' = [step EXCEPT ![r][s].status = IF again THEN "queued" ELSE "error",
                              ![r][s].timer = IF again THEN RetryTimer(step[r][s].attempt)
                                              ELSE "none"]
           ELSE UNCHANGED <<status, step>>
        /\ IF again THEN Loop(w)
           ELSE Write(w, IF s = "deliver" THEN DeliveryFailure ELSE Failure)
  /\ UNCHANGED <<canceled, jobVars, history>>

\* processAndApplyQueuedCronTaskRuns: the outcome of a run that is not canceled is
\* applied to the job, which ends the active run, whichever it is.  (The maintenance
\* that follows is that of `Maintain`.)
CheckCanceled(w) ==
  /\ At(w, "check")
  /\ IF Open(RunOf(w)) THEN Go(w, "apply") ELSE Rest(w)
  /\ UNCHANGED <<queueVars, jobVars, history>>

ApplyOutcome(w) ==
  /\ At(w, "apply")
  /\ LetGoBy(w)
  /\ Rest(w)
  /\ UNCHANGED <<queueVars, job, history>>

-----------------------------------------------------------------------------
(* Where runs come from: the timer, a call of `run`, an outside worker.    *)

NextRun == CHOOSE r \in Run : status[r] = "none" /\ \A q \in 1..(r - 1) : status[q] # "none"
SomeRunLeft == \E r \in Run : status[r] = "none"

\* reserveCronJobRunLease and enqueueCronTaskRunQueueItem under the lock.
Reserve(w) ==
  /\ SomeRunLeft
  /\ status' = [status EXCEPT ![NextRun] = "queued"]
  /\ Save(NextRun) /\ overdue' = FALSE
  /\ worker' = [worker EXCEPT ![w] = [Resting EXCEPT !.at = "loop", !.run = NextRun]]
  /\ UNCHANGED <<canceled, step, job, history>>

\* onTimer, which does nothing while an earlier tick is at work.
Tick ==
  /\ At(Timer, "rest")
  /\ RecoverExpiredLeases
  /\ Go(Timer, "due")
  /\ UNCHANGED <<jobVars, history>>

TickReserves ==
  /\ At(Timer, "due")
  /\ job = "enabled" /\ active = 0
  /\ Reserve(Timer)

\* The maintenance of the job's record (normalizeJobTickState), which lets the run of
\* a disabled job go, and one that has outlived its lease.
NeverFreed(r) == r
FreedIfDue(r) == IF overdue \/ job = "disabled" THEN 0 ELSE r
Freed(r) == FreedIfDue(r)

Maintain(r) ==
  /\ Save(Freed(r)) /\ overdue' = FALSE
  /\ IF job = "disabled" THEN Loses("discard")
     ELSE IF overdue THEN Loses("overrun") ELSE UNCHANGED incidents
  /\ UNCHANGED <<queueVars, job, sends, doubt>>

\* Nothing is due.
TickMaintains ==
  /\ At(Timer, "due")
  /\ Maintain(active)
  /\ Rest(Timer)

\* list and status do the same maintenance, on the copy.
ReadMaintains ==
  /\ cached # 0 /\ (overdue \/ job = "disabled")
  /\ Maintain(cached)
  /\ UNCHANGED worker

\* run, which may be forced on a job that is disabled.
RunNow(c) ==
  /\ At(c, "rest")
  /\ ~Removed /\ cached = 0
  /\ Reserve(c)

\* work, called again and again by an outside worker.
Poll(w) ==
  /\ At(w, "rest")
  /\ RecoverExpiredLeases
  /\ Go(w, "loop")
  /\ UNCHANGED <<jobVars, history>>

-----------------------------------------------------------------------------
(* The controls of an operator.                                            *)

\* queueCancel: the run in the queue, then the job; there, any active run is let go.
Cancel(c, r) ==
  /\ At(c, "rest")
  /\ status[r] \notin {"none", "ok", "error"}
  /\ status' = [status EXCEPT ![r] = "canceled"]
  /\ canceled' = [canceled EXCEPT ![r] = TRUE]
  /\ step' = [step EXCEPT ![r] = EndSteps(r, "canceled")]
  /\ worker' = [worker EXCEPT ![c] = [Resting EXCEPT !.at = "discard", !.run = r]]
  /\ Record("cancel")
  /\ UNCHANGED <<jobVars, sends, doubt>>

Discard(c) ==
  /\ At(c, "discard")
  /\ LetGo
  /\ Rest(c)
  /\ UNCHANGED <<queueVars, job, history>>

\* queueRetry: the job is looked at, then the run is reset, then the job is marked.
AskRetry(c, r) ==
  /\ At(c, "rest") /\ status[r] # "none"
  /\ ~Removed /\ active \in {0, r}
  /\ worker' = [worker EXCEPT ![c] = [Resting EXCEPT !.at = "retry", !.run = r]]
  /\ Read(c)
  /\ Record("retry")
  /\ UNCHANGED <<queueVars, job, active, sends, doubt>>

RetryIsRefused(r) == status[r] \in {"queued", "running", "ok"}
Reset(stp, s) == [NewStep EXCEPT !.result = IF s = "worker" THEN stp.result ELSE "none"]

RetryRun(c) ==
  /\ At(c, "retry")
  /\ LET r == RunOf(c)
     IN IF RetryIsRefused(r)
        THEN Rest(c) /\ UNCHANGED queueVars
        ELSE /\ status' = [status EXCEPT ![r] = "queued"]
             /\ canceled' = [canceled EXCEPT ![r] = FALSE]
             /\ step' = [step EXCEPT ![r] = [s \in Step |-> Reset(step[r][s], s)]]
             /\ Go(c, "mark")
  /\ UNCHANGED <<jobVars, history>>

\* queueClearStale.
Cleared(r) == {s \in Step : IsExpired(r, s) /\ HasAttemptsLeft(r, s)}

ClearStale(c, r) ==
  /\ At(c, "rest") /\ Cleared(r) # {}
  /\ status' = [status EXCEPT ![r] = "queued"]
  /\ step' = [step EXCEPT ![r] = [s \in Step |->
                IF s \in Cleared(r)
                THEN [step[r][s] EXCEPT !.status = "queued", !.timer = "none"]
                ELSE step[r][s]]]
  /\ worker' = [worker EXCEPT ![c] = [Resting EXCEPT !.at = "mark", !.run = r]]
  /\ Record("clear")
  /\ UNCHANGED <<canceled, jobVars, sends, doubt>>

\* markQueueRunActiveOnJob, and the run is processed.
Mark(c) ==
  /\ At(c, "mark")
  /\ IF Removed THEN LetGo ELSE Save(RunOf(c)) /\ overdue' = FALSE
  /\ Go(c, "loop")
  /\ UNCHANGED <<queueVars, job, history>>

\* Disabling or removing the job lets its run go, whoever is at it.
ChangeJob(to) ==
  /\ to # job /\ ~Removed
  /\ job' = to
  /\ IF to = "enabled" THEN Save(cached) /\ UNCHANGED <<overdue, incidents>>
     ELSE LetGo /\ Loses("discard")
  /\ UNCHANGED <<queueVars, worker, sends, doubt>>

\* A call that changes something else, of this job or of another one, writes the whole
\* copy back.
EditJobs ==
  /\ active # cached
  /\ Save(cached)
  /\ UNCHANGED <<queueVars, job, overdue, worker, history>>

-----------------------------------------------------------------------------
(* Time, and the death of processes.                                       *)

StepLeaseExpires(r, s) ==
  /\ step[r][s].status = "running" /\ step[r][s].timer = "lease"
  /\ step' = [step EXCEPT ![r][s].timer = "expired"]
  /\ IF Working(r) THEN Record("overrun") ELSE UNCHANGED incidents
  /\ UNCHANGED <<status, canceled, jobVars, worker, sends, doubt>>

RetryDelayPasses(r, s) ==
  /\ step[r][s].timer = "delay"
  /\ step' = [step EXCEPT ![r][s].timer = "none"]
  /\ UNCHANGED <<status, canceled, jobVars, worker, history>>

JobLeaseExpires ==
  /\ cached # 0 /\ ~overdue
  /\ overdue' = TRUE
  /\ UNCHANGED <<queueVars, job, active, cached, worker, history>>

\* Who dies between the send of a result and the record of it leaves it in doubt.
HasSent(w) == At(w, "write") /\ StepOf(w) = "deliver"
Doubt(dead) == doubt' = (doubt \/ \E w \in dead : HasSent(w))

\* The gateway dies and starts again: the run the job holds is recovered.
RecoverEnded(r) == r = active
RecoverUnlessEnded(r) == r = active /\ status[r] \notin {"none", "ok", "error"}
IsRecovered(r) == RecoverUnlessEnded(r)

GatewayRestarts ==
  /\ status' = [r \in Run |-> IF IsRecovered(r) THEN "recovered" ELSE status[r]]
  /\ step' = [r \in Run |-> IF IsRecovered(r) THEN EndSteps(r, "recovered") ELSE step[r]]
  /\ LetGo
  /\ worker' = [w \in Worker |-> IF w \in Gateway THEN Resting ELSE worker[w]]
  /\ Record(IF \E w \in Outside : Engaged(w) /\ RunOf(w) = active
            THEN "overrun" ELSE "failure")
  /\ Doubt(Gateway)
  /\ UNCHANGED <<canceled, job, sends>>

OutsideDies(w) ==
  /\ ~At(w, "rest")
  /\ Rest(w)
  /\ Record("death") /\ Doubt({w})
  /\ UNCHANGED <<queueVars, jobVars, sends>>

-----------------------------------------------------------------------------

\* A worker goes on with what it has begun.
Proceed(w) ==
  \/ Lease(w) \/ LeaseNothing(w) \/ Prepare(w) \/ Synthesize(w)
  \/ \E res \in {"ok", "error"} : AgentReturns(w, res)
  \/ AgentThrows(w) \/ AgentIsAborted(w)
  \/ SkipDelivery(w) \/ Deliver(w) \/ DeliveryIsBlocked(w)
  \/ \E out \in {0, 1} : DeliveryFails(w, out)
  \/ RetryStep(w) \/ Update(w) \/ CheckCanceled(w) \/ ApplyOutcome(w)

ProceedCall(c) == RetryRun(c) \/ Mark(c) \/ Discard(c)
ProceedTick == Tick \/ TickReserves \/ TickMaintains

Call(c) ==
  \/ RunNow(c)
  \/ \E r \in Run : Cancel(c, r) \/ AskRetry(c, r) \/ ClearStale(c, r)

LeasesExpire == \E r \in Run, s \in Step : StepLeaseExpires(r, s)
DelaysPass == \E r \in Run, s \in Step : RetryDelayPasses(r, s)

\* The sequential program of the gateway: what it does next by itself.
Advance(w) ==
  \/ Proceed(w)
  \/ w \in Callers /\ ProceedCall(w)
  \/ w = Timer /\ ProceedTick

OperatorChangesJob == (\E to \in JobChanges : ChangeJob(to)) \/ EditJobs
TimePasses == LeasesExpire \/ DelaysPass \/ JobLeaseExpires

Next ==
  \/ \E w \in Gateway : Advance(w)
  \/ \E w \in Outside : Poll(w) \/ Proceed(w) \/ OutsideDies(w)
  \/ \E c \in Callers : Call(c)
  \/ ReadMaintains \/ OperatorChangesJob
  \/ TimePasses
  \/ GatewayRestarts

Spec == Init /\ [][Next]_vars

\* The timer fires again and again, agents and channels answer and time passes.  Nobody
\* has to call, to start a worker outside the gateway, to restart the gateway, or to die.
FairSpec ==
  /\ Spec
  /\ \A w \in Gateway : WF_vars(Advance(w))
  /\ \A w \in Outside : WF_vars(Proceed(w))
  /\ WF_vars(TimePasses)

-----------------------------------------------------------------------------
(* Properties.                                                             *)

StepRecord == [status: StepStatus, attempt: 0..MaxAttempts,
               timer: {"none", "lease", "expired", "delay"}, result: {"none", "ok", "error"}]
Stages == {"rest", "due", "loop", "leased", "exec", "failed", "write", "check", "apply",
           "retry", "mark", "discard"}

\* Types: a lease is timed exactly while its step runs, what a worker has still to
\* write is one of the updates of task-run-queue.ts, and the gateway's copy knows the
\* run that holds the job (an outside worker can only have let it go in the file).
TypeOK ==
  /\ status \in [Run -> RunStatus]
  /\ canceled \in [Run -> BOOLEAN]
  /\ step \in [Run -> [Step -> StepRecord]]
  /\ \A r \in Run, s \in Step :
       step[r][s].status = "running" <=> step[r][s].timer \in {"lease", "expired"}
  /\ job \in {"enabled", "disabled", "removed"} /\ overdue \in BOOLEAN
  /\ cached \in 0..Runs /\ active \in {0, cached}
  /\ worker \in [Worker -> [at: Stages, run: 0..Runs, step: Leased, todo: Seq(Updates)]]
  /\ sends \in [Run -> Nat] /\ doubt \in BOOLEAN
  /\ incidents \in [Incidents -> Nat]

\* A run an operator canceled stays as the cancellation left it, whatever its late
\* workers report, until a retry (task-run-queue.test.ts "does not let late step
\* completion overwrite canceled runs"); only a start of the gateway may call it
\* recovered.
CanceledIsFrozen ==
  [][\A r \in Run : canceled[r] /\ canceled'[r] =>
       /\ step'[r] = step[r]
       /\ status'[r] \in {"canceled", "recovered"}]_vars

\* The channel is given the result of a run at most once per attempt that the policy
\* of the step and the retries of the operator grant, over any mixture of failures,
\* leases that expire and workers that come late.
SendsAreBounded == \A r \in Run : sends[r] <= MaxAttempts * (1 + incidents["retry"])

\* The result is given to the channel a second time only if the channel's answer was
\* an error or its sender died before recording it, if a worker was still at the run
\* when a lease of it expired, or if an operator has asked for a retry: not through
\* the workers that share the queue.
SentAgainForCause ==
  \A r \in Run : sends[r] > 1 => doubt \/ Happened("overrun") \/ Happened("retry")

\* Whoever executes a step of a run does so for a job that is still the run's, so that
\* the job is executed by one run at a time; unless the run was taken from a worker, its
\* job was disabled or removed (normalizeJobTickState lets the run of a disabled job go,
\* although a forced run may be at it) or an operator has interfered with the run.
OneRunExecutes ==
  Quiet({"overrun", "discard", "cancel", "retry", "clear"}) =>
    \A w \in Worker : Executing(w) => active = RunOf(w)

\* A run that has ended well is not reopened, unless by a worker that outlived its
\* lease or lost its run to a cancellation and a retry.
OkIsFinal ==
  [][\A r \in Run : status[r] = "ok" /\ status'[r] # "ok" =>
       Happened("retry") \/ Happened("overrun")]_vars

\* A run does not hold its job for ever, whoever dies and with no help from a worker
\* outside the gateway, so that the scheduler goes on.  If such workers poll for ever,
\* the run itself ends; unless it was taken from its worker, a process outside the
\* gateway died, its job was disabled or removed or an operator has interfered.
Unsettled(r) == status[r] \in {"queued", "running"}
Polled == Outside # {} /\ \A w \in Outside : []<>~At(w, "rest")
EveryRunEnds ==
  \A r \in Run :
    /\ active = r ~> active # r
    /\ Polled =>
         (Unsettled(r) ~>
            \/ ~Unsettled(r)
            \/ ~Quiet({"overrun", "discard", "cancel", "retry", "clear", "death"}))
=============================================================================
