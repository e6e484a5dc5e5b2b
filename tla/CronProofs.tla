----------------------------- MODULE CronProofs -----------------------------
(***************************************************************************)
(* What the queue of scheduled runs keeps for any number of runs, workers, *)
(* calls, attempts and incidents: its types, that a cancellation is final  *)
(* and that every time a result is sent was granted.                       *)
(***************************************************************************)
EXTENDS CronRunQueue, FiniteSetTheorems, SequenceTheorems, TLAPS

WorkerRecord == [at : Stages, run : 0..Runs, step : Leased, todo : Seq(Updates)]

\* The row of a run: a step that runs is timed, and one that is delayed is queued; the
\* worker's result is there once its step has ended well; and a canceled run is frozen.
Timed(stp) ==
  /\ stp.status = "running" <=> stp.timer \in {"lease", "expired"}
  /\ stp.timer = "delay" => stp.status = "queued"
Reported(z) == z["worker"].status = "ok" => z["worker"].result # "none"
Frozen(st, cn, z) ==
  /\ st = "canceled" => cn
  /\ cn => /\ st \in {"canceled", "recovered"}
           /\ \A s \in Step : z[s].status \notin {"queued", "running"}
Fits(st, cn, z) == (\A s \in Step : Timed(z[s])) /\ Reported(z) /\ Frozen(st, cn, z)

QInv ==
  /\ status \in [Run -> RunStatus] /\ canceled \in [Run -> BOOLEAN]
  /\ step \in [Run -> [Step -> StepRecord]]
  /\ \A r \in Run : Fits(status[r], canceled[r], step[r])

\* A worker has a run, and an update while it writes.
Resulting(u) == u.op = "end" /\ u.step = "worker" /\ u.status = "ok" => u.result # "none"
Sound(todo) == \A i \in 1..Len(todo) : Resulting(todo[i])
Serving(w) ==
  /\ worker[w].at \notin {"rest", "due", "loop"} => RunOf(w) \in Run
  /\ At(w, "loop") /\ w \notin Outside => RunOf(w) \in Run
  /\ At(w, "write") => worker[w].todo # <<>>
  /\ Sound(worker[w].todo)
  /\ worker[w].at \in {"leased", "exec"} /\ StepOf(w) = "synthesize" =>
       step[RunOf(w)]["worker"].result # "none"

WInv == worker \in [Worker -> WorkerRecord] /\ \A w \in Worker : Serving(w)
\* The gateway's copy knows the run that holds the job, if one does.
JobSound ==
  /\ job \in {"enabled", "disabled", "removed"} /\ overdue \in BOOLEAN
  /\ cached \in 0..Runs /\ active \in {0, cached}
JTyped ==
  /\ JobSound
  /\ sends \in [Run -> Nat] /\ doubt \in BOOLEAN
  /\ incidents \in [Incidents -> Nat]

DInv == QInv /\ WInv /\ JTyped

-----------------------------------------------------------------------------
(* Runs, steps and updates.                                                *)

LEMMA Numbers ==
  /\ Run \subseteq Nat /\ 0 \notin Run /\ Run \subseteq 0..Runs /\ 0 \in 0..Runs
  /\ Runs \in Nat /\ MaxAttempts \in Nat \ {0}
BY QueueAssumption DEF Run

LEMMA Least ==
  ASSUME NEW T \in SUBSET Nat, T # {}
  PROVE  \E x \in T : \A y \in T : x <= y
<1> DEFINE F == {1..x : x \in T}
<1>1. F \subseteq FiniteSubsetsOf(Nat) /\ F # {}
  <2>1. ASSUME NEW x \in T PROVE 1..x \in FiniteSubsetsOf(Nat)
    BY FS_Interval DEF FiniteSubsetsOf
  <2>2. QED BY <2>1
<1>2. PICK m \in F : \A f \in F : <<f, m>> \notin StrictSubsetOrdering(Nat)
  <2> HIDE DEF F
  <2>1. QED BY <1>1, WFMin, FS_StrictSubsetOrderingWellFounded
<1>3. PICK x \in T : m = 1..x
  OBVIOUS
<1>4. ASSUME NEW y \in T, y < x PROVE FALSE
  <2>1. 1..y \in F /\ 1..y \subseteq 1..x /\ x \in 1..x /\ x \notin 1..y
    BY <1>4
  <2>2. <<1..y, 1..x>> \in StrictSubsetOrdering(Nat)
    BY <2>1 DEF StrictSubsetOrdering
  <2>3. QED BY <2>1, <2>2, <1>2, <1>3
<1>5. QED BY <1>4

LEMMA NextRunIsNew == SomeRunLeft => NextRun \in Run /\ status[NextRun] = "none"
<1> SUFFICES ASSUME SomeRunLeft PROVE NextRun \in Run /\ status[NextRun] = "none"
  OBVIOUS
<1> DEFINE T == {r \in Run : status[r] = "none"}
<1>1. T \in SUBSET Nat /\ T # {}
  BY Numbers DEF SomeRunLeft
<1>2. PICK x \in T : \A y \in T : x <= y
  <2> HIDE DEF T
  <2>1. QED BY <1>1, Least
<1>3. \A q \in 1..(x - 1) : q \in Run /\ ~(x <= q)
  BY Numbers DEF Run
<1>4. x \in Run /\ status[x] = "none" /\ \A q \in 1..(x - 1) : status[q] # "none"
  BY <1>2, <1>3
<1>5. QED BY <1>4 DEF NextRun

LEMMA ScopeIsRuns == ASSUME NEW w \in Worker PROVE Leasable(w) \subseteq Scope(w)
BY DEF Leasable

\* The run a worker leases.
First(w) == CHOOSE c \in Leasable(w) : \A d \in Leasable(w) : c <= d
LEMMA FirstIsLeasable ==
  ASSUME NEW w \in Worker, Scope(w) \subseteq Run, Leasable(w) # {}
  PROVE  First(w) \in Leasable(w) /\ First(w) \in Run
<1>1. Leasable(w) \in SUBSET Nat /\ Leasable(w) \subseteq Run
  BY ScopeIsRuns, Numbers
<1>2. \E c \in Leasable(w) : \A d \in Leasable(w) : c <= d
  BY <1>1, Least
<1>3. QED BY <1>1, <1>2 DEF First

LEMMA StepIsHeld ==
  ASSUME NEW stp \in StepRecord
  PROVE  /\ Held(stp) \in StepRecord /\ Held(stp).status = "running" /\ Held(stp).timer = "lease"
         /\ Held(stp).result = stp.result /\ Held(stp).attempt >= stp.attempt
         /\ stp.attempt < MaxAttempts => Held(stp).attempt = stp.attempt + 1
<1>1. /\ stp.attempt \in Nat /\ OneMore(stp.attempt) \in 0..MaxAttempts
      /\ OneMore(stp.attempt) >= stp.attempt
      /\ stp.attempt < MaxAttempts => OneMore(stp.attempt) = stp.attempt + 1
  BY Numbers DEF StepRecord, OneMore
<1>2. "running" \in StepStatus
  BY DEF StepStatus
<1>3. QED BY <1>1, <1>2 DEF Held, Taken, StepRecord

LEMMA NewStepTyped ==
  ASSUME NEW res \in {"none", "ok", "error"}
  PROVE  LET y == [NewStep EXCEPT !.result = res]
         IN /\ y \in StepRecord /\ y.status = "queued" /\ y.timer = "none"
            /\ y.attempt = 0 /\ y.result = res
BY Numbers DEF NewStep, StepRecord, StepStatus

LEMMA UpdatesTyped ==
  ASSUME NEW u \in Updates
  PROVE  /\ u.op \in {"begin", "end", "close"} /\ u.step \in Step
         /\ u.op = "end" => u.status \in {"ok", "error", "skipped"} /\ u.result \in {"none", "ok", "error"}
         /\ u.op = "close" => u.status \in {"ok", "error"}
BY DEF Updates, Begin, End, Report, Close, Step, Leased

LEMMA Todos ==
  /\ Failure \in Seq(Updates) /\ Failure # <<>> /\ Sound(Failure)
  /\ DeliveryFailure \in Seq(Updates) /\ DeliveryFailure # <<>>
  /\ Sound(DeliveryFailure)
  /\ \A st \in {"ok", "skipped"}, res \in {"ok", "error"} :
       LET t == <<End("deliver", st), Close(res)>>
       IN t \in Seq(Updates) /\ t # <<>> /\ Sound(t)
  /\ \A res \in {"ok", "error"} :
       LET t == <<Report("worker", res)>>
       IN t \in Seq(Updates) /\ t # <<>> /\ Sound(t)
  /\ \A res \in {"ok", "error"} :
       LET t == <<Report("synthesize", res), Begin("evaluate"), End("evaluate", "ok")>>
       IN t \in Seq(Updates) /\ t # <<>> /\ Sound(t)
<1>1. /\ \A s \in Step : Begin(s) \in Updates /\ Resulting(Begin(s))
      /\ \A s \in Step, st \in {"ok", "error", "skipped"} : End(s, st) \in Updates
      /\ \A s \in Step \ {"worker"}, st \in {"ok", "error", "skipped"} : Resulting(End(s, st))
      /\ \A s \in {"worker", "synthesize"}, res \in {"ok", "error"} :
           Report(s, res) \in Updates /\ Resulting(Report(s, res))
      /\ \A st \in {"ok", "error"} : Close(st) \in Updates /\ Resulting(Close(st))
  <2>1. \A s \in Step : Begin(s) \in Updates
    BY DEF Updates
  <2>2. \A s \in Step, st \in {"ok", "error", "skipped"} : End(s, st) \in Updates
    BY DEF Updates
  <2>3. \A s \in {"worker", "synthesize"}, res \in {"ok", "error"} : Report(s, res) \in Updates
    BY DEF Updates
  <2>4. \A st \in {"ok", "error"} : Close(st) \in Updates
    BY DEF Updates
  <2>5. /\ \A s \in Step : Resulting(Begin(s))
        /\ \A s \in Step \ {"worker"}, st \in {"ok", "error", "skipped"} : Resulting(End(s, st))
        /\ \A s \in {"worker", "synthesize"}, res \in {"ok", "error"} : Resulting(Report(s, res))
        /\ \A st \in {"ok", "error"} : Resulting(Close(st))
    BY DEF Resulting, Begin, End, Report, Close
  <2>6. QED BY <2>1, <2>2, <2>3, <2>4, <2>5
<1>2. {"worker", "synthesize", "deliver", "evaluate"} = Step
  BY DEF Step, Leased
<1> HIDE DEF Updates
<1>3. Failure \in Seq(Updates) /\ Failure # <<>> /\ Sound(Failure)
  BY <1>1, <1>2 DEF Failure, Sound
<1>4. /\ DeliveryFailure \in Seq(Updates) /\ DeliveryFailure # <<>>
      /\ Sound(DeliveryFailure)
  BY <1>1, <1>2 DEF DeliveryFailure, Sound
<1>5. ASSUME NEW st \in {"ok", "skipped"}, NEW res \in {"ok", "error"}
      PROVE LET t == <<End("deliver", st), Close(res)>>
            IN t \in Seq(Updates) /\ t # <<>> /\ Sound(t)
  BY <1>1, <1>2 DEF Sound
<1>6. ASSUME NEW res \in {"ok", "error"}
      PROVE LET t == <<Report("worker", res)>>
            IN t \in Seq(Updates) /\ t # <<>> /\ Sound(t)
  BY <1>1, <1>2 DEF Sound
<1>7. ASSUME NEW res \in {"ok", "error"}
      PROVE LET t == <<Report("synthesize", res), Begin("evaluate"), End("evaluate", "ok")>>
            IN t \in Seq(Updates) /\ t # <<>> /\ Sound(t)
  BY <1>1, <1>2 DEF Sound
<1>8. QED BY <1>3, <1>4, <1>5, <1>6, <1>7
-----------------------------------------------------------------------------
(* Moves of a worker, and changes of a row.                                *)

\* One worker moves.
Moved(w, at, run, s, todo) ==
  /\ worker' \in [Worker -> WorkerRecord]
  /\ \A v \in Worker : v # w => worker'[v] = worker[v]
  /\ worker'[w].at = at /\ worker'[w].run = run
  /\ worker'[w].step = s /\ worker'[w].todo = todo

LEMMA RecordMoves ==
  ASSUME worker \in [Worker -> WorkerRecord], NEW w \in Worker, NEW c \in WorkerRecord,
         worker' = [worker EXCEPT ![w] = c]
  PROVE  Moved(w, c.at, c.run, c.step, c.todo)
BY DEF Moved

LEMMA GoMoves ==
  ASSUME worker \in [Worker -> WorkerRecord], NEW w \in Worker, NEW at \in Stages, Go(w, at)
  PROVE  Moved(w, at, RunOf(w), StepOf(w), worker[w].todo)
<1>1. PICK c \in WorkerRecord : c = worker[w]
  OBVIOUS
<1> DEFINE d == [c EXCEPT !.at = at]
<1>2. d \in WorkerRecord /\ d.at = at /\ d.run = c.run /\ d.step = c.step /\ d.todo = c.todo
  BY DEF WorkerRecord
<1>3. worker' = [worker EXCEPT ![w] = d]
  BY <1>1 DEF Go
<1> HIDE DEF d
<1>4. Moved(w, d.at, d.run, d.step, d.todo)
  BY <1>2, <1>3, RecordMoves
<1>5. QED BY <1>1, <1>2, <1>4 DEF RunOf, StepOf

LEMMA WriteMoves ==
  ASSUME worker \in [Worker -> WorkerRecord], NEW w \in Worker, NEW todo \in Seq(Updates),
         Write(w, todo)
  PROVE  Moved(w, "write", RunOf(w), StepOf(w), todo)
<1>1. PICK c \in WorkerRecord : c = worker[w]
  OBVIOUS
<1> DEFINE d == [c EXCEPT !.at = "write", !.todo = todo]
<1>2. d \in WorkerRecord /\ d.at = "write" /\ d.run = c.run /\ d.step = c.step /\ d.todo = todo
  BY DEF WorkerRecord, Stages
<1>3. worker' = [worker EXCEPT ![w] = d]
  BY <1>1 DEF Write
<1> HIDE DEF d
<1>4. Moved(w, d.at, d.run, d.step, d.todo)
  BY <1>2, <1>3, RecordMoves
<1>5. QED BY <1>1, <1>2, <1>4 DEF RunOf, StepOf

LEMMA StartRecord ==
  ASSUME NEW at \in Stages, NEW r \in 0..Runs
  PROVE  LET c == [Resting EXCEPT !.at = at, !.run = r]
         IN /\ c \in WorkerRecord /\ c.at = at /\ c.run = r /\ c.step = "worker" /\ c.todo = <<>>
            /\ Resting \in WorkerRecord
<1>1. <<>> \in Seq(Updates)
  OBVIOUS
<1>2. Resting \in WorkerRecord
  BY <1>1, Numbers DEF Resting, WorkerRecord, Stages, Leased
<1>3. Resting.step = "worker" /\ Resting.todo = <<>>
  BY DEF Resting
<1>4. QED BY <1>2, <1>3 DEF WorkerRecord

LEMMA StartMoves ==
  ASSUME worker \in [Worker -> WorkerRecord], NEW w \in Worker, NEW at \in Stages, NEW r \in 0..Runs,
         worker' = [worker EXCEPT ![w] = [Resting EXCEPT !.at = at, !.run = r]]
  PROVE  Moved(w, at, r, "worker", <<>>)
<1> DEFINE c == [Resting EXCEPT !.at = at, !.run = r]
<1>1. c \in WorkerRecord /\ c.at = at /\ c.run = r /\ c.step = "worker" /\ c.todo = <<>>
  BY StartRecord
<1> HIDE DEF c
<1>2. worker' = [worker EXCEPT ![w] = c]
  BY DEF c
<1>3. Moved(w, c.at, c.run, c.step, c.todo)
  BY <1>1, <1>2, RecordMoves
<1>4. QED BY <1>1, <1>3

LEMMA RestMoves ==
  ASSUME worker \in [Worker -> WorkerRecord], NEW w \in Worker, Rest(w)
  PROVE  Moved(w, "rest", 0, "worker", <<>>)
<1>1. Resting \in WorkerRecord
  BY Numbers DEF Resting, WorkerRecord, Stages, Leased
<1>2. Moved(w, Resting.at, Resting.run, Resting.step, Resting.todo)
  BY <1>1, RecordMoves DEF Rest
<1>3. QED BY <1>2 DEF Resting

LoopRun(w, r) == IF w \in Outside THEN 0 ELSE r
LEMMA LoopMoves ==
  ASSUME worker \in [Worker -> WorkerRecord], NEW w \in Worker, RunOf(w) \in Run,
         worker' = [worker EXCEPT ![w] = Looping(w, RunOf(w))]
  PROVE  Moved(w, "loop", LoopRun(w, RunOf(w)), "worker", <<>>)
<1>1. LoopRun(w, RunOf(w)) \in 0..Runs
  BY Numbers DEF LoopRun
<1>2. worker' = [worker EXCEPT ![w] = [Resting EXCEPT !.at = "loop", !.run = LoopRun(w, RunOf(w))]]
  BY DEF Looping, LoopRun
<1>3. QED BY <1>1, <1>2, StartMoves DEF Stages

\* What workers still rely on after a change of the rows.
ResultKept ==
  \A r \in Run : step[r]["worker"].result # "none" => step'[r]["worker"].result # "none"

LEMMA ServingKept ==
  ASSUME NEW w \in Worker, Serving(w), worker'[w] = worker[w], ResultKept
  PROVE  Serving(w)'
<1>1. worker[w].at \in {"leased", "exec"} => RunOf(w) \in Run
  BY DEF Serving
<1>2. QED BY <1>1 DEF Serving, ResultKept, RunOf, StepOf, At

LEMMA MovedSound ==
  ASSUME DInv, NEW w \in Worker, NEW at, NEW run, NEW s, NEW todo, Moved(w, at, run, s, todo),
         ResultKept,
         at \notin {"rest", "due", "loop"} \/ (at = "loop" /\ w \notin Outside) => run \in Run,
         at = "write" => todo # <<>>,
         Sound(todo),
         at \in {"leased", "exec"} /\ s = "synthesize" => step'[run]["worker"].result # "none"
  PROVE  WInv'
<1>1. \A v \in Worker \ {w} : Serving(v)'
  BY ServingKept DEF DInv, WInv, Moved
<1>2. Serving(w)'
  BY DEF Serving, Moved, RunOf, StepOf, At, Sound, Resulting
<1>3. QED BY <1>1, <1>2 DEF WInv, Moved

LEMMA NoneMoved == ASSUME DInv, UNCHANGED worker, ResultKept PROVE WInv'
BY ServingKept DEF DInv, WInv

LEMMA QueueRests == ASSUME DInv, UNCHANGED queueVars PROVE QInv' /\ ResultKept
BY DEF DInv, QInv, queueVars, ResultKept, Fits, Timed, Reported, Frozen

\* Rows change, and each fits.
Same(q) == status'[q] = status[q] /\ canceled'[q] = canceled[q] /\ step'[q] = step[q]
LEMMA RowsSound ==
  ASSUME DInv,
         status' \in [Run -> RunStatus], canceled' \in [Run -> BOOLEAN],
         step' \in [Run -> [Step -> StepRecord]],
         \A q \in Run : Same(q) \/ Fits(status'[q], canceled'[q], step'[q]),
         \A q \in Run : step[q]["worker"].result # "none" => step'[q]["worker"].result # "none"
  PROVE  QInv' /\ ResultKept
<1>1. ResultKept
  BY DEF ResultKept
<1>2. ASSUME NEW q \in Run PROVE Fits(status[q], canceled[q], step[q])'
  <2>1. Fits(status[q], canceled[q], step[q])
    BY DEF DInv, QInv
  <2>2. CASE Same(q)
    BY <2>1, <2>2 DEF Fits, Timed, Reported, Frozen, Same
  <2>3. CASE Fits(status'[q], canceled'[q], step'[q])
    BY <2>3 DEF Fits, Timed, Reported, Frozen
  <2>4. QED BY <2>2, <2>3
<1>3. QED BY <1>1, <1>2 DEF QInv

LEMMA Recorded ==
  ASSUME incidents \in [Incidents -> Nat], NEW i \in Incidents, Record(i)
  PROVE  /\ incidents' \in [Incidents -> Nat] /\ incidents'[i] = incidents[i] + 1
         /\ \A j \in Incidents : j # i => incidents'[j] = incidents[j]
BY DEF Record

-----------------------------------------------------------------------------
(* One action after the other keeps the types, and frozen what is canceled. *)

LEMMA NothingToWrite == Sound(<<>>)
BY DEF Sound

\* The leases of the job and the history, with one incident more or none.
Recording == UNCHANGED incidents \/ \E i \in Incidents : Record(i)
LEMMA StillTyped ==
  ASSUME DInv, JobSound', sends' \in [Run -> Nat], doubt' \in BOOLEAN, Recording
  PROVE  JTyped'
<1>1. incidents' \in [Incidents -> Nat]
  BY Recorded DEF DInv, JTyped, Recording
<1>2. QED BY <1>1 DEF JTyped

\* The job's record is left alone, read again by the gateway, written by it, or let go.
LEMMA JobIsKept == ASSUME DInv, UNCHANGED jobVars PROVE JobSound'
BY DEF DInv, JTyped, JobSound, jobVars

LEMMA JobIsRead ==
  ASSUME DInv, NEW w \in Worker, Read(w), UNCHANGED <<job, active>> PROVE JobSound'
<1>1. JobSound /\ active \in 0..Runs
  BY Numbers DEF DInv, JTyped, JobSound
<1>2. overdue' \in BOOLEAN /\ cached' \in 0..Runs /\ active' \in {0, cached'}
  BY <1>1 DEF JobSound, Read
<1>3. QED BY <1>1, <1>2 DEF JobSound

LEMMA JobIsSaved ==
  ASSUME DInv, NEW r \in 0..Runs, Save(r), overdue' \in BOOLEAN,
         job' = job \/ job' \in {"enabled", "disabled", "removed"}
  PROVE  JobSound'
BY DEF DInv, JTyped, JobSound, Save

LEMMA JobIsLetGo ==
  ASSUME DInv, LetGo \/ \E w \in Worker : LetGoBy(w),
         job' = job \/ job' \in {"enabled", "disabled", "removed"}
  PROVE  JobSound'
<1>1. JobSound /\ 0 \in 0..Runs
  BY Numbers DEF DInv, JTyped
<1>2. QED BY <1>1 DEF JobSound, LetGo, LetGoBy, Save

LEMMA JobRests ==
  ASSUME DInv, UNCHANGED <<jobVars, sends, doubt>>, Recording
  PROVE  JTyped'
<1>1. sends' \in [Run -> Nat] /\ doubt' \in BOOLEAN
  BY DEF DInv, JTyped
<1>2. QED BY <1>1, JobIsKept, StillTyped

LEMMA JobReads ==
  ASSUME DInv, NEW w \in Worker, Read(w), UNCHANGED <<job, active, sends, doubt>>, Recording
  PROVE  JTyped'
<1>1. sends' \in [Run -> Nat] /\ doubt' \in BOOLEAN
  BY DEF DInv, JTyped
<1>2. QED BY <1>1, JobIsRead, StillTyped

\* A worker moves and nothing else changes.
LEMMA OnlyMoved ==
  ASSUME DInv, NEW w \in Worker, NEW at, NEW run, NEW s, NEW todo, Moved(w, at, run, s, todo),
         UNCHANGED queueVars, JTyped',
         at \notin {"rest", "due", "loop"} \/ (at = "loop" /\ w \notin Outside) => run \in Run,
         at = "write" => todo # <<>>,
         Sound(todo),
         at \in {"leased", "exec"} /\ s = "synthesize" => step[run]["worker"].result # "none"
  PROVE  DInv'
<1>1. QInv' /\ ResultKept
  BY QueueRests
<1>2. at \in {"leased", "exec"} /\ s = "synthesize" => step'[run]["worker"].result # "none"
  BY DEF queueVars
<1>3. WInv'
  BY <1>1, <1>2, MovedSound
<1>4. QED BY <1>1, <1>3 DEF DInv

\* What is known of a worker.
LEMMA Known ==
  ASSUME DInv, NEW w \in Worker
  PROVE  /\ worker \in [Worker -> WorkerRecord] /\ worker[w].at \in Stages
         /\ RunOf(w) \in 0..Runs /\ StepOf(w) \in Leased /\ worker[w].todo \in Seq(Updates)
         /\ Sound(worker[w].todo)
         /\ worker[w].at \notin {"rest", "due", "loop"} => RunOf(w) \in Run
         /\ At(w, "loop") /\ w \notin Outside => RunOf(w) \in Run
         /\ At(w, "write") => worker[w].todo # <<>>
         /\ worker[w].at \in {"leased", "exec"} /\ StepOf(w) = "synthesize" =>
              step[RunOf(w)]["worker"].result # "none"
<1>1. worker \in [Worker -> WorkerRecord] /\ Serving(w)
  BY DEF DInv, WInv
<1>2. worker[w] \in WorkerRecord
  BY <1>1
<1>3. worker[w].at \in Stages /\ worker[w].run \in 0..Runs /\ worker[w].step \in Leased
      /\ worker[w].todo \in Seq(Updates)
  BY <1>2 DEF WorkerRecord
<1>4. QED BY <1>1, <1>3 DEF Serving, RunOf, StepOf

LEMMA PrepareD == ASSUME DInv, NEW w \in Worker, Prepare(w) PROVE DInv'
<1>1. JTyped' /\ UNCHANGED queueVars
  BY JobReads DEF Prepare, history, Recording
<1>2. At(w, "leased") /\ RunOf(w) \in Run
  BY Known DEF Prepare, At
<1>3. CASE Go(w, "exec")
  <2>1. Moved(w, "exec", RunOf(w), StepOf(w), worker[w].todo)
    BY <1>3, Known, GoMoves DEF Stages
  <2>2. StepOf(w) = "synthesize" => step[RunOf(w)]["worker"].result # "none"
    BY <1>2, Known DEF At
  <2>3. QED BY <1>1, <1>2, <2>1, <2>2, Known, OnlyMoved
<1>4. CASE Loop(w)
  <2>1. Moved(w, "loop", LoopRun(w, RunOf(w)), "worker", <<>>)
    BY <1>2, <1>4, Known, LoopMoves DEF Loop
  <2>2. w \notin Outside => LoopRun(w, RunOf(w)) \in Run
    BY <1>2 DEF LoopRun
  <2>3. QED BY <1>1, <2>1, <2>2, NothingToWrite, OnlyMoved
<1>5. QED BY <1>3, <1>4 DEF Prepare

LEMMA SynthesizeD == ASSUME DInv, NEW w \in Worker, Synthesize(w) PROVE DInv'
<1>1. JTyped' /\ UNCHANGED queueVars
  BY JobRests DEF Synthesize, history, Recording
<1>2. RunOf(w) \in Run /\ step[RunOf(w)]["worker"].result # "none" /\ "worker" \in Step
  BY Known DEF Synthesize, At, Step, Leased
<1>3. PICK res \in {"ok", "error"} : res = step[RunOf(w)]["worker"].result
  <2>1. step[RunOf(w)]["worker"] \in StepRecord
    BY <1>2 DEF DInv, QInv
  <2>2. step[RunOf(w)]["worker"].result \in {"none", "ok", "error"}
    BY <2>1 DEF StepRecord
  <2>3. QED BY <1>2, <2>2
<1> DEFINE t == <<Report("synthesize", res), Begin("evaluate"), End("evaluate", "ok")>>
<1>4. t \in Seq(Updates) /\ t # <<>> /\ Sound(t)
  BY Todos
<1>5. Write(w, t)
  BY <1>3 DEF Synthesize
<1> HIDE DEF t
<1>6. Moved(w, "write", RunOf(w), StepOf(w), t)
  BY <1>4, <1>5, Known, WriteMoves
<1>7. QED BY <1>1, <1>2, <1>4, <1>6, OnlyMoved

\* An update is to be written, and an incident may have happened.
LEMMA WritesD ==
  ASSUME DInv, NEW w \in Worker, At(w, "exec") \/ At(w, "failed"),
         NEW t \in Seq(Updates), t # <<>>, Sound(t),
         Write(w, t), UNCHANGED queueVars, JTyped'
  PROVE  DInv'
<1>1. Moved(w, "write", RunOf(w), StepOf(w), t)
  BY Known, WriteMoves
<1>2. RunOf(w) \in Run
  BY Known DEF At
<1>3. QED BY <1>1, <1>2, OnlyMoved

LEMMA FailsD ==
  ASSUME DInv, NEW w \in Worker, At(w, "exec"), Go(w, "failed"), UNCHANGED queueVars, JTyped'
  PROVE  DInv'
<1>1. Moved(w, "failed", RunOf(w), StepOf(w), worker[w].todo)
  BY Known, GoMoves DEF Stages
<1>2. RunOf(w) \in Run
  BY Known DEF At
<1>3. QED BY <1>1, <1>2, Known, OnlyMoved

LEMMA AgentD ==
  ASSUME DInv, NEW w \in Worker,
         (\E res \in {"ok", "error"} : AgentReturns(w, res)) \/ AgentThrows(w) \/ AgentIsAborted(w)
  PROVE  DInv'
<1>1. CASE \E res \in {"ok", "error"} : AgentReturns(w, res)
  <2>1. PICK res \in {"ok", "error"} : AgentReturns(w, res)
    BY <1>1
  <2>2. At(w, "exec") /\ Write(w, <<Report("worker", res)>>) /\ UNCHANGED queueVars
    BY <2>1 DEF AgentReturns
  <2>3. PICK t \in Seq(Updates) : t = <<Report("worker", res)>> /\ t # <<>> /\ Sound(t)
    BY Todos
  <2>4. JTyped'
    BY <2>1, JobRests DEF AgentReturns, history, Recording
  <2>5. QED BY <2>2, <2>3, <2>4, WritesD
<1>2. CASE AgentThrows(w)
  <2>1. "failure" \in Incidents
    BY DEF Incidents
  <2>2. JTyped'
    BY <1>2, <2>1, JobRests DEF AgentThrows, Recording, jobVars
  <2>3. QED BY <1>2, <2>2, FailsD DEF AgentThrows
<1>3. CASE AgentIsAborted(w)
  <2>1. "failure" \in Incidents
    BY DEF Incidents
  <2>2. JTyped'
    BY <1>3, <2>1, JobRests DEF AgentIsAborted, Recording, jobVars
  <2>3. At(w, "exec") /\ Write(w, Failure) /\ UNCHANGED queueVars
    BY <1>3 DEF AgentIsAborted
  <2>4. QED BY <2>2, <2>3, Todos, WritesD
<1>4. QED BY <1>1, <1>2, <1>3

LEMMA MoreSent ==
  ASSUME DInv, NEW r \in Run, NEW n \in {0, 1}, sends' = [sends EXCEPT ![r] = @ + n]
  PROVE  sends' \in [Run -> Nat] /\ sends'[r] = sends[r] + n
         /\ \A q \in Run : q # r => sends'[q] = sends[q]
BY DEF DInv, JTyped

LEMMA DeliveryD ==
  ASSUME DInv, NEW w \in Worker, SkipDelivery(w) \/ Deliver(w) \/ DeliveryIsBlocked(w)
  PROVE  DInv'
<1>1. At(w, "exec") /\ RunOf(w) \in Run /\ UNCHANGED queueVars
  BY Known DEF SkipDelivery, Deliver, DeliveryIsBlocked, Delivering, At
<1>2. sends' \in [Run -> Nat]
  <2>1. CASE Deliver(w)
    <3>1. sends' = [sends EXCEPT ![RunOf(w)] = @ + 1]
      BY <2>1 DEF Deliver
    <3>2. QED BY <1>1, <3>1, MoreSent
  <2>2. CASE sends' = sends
    BY <2>2 DEF DInv, JTyped
  <2>3. QED BY <2>1, <2>2 DEF SkipDelivery, DeliveryIsBlocked, history
<1>3. JTyped'
  <2>1. UNCHANGED jobVars /\ UNCHANGED <<doubt, incidents>>
    BY DEF SkipDelivery, Deliver, DeliveryIsBlocked, history
  <2>2. JobSound' /\ doubt' \in BOOLEAN
    BY <2>1, JobIsKept DEF DInv, JTyped
  <2>3. QED BY <1>2, <2>1, <2>2, StillTyped DEF Recording
<1>4. \E st \in {"ok", "skipped"}, res \in {"ok", "error"} : Write(w, <<End("deliver", st), Close(res)>>)
  BY DEF SkipDelivery, Deliver, DeliveryIsBlocked
<1>5. PICK st \in {"ok", "skipped"}, res \in {"ok", "error"} : Write(w, <<End("deliver", st), Close(res)>>)
  BY <1>4
<1>6. PICK t \in Seq(Updates) : t = <<End("deliver", st), Close(res)>> /\ t # <<>> /\ Sound(t)
  BY Todos
<1>7. QED BY <1>1, <1>3, <1>5, <1>6, WritesD

LEMMA DeliveryFailsD ==
  ASSUME DInv, NEW w \in Worker, NEW out \in {0, 1}, DeliveryFails(w, out) PROVE DInv'
<1>1. At(w, "exec") /\ RunOf(w) \in Run /\ UNCHANGED queueVars
  BY Known DEF DeliveryFails, Delivering, At
<1>2. sends' \in [Run -> Nat]
  BY <1>1, MoreSent DEF DeliveryFails
<1>3. Recording
  BY DEF DeliveryFails, Recording, Incidents
<1>4. JobSound' /\ doubt' \in BOOLEAN
  BY JobIsKept DEF DeliveryFails
<1>5. JTyped'
  BY <1>2, <1>3, <1>4, StillTyped
<1>6. QED BY <1>1, <1>5, FailsD DEF DeliveryFails

LEMMA RestD ==
  ASSUME DInv, NEW w \in Worker, Rest(w), UNCHANGED queueVars, JTyped'
  PROVE  DInv'
<1>1. Moved(w, "rest", 0, "worker", <<>>)
  BY Known, RestMoves
<1>2. QED BY <1>1, NothingToWrite, OnlyMoved

LEMMA CheckD == ASSUME DInv, NEW w \in Worker, CheckCanceled(w) PROVE DInv'
<1>1. JTyped' /\ UNCHANGED queueVars
  BY JobRests DEF CheckCanceled, history, Recording
<1>2. CASE Go(w, "apply")
  <2>1. Moved(w, "apply", RunOf(w), StepOf(w), worker[w].todo)
    BY <1>2, Known, GoMoves DEF Stages
  <2>2. RunOf(w) \in Run
    BY Known DEF CheckCanceled, At
  <2>3. QED BY <1>1, <2>1, <2>2, Known, OnlyMoved
<1>3. CASE Rest(w)
  BY <1>1, <1>3, RestD
<1>4. QED BY <1>2, <1>3 DEF CheckCanceled

\* The job is let go.
LEMMA LetGoD ==
  ASSUME DInv, NEW w \in Worker, ApplyOutcome(w) \/ Discard(w) PROVE DInv'
<1>1. Rest(w) /\ UNCHANGED queueVars
  BY DEF ApplyOutcome, Discard
<1>2. (LetGo \/ LetGoBy(w)) /\ UNCHANGED <<job, sends, doubt>> /\ Recording
  BY DEF ApplyOutcome, Discard, history, Recording
<1>3. sends' \in [Run -> Nat] /\ doubt' \in BOOLEAN
  BY <1>2 DEF DInv, JTyped
<1>4. QED BY <1>1, <1>2, <1>3, JobIsLetGo, StillTyped, RestD

LEMMA MaintainJ ==
  ASSUME DInv, NEW r \in 0..Runs, Maintain(r) PROVE JTyped' /\ UNCHANGED queueVars
<1>1. \E q \in 0..Runs : Save(q)
  BY Numbers DEF Maintain, Freed, FreedIfDue
<1>2. JobSound'
  BY <1>1, JobIsSaved DEF Maintain
<1>3. Recording /\ UNCHANGED queueVars /\ UNCHANGED <<sends, doubt>>
  BY DEF Maintain, Loses, Recording, Incidents
<1>4. sends' \in [Run -> Nat] /\ doubt' \in BOOLEAN
  BY <1>3 DEF DInv, JTyped
<1>5. QED BY <1>2, <1>3, <1>4, StillTyped

LEMMA RunsOfJob == ASSUME DInv PROVE active \in 0..Runs /\ cached \in 0..Runs
BY Numbers DEF DInv, JTyped, JobSound

\* Nothing but the job's record changes.
LEMMA OnlyJobD == ASSUME DInv, JTyped', UNCHANGED queueVars, UNCHANGED worker PROVE DInv'
<1>1. QInv' /\ ResultKept
  BY QueueRests
<1>2. QED BY <1>1, NoneMoved DEF DInv

LEMMA MaintainsD == ASSUME DInv, TickMaintains \/ ReadMaintains PROVE DInv'
<1>1. JTyped' /\ UNCHANGED queueVars
  BY MaintainJ, RunsOfJob DEF TickMaintains, ReadMaintains
<1>2. CASE Rest(Timer)
  BY <1>1, <1>2, RestD DEF Worker
<1>3. CASE UNCHANGED worker
  BY <1>1, <1>3, OnlyJobD
<1>4. QED BY <1>2, <1>3 DEF TickMaintains, ReadMaintains

LEMMA OperatorD == ASSUME DInv, OperatorChangesJob PROVE DInv'
<1>1. UNCHANGED queueVars /\ UNCHANGED <<worker, sends, doubt>>
  BY DEF OperatorChangesJob, ChangeJob, EditJobs, history
<1>2. Recording
  BY DEF OperatorChangesJob, ChangeJob, EditJobs, Loses, history, Recording, Incidents
<1>3. JobSound'
  <2>1. CASE \E to \in JobChanges : ChangeJob(to)
    <3>1. PICK to \in JobChanges : ChangeJob(to)
      BY <2>1
    <3>2. job' \in {"enabled", "disabled", "removed"}
      BY <3>1, QueueAssumption DEF ChangeJob
    <3>3. CASE to = "enabled"
      <4>1. Save(cached) /\ overdue' \in BOOLEAN
        BY <3>1, <3>3 DEF ChangeJob, DInv, JTyped, JobSound
      <4>2. QED BY <3>2, <4>1, RunsOfJob, JobIsSaved
    <3>4. CASE to # "enabled"
      BY <3>1, <3>2, <3>4, JobIsLetGo DEF ChangeJob
    <3>5. QED BY <3>3, <3>4
  <2>2. CASE EditJobs
    <3>1. Save(cached) /\ overdue' \in BOOLEAN /\ job' = job
      BY <2>2 DEF EditJobs, DInv, JTyped, JobSound
    <3>2. QED BY <3>1, RunsOfJob, JobIsSaved
  <2>3. QED BY <2>1, <2>2 DEF OperatorChangesJob
<1>4. JTyped'
  <2>1. sends' \in [Run -> Nat] /\ doubt' \in BOOLEAN
    BY <1>1 DEF DInv, JTyped
  <2>2. QED BY <1>2, <1>3, <2>1, StillTyped
<1>5. QED BY <1>1, <1>4, OnlyJobD

LEMMA AskRetryD ==
  ASSUME DInv, NEW c \in Callers, NEW r \in Run, AskRetry(c, r) PROVE DInv'
<1>1. JTyped' /\ UNCHANGED queueVars
  <2>1. Recording /\ UNCHANGED <<job, active, sends, doubt>> /\ Read(c) /\ c \in Worker
    BY DEF AskRetry, Recording, Incidents, Worker
  <2>2. QED BY <2>1, JobReads DEF AskRetry
<1>2. Moved(c, "retry", r, "worker", <<>>)
  <2>1. worker' = [worker EXCEPT ![c] = [Resting EXCEPT !.at = "retry", !.run = r]]
    BY DEF AskRetry
  <2>2. c \in Worker /\ r \in 0..Runs /\ "retry" \in Stages
    BY Numbers DEF Worker, Stages
  <2>3. QED BY <2>1, <2>2, Known, StartMoves
<1>3. c \in Worker
  BY DEF Worker
<1>4. QED BY <1>1, <1>2, <1>3, NothingToWrite, OnlyMoved

LEMMA MarkD == ASSUME DInv, NEW c \in Callers, Mark(c) PROVE DInv'
<1>1. c \in Worker /\ c \notin Outside
  BY QueueAssumption DEF Worker
<1>2. At(c, "mark") /\ RunOf(c) \in Run /\ RunOf(c) \in 0..Runs
  BY <1>1, Known DEF Mark, At
<1>3. JTyped'
  <2>1. JobSound'
    <3>1. CASE Removed
      BY <3>1, JobIsLetGo DEF Mark
    <3>2. CASE ~Removed
      <4>1. Save(RunOf(c)) /\ overdue' = FALSE /\ job' = job
        BY <3>2 DEF Mark
      <4>2. QED BY <1>2, <4>1, JobIsSaved
    <3>3. QED BY <3>1, <3>2
  <2>2. Recording /\ sends' \in [Run -> Nat] /\ doubt' \in BOOLEAN
    BY DEF Mark, history, Recording, DInv, JTyped
  <2>3. QED BY <2>1, <2>2, StillTyped
<1>4. Moved(c, "loop", RunOf(c), StepOf(c), worker[c].todo)
  BY <1>1, Known, GoMoves DEF Mark, Stages
<1>5. UNCHANGED queueVars
  BY DEF Mark
<1>6. QED BY <1>1, <1>2, <1>3, <1>4, <1>5, Known, OnlyMoved

LEMMA OutsideDiesD == ASSUME DInv, NEW w \in Outside, OutsideDies(w) PROVE DInv'
<1>1. Recording /\ UNCHANGED queueVars /\ Rest(w)
  BY DEF OutsideDies, Recording, Incidents
<1>2. JobSound' /\ sends' \in [Run -> Nat] /\ doubt' \in BOOLEAN
  BY JobIsKept DEF OutsideDies, DInv, JTyped, Doubt
<1>3. JTyped'
  BY <1>1, <1>2, StillTyped
<1>4. QED BY <1>1, <1>3, RestD DEF Worker

LEMMA JobLeaseD == ASSUME DInv, JobLeaseExpires PROVE DInv'
<1>1. JobSound' /\ sends' \in [Run -> Nat] /\ doubt' \in BOOLEAN
  BY DEF JobLeaseExpires, history, DInv, JTyped, JobSound
<1>2. Recording /\ UNCHANGED queueVars /\ UNCHANGED worker
  BY DEF JobLeaseExpires, history, Recording
<1>3. QED BY <1>1, <1>2, StillTyped, OnlyJobD

\* The rows as the invariant has them.
LEMMA Row ==
  ASSUME DInv, NEW r \in Run
  PROVE  /\ status \in [Run -> RunStatus] /\ canceled \in [Run -> BOOLEAN]
         /\ step \in [Run -> [Step -> StepRecord]]
         /\ status[r] \in RunStatus /\ canceled[r] \in BOOLEAN /\ step[r] \in [Step -> StepRecord]
         /\ Fits(status[r], canceled[r], step[r])
         /\ \A s \in Step : step[r][s] \in StepRecord /\ Timed(step[r][s])
         /\ "worker" \in Step
<1>1. /\ status \in [Run -> RunStatus] /\ canceled \in [Run -> BOOLEAN]
      /\ step \in [Run -> [Step -> StepRecord]] /\ Fits(status[r], canceled[r], step[r])
  BY DEF DInv, QInv
<1>2. "worker" \in Step /\ \A s \in Step : Timed(step[r][s])
  BY <1>1 DEF Step, Leased, Fits
<1>3. QED BY <1>1, <1>2

LEMMA ReserveD == ASSUME DInv, NEW w \in Worker, Reserve(w) PROVE DInv'
<1>1. NextRun \in Run /\ status[NextRun] = "none"
  BY NextRunIsNew DEF Reserve
<1>2. PICK r \in Run : r = NextRun
  BY <1>1
<1>3. /\ status' = [status EXCEPT ![r] = "queued"] /\ UNCHANGED <<canceled, step>>
      /\ Save(r) /\ overdue' = FALSE /\ UNCHANGED job /\ UNCHANGED history
      /\ worker' = [worker EXCEPT ![w] = [Resting EXCEPT !.at = "loop", !.run = r]]
  BY <1>2 DEF Reserve
<1>4. ~canceled[r]
  BY <1>1, <1>2, Row DEF Fits, Frozen
<1>5. QInv' /\ ResultKept
  <2>1. status' \in [Run -> RunStatus] /\ \A q \in Run : q # r => Same(q)
    BY <1>3, Row DEF RunStatus, Same
  <2>2. Fits(status'[r], canceled'[r], step'[r])
    <3>1. status'[r] = "queued" /\ canceled'[r] = canceled[r] /\ step'[r] = step[r]
      BY <1>3, Row
    <3>2. QED BY <1>4, <3>1, Row DEF Fits, Frozen
  <2>3. canceled' \in [Run -> BOOLEAN] /\ step' \in [Run -> [Step -> StepRecord]]
    BY <1>3, Row
  <2>4. \A q \in Run : step[q]["worker"].result # "none" => step'[q]["worker"].result # "none"
    BY <1>3
  <2>5. QED BY <2>1, <2>2, <2>3, <2>4, RowsSound
<1>6. Moved(w, "loop", r, "worker", <<>>)
  BY <1>3, Known, StartMoves, Numbers DEF Stages
<1>7. WInv'
  BY <1>5, <1>6, NothingToWrite, MovedSound
<1>8. JTyped'
  <2>1. JobSound'
    BY <1>3, Numbers, JobIsSaved
  <2>2. Recording /\ sends' \in [Run -> Nat] /\ doubt' \in BOOLEAN
    BY <1>3 DEF history, Recording, DInv, JTyped
  <2>3. QED BY <2>1, <2>2, StillTyped
<1>9. QED BY <1>5, <1>7, <1>8 DEF DInv

\* A step is taken up, and one whose lease has expired is given up.
EasedStep(c, y) ==
  \/ y = c
  \/ /\ c.timer \in {"expired", "delay"} /\ y.status \in {"queued", "recovered"}
     /\ y.attempt = c.attempt /\ y.result = c.result

LEMMA ExpirySound ==
  ASSUME DInv, NEW r \in Run, NEW s \in Step
  PROVE  LET y == AfterExpiry(r, s)
         IN /\ y \in StepRecord /\ Timed(y) /\ y.result = step[r][s].result
            /\ y.status = "ok" => step[r][s].status = "ok"
            /\ EasedStep(step[r][s], y)
<1>1. PICK stp \in StepRecord : stp = step[r][s] /\ Timed(stp)
  BY Row
<1>2. "queued" \in StepStatus /\ "recovered" \in StepStatus
      /\ RetryTimer(stp.attempt) \in {"none", "delay"}
  BY DEF StepStatus, RetryTimer
<1>3. IsExpired(r, s) <=> stp.timer = "expired"
  BY <1>1 DEF IsExpired
<1>4. Resumable(r, s) => stp.timer = "expired"
  BY <1>3 DEF Resumable
<1>5. CASE stp.timer = "expired" /\ AfterExpiry(r, s) = [stp EXCEPT !.status = "queued", !.timer = RetryTimer(stp.attempt)]
  <2>1. PICK tm \in {"none", "delay"} : tm = RetryTimer(stp.attempt)
    BY <1>2
  <2> DEFINE y == [stp EXCEPT !.status = "queued", !.timer = tm]
  <2>2. tm \in {"none", "lease", "expired", "delay"}
    OBVIOUS
  <2>3. /\ y \in StepRecord /\ y.status = "queued" /\ y.timer = tm /\ y.result = stp.result
        /\ y.attempt = stp.attempt
    BY <1>2, <2>2 DEF StepRecord
  <2> HIDE DEF y
  <2>4. Timed(y)
    BY <2>3 DEF Timed
  <2>5. AfterExpiry(r, s) = y
    BY <1>5, <2>1 DEF y
  <2>6. EasedStep(stp, y)
    BY <1>5, <2>3 DEF EasedStep
  <2>7. QED BY <1>1, <2>3, <2>4, <2>5, <2>6
<1>6. CASE stp.timer = "expired" /\ AfterExpiry(r, s) = [stp EXCEPT !.status = "recovered", !.timer = "none"]
  <2> DEFINE y == [stp EXCEPT !.status = "recovered", !.timer = "none"]
  <2>1. /\ y \in StepRecord /\ y.status = "recovered" /\ y.timer = "none" /\ y.result = stp.result
        /\ y.attempt = stp.attempt
    BY <1>2 DEF StepRecord
  <2> HIDE DEF y
  <2>2. Timed(y)
    BY <2>1 DEF Timed
  <2>3. AfterExpiry(r, s) = y
    BY <1>6 DEF y
  <2>4. EasedStep(stp, y)
    BY <1>6, <2>1 DEF EasedStep
  <2>5. QED BY <1>1, <2>1, <2>2, <2>3, <2>4
<1>7. CASE AfterExpiry(r, s) = stp
  BY <1>1, <1>7 DEF EasedStep
<1>8. QED BY <1>1, <1>3, <1>4, <1>5, <1>6, <1>7 DEF AfterExpiry

LEMMA CanceledIsNotStale ==
  ASSUME DInv, NEW r \in Run, canceled[r]
  PROVE  /\ ~Stale(r) /\ Cleared(r) = {} /\ status[r] \in {"canceled", "recovered"}
         /\ \A s \in Step : step[r][s].timer \notin {"lease", "expired", "delay"}
<1>1. /\ status[r] \in {"canceled", "recovered"}
      /\ \A s \in Step : step[r][s].timer \notin {"lease", "expired", "delay"}
  BY Row DEF Fits, Frozen, Timed
<1>2. QED BY <1>1 DEF Stale, Cleared, IsExpired

LEMMA RecoverSound ==
  ASSUME DInv, RecoverExpiredLeases
  PROVE  /\ QInv' /\ ResultKept
         /\ \A r \in Run : \/ Same(r)
                          \/ /\ Stale(r) /\ status'[r] \in {"queued", "recovered"}
                             /\ canceled'[r] = canceled[r]
         /\ \A r \in Run, s \in Step : EasedStep(step[r][s], step'[r][s])
<1>1. \A r \in Run : Stale(r) \/ Same(r)
  BY DEF RecoverExpiredLeases, Same
<1>2. ASSUME NEW r \in Run, Stale(r)
      PROVE  /\ status'[r] \in {"queued", "recovered"} /\ canceled'[r] = canceled[r]
             /\ step'[r] = [s \in Step |-> AfterExpiry(r, s)] /\ ~canceled[r]
  BY <1>2, CanceledIsNotStale DEF RecoverExpiredLeases
<1>3. ASSUME NEW r \in Run, Stale(r)
      PROVE  step'[r] \in [Step -> StepRecord] /\ Fits(status'[r], canceled'[r], step'[r])
             /\ step'[r]["worker"].result = step[r]["worker"].result
             /\ \A s \in Step : EasedStep(step[r][s], step'[r][s])
  <2>1. \A s \in Step : /\ step'[r][s] \in StepRecord /\ Timed(step'[r][s])
                        /\ step'[r][s].result = step[r][s].result
                        /\ step'[r][s].status = "ok" => step[r][s].status = "ok"
                        /\ EasedStep(step[r][s], step'[r][s])
    <3>1. TAKE s \in Step
    <3>2. step'[r][s] = AfterExpiry(r, s)
      BY <1>2, <1>3
    <3>3. QED BY <3>2, ExpirySound
  <2>2. step'[r] \in [Step -> StepRecord]
    BY <1>2, <1>3, <2>1
  <2>3. Reported(step'[r])
    BY <2>1, Row DEF Fits, Reported
  <2>4. Frozen(status'[r], canceled'[r], step'[r])
    BY <1>2, <1>3 DEF Frozen
  <2>5. QED BY <2>1, <2>2, <2>3, <2>4, Row DEF Fits
<1>4. status' \in [Run -> RunStatus] /\ canceled' \in [Run -> BOOLEAN]
  <2>1. \A r \in Run : status'[r] \in RunStatus
    BY <1>1, <1>2, Row DEF Same, RunStatus
  <2>2. QED BY <2>1 DEF RecoverExpiredLeases, DInv, QInv
<1>5. step' \in [Run -> [Step -> StepRecord]]
  <2>1. \A r \in Run : step'[r] \in [Step -> StepRecord]
    BY <1>1, <1>3, Row DEF Same
  <2>2. QED BY <2>1 DEF RecoverExpiredLeases
<1>6. \A q \in Run : step[q]["worker"].result # "none" => step'[q]["worker"].result # "none"
  BY <1>1, <1>3 DEF Same
<1>7. \A r \in Run, s \in Step : EasedStep(step[r][s], step'[r][s])
  BY <1>1, <1>3 DEF Same, EasedStep
<1>8. QInv' /\ ResultKept
  BY <1>1, <1>3, <1>4, <1>5, <1>6, RowsSound
<1>9. QED BY <1>1, <1>2, <1>7, <1>8

LEMMA RecoverD ==
  ASSUME DInv, NEW w \in Worker, RecoverExpiredLeases, At(w, "rest"),
         (w = Timer /\ Go(w, "due")) \/ (w \in Outside /\ Go(w, "loop")), UNCHANGED <<jobVars, history>>
  PROVE  DInv'
<1>1. QInv' /\ ResultKept
  BY RecoverSound
<1>2. JTyped'
  BY JobRests DEF history, Recording
<1>3. CASE w = Timer /\ Go(w, "due")
  <2>1. Moved(w, "due", RunOf(w), StepOf(w), worker[w].todo)
    BY <1>3, Known, GoMoves DEF Stages
  <2>2. WInv'
    BY <1>1, <2>1, Known, MovedSound
  <2>3. QED BY <1>1, <1>2, <2>2 DEF DInv
<1>4. CASE w \in Outside /\ Go(w, "loop")
  <2>1. Moved(w, "loop", RunOf(w), StepOf(w), worker[w].todo)
    BY <1>4, Known, GoMoves DEF Stages
  <2>2. WInv'
    BY <1>1, <1>4, <2>1, Known, MovedSound
  <2>3. QED BY <1>1, <1>2, <2>2 DEF DInv
<1>5. QED BY <1>3, <1>4

LEMMA Marks ==
  ASSUME DInv, NEW w \in Worker, NEW n
  PROVE  /\ Marked(w, n) \in [Run -> RunStatus]
         /\ \A c \in Run : Marked(w, n)[c] = status[c] \/ (canceled[c] /\ Marked(w, n)[c] = "canceled")
<1>1. \A c \in Run : Marked(w, n)[c] = status[c] \/ (canceled[c] /\ Marked(w, n)[c] = "canceled")
  BY DEF Marked, Met
<1>2. \A c \in Run : Marked(w, n)[c] \in RunStatus
  BY <1>1, Row DEF RunStatus
<1>3. QED BY <1>1, <1>2 DEF Marked

\* A run with a mark is canceled.
LEMMA MarkFits ==
  ASSUME DInv, NEW c \in Run, canceled[c] PROVE Fits("canceled", canceled[c], step[c])
BY Row DEF Fits, Frozen

LEMMA LeaseNothingD == ASSUME DInv, NEW w \in Worker, LeaseNothing(w) PROVE DInv'
<1>1. status' = Marked(w, Runs) /\ UNCHANGED <<canceled, step>> /\ Rest(w)
  BY DEF LeaseNothing
<1>2. QInv' /\ ResultKept
  <2>1. status' \in [Run -> RunStatus]
        /\ \A c \in Run : status'[c] = status[c] \/ (canceled[c] /\ status'[c] = "canceled")
    BY <1>1, Marks
  <2>2. \A q \in Run : Same(q) \/ Fits(status'[q], canceled'[q], step'[q])
    BY <1>1, <2>1, MarkFits DEF Same
  <2>3. canceled' \in [Run -> BOOLEAN] /\ step' \in [Run -> [Step -> StepRecord]]
    BY <1>1 DEF DInv, QInv
  <2>4. \A q \in Run : step[q]["worker"].result # "none" => step'[q]["worker"].result # "none"
    BY <1>1
  <2>5. QED BY <2>1, <2>2, <2>3, <2>4, RowsSound
<1>3. Moved(w, "rest", 0, "worker", <<>>)
  BY <1>1, Known, RestMoves
<1>4. WInv'
  BY <1>2, <1>3, NothingToWrite, MovedSound
<1>5. JTyped'
  BY JobRests DEF LeaseNothing, history, Recording
<1>6. QED BY <1>2, <1>4, <1>5 DEF DInv

\* What a lease changes.
Leases(w, r, s) ==
  /\ r \in Leasable(w) /\ r \in Run /\ s \in RunnableSteps(r) /\ s \in Leased /\ s \in Step
  /\ ~canceled[r] /\ status[r] \in {"queued", "running"}
  /\ status'[r] = "running" /\ step'[r][s] = Held(step[r][s])
  /\ \A x \in Step : x # s => step'[r][x] = step[r][x]
  /\ status' \in [Run -> RunStatus] /\ step' \in [Run -> [Step -> StepRecord]]
  /\ \A c \in Run : c # r => /\ step'[c] = step[c]
                             /\ status'[c] = status[c] \/ (canceled[c] /\ status'[c] = "canceled")
  /\ Moved(w, "leased", r, s, worker[w].todo)
  /\ UNCHANGED <<canceled, jobVars, history>>

LEMMA ScopeIsOfRuns ==
  ASSUME DInv, NEW w \in Worker, At(w, "loop") PROVE Scope(w) \subseteq Run
BY Known DEF Scope

LEMMA RunnableIsLeased ==
  ASSUME NEW r PROVE RunnableSteps(r) \subseteq Leased
BY DEF RunnableSteps, Leased

LEMMA LeaseIs ==
  ASSUME DInv, NEW w \in Worker, Lease(w) PROVE \E r \in Run, s \in Leased : Leases(w, r, s)
<1>1. PICK r : r = First(w)
  OBVIOUS
<1>2. r \in Leasable(w) /\ r \in Run
  BY <1>1, ScopeIsOfRuns, FirstIsLeasable DEF Lease
<1>3. PICK s : s = CHOOSE x \in RunnableSteps(r) : TRUE
  OBVIOUS
<1>4. s \in RunnableSteps(r) /\ s \in Leased /\ s \in Step
  BY <1>2, <1>3, RunnableIsLeased DEF Leasable, Step
<1>5. /\ status' = [Marked(w, r) EXCEPT ![r] = "running"]
      /\ step' = [step EXCEPT ![r][s] = Held(@)]
      /\ worker' = [worker EXCEPT ![w].at = "leased", ![w].run = r, ![w].step = s]
      /\ UNCHANGED <<canceled, jobVars, history>>
  BY <1>1, <1>3 DEF Lease, First
<1>6. status[r] \in {"queued", "running"} /\ ~canceled[r]
  BY <1>2 DEF Leasable, Open, OpenUnlessCanceled
<1>7. /\ status' \in [Run -> RunStatus] /\ status'[r] = "running"
      /\ \A c \in Run : c # r => status'[c] = status[c] \/ (canceled[c] /\ status'[c] = "canceled")
  <2>1. Marked(w, r) \in [Run -> RunStatus] /\ "running" \in RunStatus
    BY Marks DEF RunStatus
  <2>2. \A c \in Run : c # r => status'[c] = Marked(w, r)[c]
    BY <1>5, <2>1
  <2>3. QED BY <1>2, <1>5, <2>1, <2>2, Marks
<1>8. /\ step' \in [Run -> [Step -> StepRecord]] /\ step'[r][s] = Held(step[r][s])
      /\ \A x \in Step : x # s => step'[r][x] = step[r][x]
      /\ \A c \in Run : c # r => step'[c] = step[c]
  <2>1. step \in [Run -> [Step -> StepRecord]] /\ Held(step[r][s]) \in StepRecord
    BY <1>2, <1>4, Row, StepIsHeld
  <2>2. QED BY <1>2, <1>4, <1>5, <2>1
<1>9. Moved(w, "leased", r, s, worker[w].todo)
  <2>1. PICK c \in WorkerRecord : c = worker[w]
    BY Known
  <2> DEFINE d == [c EXCEPT !.at = "leased", !.run = r, !.step = s]
  <2>2. d \in WorkerRecord /\ d.at = "leased" /\ d.run = r /\ d.step = s /\ d.todo = c.todo
    BY <1>2, <1>4, Numbers DEF WorkerRecord, Stages
  <2>3. worker' = [worker EXCEPT ![w] = d]
    BY <1>5, <2>1
  <2> HIDE DEF d
  <2>4. Moved(w, d.at, d.run, d.step, d.todo)
    BY <2>2, <2>3, Known, RecordMoves
  <2>5. QED BY <2>1, <2>2, <2>4
<1>10. Leases(w, r, s)
  BY <1>2, <1>4, <1>5, <1>6, <1>7, <1>8, <1>9 DEF Leases
<1>11. QED BY <1>2, <1>4, <1>10

LEMMA LeaseD == ASSUME DInv, NEW w \in Worker, Lease(w) PROVE DInv'
<1>1. PICK r \in Run, s \in Leased : Leases(w, r, s)
  BY LeaseIs
<1>2. s \in Step /\ "worker" \in Step /\ step[r][s] \in StepRecord
  BY <1>1, Row DEF Leases
<1>3. /\ step'[r][s].status = "running" /\ step'[r][s].timer = "lease"
      /\ step'[r][s].result = step[r][s].result
  BY <1>1, <1>2, StepIsHeld DEF Leases
<1>4. QInv' /\ ResultKept
  <2>1. Fits(status'[r], canceled'[r], step'[r])
    <3>1. \A x \in Step : Timed(step'[r][x])
      <4>1. Timed(step'[r][s])
        BY <1>3 DEF Timed
      <4>2. QED BY <1>1, <4>1, Row DEF Leases
    <3>2. Reported(step'[r])
      BY <1>1, <1>2, <1>3, Row DEF Leases, Reported, Fits
    <3>3. Frozen(status'[r], canceled'[r], step'[r])
      BY <1>1 DEF Leases, Frozen
    <3>4. QED BY <3>1, <3>2, <3>3 DEF Fits
  <2>2. ASSUME NEW q \in Run, q # r PROVE Same(q) \/ Fits(status'[q], canceled'[q], step'[q])
    <3>1. step'[q] = step[q] /\ canceled'[q] = canceled[q]
          /\ (status'[q] = status[q] \/ (canceled[q] /\ status'[q] = "canceled"))
      BY <1>1, <2>2 DEF Leases
    <3>2. QED BY <3>1, MarkFits DEF Same
  <2>3. /\ status' \in [Run -> RunStatus] /\ canceled' \in [Run -> BOOLEAN]
        /\ step' \in [Run -> [Step -> StepRecord]]
    BY <1>1, Row DEF Leases
  <2>4. \A q \in Run : step[q]["worker"].result # "none" => step'[q]["worker"].result # "none"
    BY <1>1, <1>2, <1>3 DEF Leases
  <2>5. QED BY <2>1, <2>2, <2>3, <2>4, RowsSound
<1>5. WInv'
  <2>1. s = "synthesize" => step'[r]["worker"].result # "none"
    <3>1. SUFFICES ASSUME s = "synthesize" PROVE step'[r]["worker"].result # "none"
      OBVIOUS
    <3>2. step[r]["worker"].status = "ok"
      BY <1>1, <3>1 DEF Leases, RunnableSteps, Before
    <3>3. step[r]["worker"].result # "none"
      BY <3>2, Row DEF Fits, Reported
    <3>4. QED BY <1>4, <3>3 DEF ResultKept
  <2>2. Moved(w, "leased", r, s, worker[w].todo) /\ Sound(worker[w].todo)
    BY <1>1, Known DEF Leases
  <2>3. QED BY <1>4, <2>1, <2>2, MovedSound
<1>6. JTyped'
  BY <1>1, JobRests DEF Leases, history, Recording
<1>7. QED BY <1>4, <1>5, <1>6 DEF DInv

\* A step of a run that is not canceled changes.
Changes(r, s, y) ==
  /\ step' \in [Run -> [Step -> StepRecord]] /\ step'[r][s] = y
  /\ \A x \in Step : x # s => step'[r][x] = step[r][x]
  /\ \A c \in Run : c # r => step'[c] = step[c]
ChangesRun(r, st) ==
  /\ status' \in [Run -> RunStatus] /\ status'[r] = st
  /\ \A c \in Run : c # r => status'[c] = status[c]

LEMMA StepChanges ==
  ASSUME DInv, NEW r \in Run, NEW s \in Step, NEW y \in StepRecord, step' = [step EXCEPT ![r][s] = y]
  PROVE  Changes(r, s, y)
<1>1. step \in [Run -> [Step -> StepRecord]]
  BY Row
<1>2. QED BY <1>1 DEF Changes

LEMMA RunChanges ==
  ASSUME DInv, NEW r \in Run, NEW st \in RunStatus, status' = [status EXCEPT ![r] = st]
  PROVE  ChangesRun(r, st)
<1>1. status \in [Run -> RunStatus]
  BY Row
<1>2. QED BY <1>1 DEF ChangesRun

\* What a retry writes.
RetriesStep(w, r, s, again) ==
  /\ r \in Run /\ s \in Leased /\ r = RunOf(w) /\ s = StepOf(w) /\ At(w, "failed")
  /\ again <=> ~canceled[r] /\ MayRetry(r, s)
  /\ ~canceled[r] =>
       /\ ChangesRun(r, IF again THEN "queued" ELSE "error")
       /\ \E y \in StepRecord :
            /\ Changes(r, s, y) /\ y.result = step[r][s].result /\ y.attempt = step[r][s].attempt
            /\ y.status = IF again THEN "queued" ELSE "error"
            /\ y.timer = IF again THEN RetryTimer(step[r][s].attempt) ELSE "none"
  /\ canceled[r] => UNCHANGED <<status, step>>
  /\ again => Moved(w, "loop", LoopRun(w, r), "worker", <<>>)
  /\ ~again => Moved(w, "write", r, s, IF s = "deliver" THEN DeliveryFailure ELSE Failure)
  /\ UNCHANGED <<canceled, jobVars, history>>

LEMMA OpenIs == ASSUME DInv, NEW r \in Run PROVE Open(r) <=> ~canceled[r]
BY Row DEF Open, OpenUnlessCanceled, Fits, Frozen

LEMMA RetryStepIs ==
  ASSUME DInv, NEW w \in Worker, RetryStep(w)
  PROVE  \E again \in BOOLEAN : RetriesStep(w, RunOf(w), StepOf(w), again)
<1>1. PICK r \in Run, s \in Leased : r = RunOf(w) /\ s = StepOf(w)
  BY Known DEF RetryStep, At
<1>2. PICK again \in BOOLEAN : again <=> (Open(r) /\ MayRetry(r, s))
  OBVIOUS
<1>3. /\ At(w, "failed") /\ UNCHANGED <<canceled, jobVars, history>>
      /\ Open(r) =>
           /\ status' = [status EXCEPT ![r] = IF again THEN "queued" ELSE "error"]
           /\ step' = [step EXCEPT ![r][s].status = IF again THEN "queued" ELSE "error",
                              ![r][s].timer = IF again THEN RetryTimer(step[r][s].attempt)
                                              ELSE "none"]
      /\ ~Open(r) => UNCHANGED <<status, step>>
      /\ again => Loop(w)
      /\ ~again => Write(w, IF s = "deliver" THEN DeliveryFailure ELSE Failure)
  BY <1>1, <1>2 DEF RetryStep
<1>4. Open(r) <=> ~canceled[r]
  BY OpenIs
<1>5. s \in Step
  BY DEF Step
<1>6. PICK st \in {"queued", "error"}, tm \in {"none", "delay"} :
        /\ st = (IF again THEN "queued" ELSE "error")
        /\ tm = (IF again THEN RetryTimer(step[r][s].attempt) ELSE "none")
  <2>1. RetryTimer(step[r][s].attempt) \in {"none", "delay"}
    BY DEF RetryTimer
  <2>2. QED BY <2>1
<1>7. PICK c \in StepRecord : c = step[r][s]
  BY <1>5, Row
<1> DEFINE y == [c EXCEPT !.status = st, !.timer = tm]
<1>8. y \in StepRecord /\ y.status = st /\ y.timer = tm /\ y.result = c.result /\ y.attempt = c.attempt
  BY DEF StepRecord, StepStatus
<1>9. ASSUME ~canceled[r] PROVE ChangesRun(r, st) /\ Changes(r, s, y)
  <2>1. status' = [status EXCEPT ![r] = st]
    BY <1>3, <1>4, <1>6, <1>9
  <2>2. step' = [step EXCEPT ![r][s] = y]
    <3>1. step' = [step EXCEPT ![r][s].status = st, ![r][s].timer = tm]
      BY <1>3, <1>4, <1>6, <1>9
    <3>2. [step EXCEPT ![r][s].status = st, ![r][s].timer = tm] = [step EXCEPT ![r][s] = y]
      <4>1. step \in [Run -> [Step -> StepRecord]]
        BY Row
      <4>2. QED BY <1>5, <1>7, <4>1
    <3>3. QED BY <3>1, <3>2
  <2> HIDE DEF y
  <2>3. st \in RunStatus
    BY DEF RunStatus
  <2>4. QED BY <1>5, <1>8, <2>1, <2>2, <2>3, RunChanges, StepChanges
<1> HIDE DEF y
<1>10. again => Moved(w, "loop", LoopRun(w, r), "worker", <<>>)
  BY <1>1, <1>3, Known, LoopMoves DEF Loop
<1>11. ~again => Moved(w, "write", r, s, IF s = "deliver" THEN DeliveryFailure ELSE Failure)
  <2>1. (IF s = "deliver" THEN DeliveryFailure ELSE Failure) \in Seq(Updates)
    BY Todos
  <2>2. QED BY <1>1, <1>3, <2>1, Known, WriteMoves
<1>12. ~canceled[r] =>
         /\ ChangesRun(r, IF again THEN "queued" ELSE "error")
         /\ \E z \in StepRecord :
              /\ Changes(r, s, z) /\ z.result = step[r][s].result /\ z.attempt = step[r][s].attempt
              /\ z.status = IF again THEN "queued" ELSE "error"
              /\ z.timer = IF again THEN RetryTimer(step[r][s].attempt) ELSE "none"
  BY <1>6, <1>7, <1>8, <1>9
<1>13. RetriesStep(w, r, s, again)
  BY <1>1, <1>2, <1>3, <1>4, <1>10, <1>11, <1>12 DEF RetriesStep
<1>14. QED BY <1>1, <1>13

LEMMA ChangeSound ==
  ASSUME DInv, NEW r \in Run, NEW s \in Step, NEW y \in StepRecord, Changes(r, s, y), Timed(y),
         s = "worker" => /\ y.status = "ok" => y.result # "none"
                         /\ step[r]["worker"].result # "none" => y.result # "none",
         ~canceled[r], UNCHANGED canceled,
         UNCHANGED status \/ \E st \in RunStatus \ {"canceled"} : ChangesRun(r, st)
  PROVE  QInv' /\ ResultKept
<1>1. "worker" \in Step
  BY Row
<1>2. /\ status' \in [Run -> RunStatus] /\ canceled' \in [Run -> BOOLEAN]
      /\ step' \in [Run -> [Step -> StepRecord]] /\ status'[r] # "canceled"
  BY Row DEF ChangesRun, Changes, Fits, Frozen
<1>3. \A q \in Run : q # r => Same(q)
  BY DEF Same, Changes, ChangesRun
<1>4. Fits(status'[r], canceled'[r], step'[r])
  <2>1. \A x \in Step : Timed(step'[r][x])
    BY Row DEF Changes
  <2>2. Reported(step'[r])
    BY <1>1, Row DEF Changes, Fits, Reported
  <2>3. Frozen(status'[r], canceled'[r], step'[r])
    BY <1>2 DEF Frozen
  <2>4. QED BY <2>1, <2>2, <2>3 DEF Fits
<1>5. \A q \in Run : step[q]["worker"].result # "none" => step'[q]["worker"].result # "none"
  BY <1>1, <1>3 DEF Changes, Same
<1>6. QED BY <1>2, <1>3, <1>4, <1>5, RowsSound

LEMMA RetryStepD == ASSUME DInv, NEW w \in Worker, RetryStep(w) PROVE DInv'
<1>1. PICK r, s : r = RunOf(w) /\ s = StepOf(w)
  OBVIOUS
<1>2. PICK again \in BOOLEAN : RetriesStep(w, r, s, again)
  BY <1>1, RetryStepIs
<1>3. r \in Run /\ s \in Leased /\ s \in Step /\ UNCHANGED <<canceled, jobVars, history>>
  BY <1>2 DEF RetriesStep, Step
<1>4. QInv' /\ ResultKept
  <2>1. CASE ~canceled[r]
    <3>1. PICK st \in {"queued", "error"} : ChangesRun(r, st) /\ st = IF again THEN "queued" ELSE "error"
      BY <1>2, <2>1 DEF RetriesStep
    <3>2. PICK y \in StepRecord :
            /\ Changes(r, s, y) /\ y.result = step[r][s].result /\ y.attempt = step[r][s].attempt
            /\ y.status = IF again THEN "queued" ELSE "error"
            /\ y.timer = IF again THEN RetryTimer(step[r][s].attempt) ELSE "none"
      BY <1>2, <2>1 DEF RetriesStep
    <3>3. Timed(y) /\ y.status # "ok"
      BY <3>2 DEF Timed, RetryTimer
    <3>4. st \in RunStatus \ {"canceled"}
      BY DEF RunStatus
    <3>5. QED BY <1>3, <2>1, <3>1, <3>2, <3>3, <3>4, ChangeSound
  <2>2. CASE canceled[r]
    <3>1. UNCHANGED queueVars
      BY <1>2, <1>3, <2>2 DEF RetriesStep, queueVars
    <3>2. QED BY <3>1, QueueRests
  <2>3. QED BY <2>1, <2>2
<1>5. WInv'
  <2>1. CASE again
    <3>1. Moved(w, "loop", LoopRun(w, r), "worker", <<>>)
      BY <1>2, <2>1 DEF RetriesStep
    <3>2. w \notin Outside => LoopRun(w, r) \in Run
      BY <1>3 DEF LoopRun
    <3>3. QED BY <1>4, <3>1, <3>2, NothingToWrite, MovedSound
  <2>2. CASE ~again
    <3>1. PICK t \in Seq(Updates) : t = (IF s = "deliver" THEN DeliveryFailure ELSE Failure)
                                    /\ t # <<>> /\ Sound(t)
      BY Todos
    <3>2. Moved(w, "write", r, s, t)
      BY <1>2, <2>2, <3>1 DEF RetriesStep
    <3>3. QED BY <1>3, <1>4, <3>1, <3>2, MovedSound
  <2>3. QED BY <2>1, <2>2
<1>6. JTyped'
  BY <1>3, JobRests DEF history, Recording
<1>7. QED BY <1>4, <1>5, <1>6 DEF DInv

\* What an update writes.
Updated(w, r, u, rest) ==
  /\ r \in Run /\ r = RunOf(w) /\ At(w, "write") /\ u \in Updates /\ rest \in Seq(Updates)
  /\ worker[w].todo # <<>> /\ u = Head(worker[w].todo) /\ rest = Tail(worker[w].todo)
  /\ u.op \in {"begin", "end", "close"} /\ u.step \in Step
  /\ ~canceled[r] =>
       /\ u.op = "begin" => ChangesRun(r, "running")
       /\ u.op = "end" => UNCHANGED status
       /\ u.op = "close" => ChangesRun(r, u.status) /\ u.status \in {"ok", "error"} /\ UNCHANGED step
       /\ u.op # "close" =>
            \E y \in StepRecord :
              /\ Changes(r, u.step, y)
              /\ u.op = "begin" => y = Held(step[r][u.step])
              /\ u.op = "end" =>
                   /\ y.status = u.status /\ u.status \in {"ok", "error", "skipped"}
                   /\ y.timer = "none" /\ y.attempt = step[r][u.step].attempt
                   /\ y.result = IF u.result = "none" THEN step[r][u.step].result ELSE u.result
  /\ canceled[r] => UNCHANGED <<status, step>>
  /\ rest # <<>> => Moved(w, "write", r, StepOf(w), rest)
  /\ rest = <<>> /\ u.op = "close" => Moved(w, "check", r, "worker", <<>>)
  /\ rest = <<>> /\ u.op # "close" => Moved(w, "loop", LoopRun(w, r), "worker", <<>>)
  /\ UNCHANGED <<canceled, jobVars, history>>

LEMMA UpdateIs ==
  ASSUME DInv, NEW w \in Worker, Update(w)
  PROVE  \E u \in Updates, rest \in Seq(Updates) : Updated(w, RunOf(w), u, rest)
<1>1. PICK r \in Run : r = RunOf(w)
  BY Known DEF Update, At
<1>2. At(w, "write") /\ worker[w].todo \in Seq(Updates) /\ worker[w].todo # <<>>
  BY Known DEF Update
<1>3. PICK u \in Updates, rest \in Seq(Updates) : u = Head(worker[w].todo) /\ rest = Tail(worker[w].todo)
  BY <1>2, HeadTailProperties
<1>4. /\ u.op \in {"begin", "end", "close"} /\ u.step \in Step
      /\ u.op = "end" => u.status \in {"ok", "error", "skipped"} /\ u.result \in {"none", "ok", "error"}
      /\ u.op = "close" => u.status \in {"ok", "error"}
  BY UpdatesTyped
<1>5. /\ UNCHANGED <<canceled, jobVars, history>>
      /\ IF (IF u.op = "begin" THEN BeginMayWrite(r) ELSE Open(r))
           THEN /\ status' = [status EXCEPT ![r] = StatusAfter(r, u)]
                /\ step' = IF u.op = "close" THEN step
                           ELSE [step EXCEPT ![r][u.step] = Written(r, u)]
           ELSE UNCHANGED <<status, step>>
      /\ worker' = [worker EXCEPT ![w] =
                        IF rest # <<>> THEN [@ EXCEPT !.todo = rest]
                        ELSE IF u.op = "close"
                             THEN [Resting EXCEPT !.at = "check", !.run = r]
                        ELSE Looping(w, r)]
  BY <1>1, <1>3 DEF Update
<1>6. /\ ~canceled[r] => /\ status' = [status EXCEPT ![r] = StatusAfter(r, u)]
                         /\ step' = IF u.op = "close" THEN step
                                    ELSE [step EXCEPT ![r][u.step] = Written(r, u)]
      /\ canceled[r] => UNCHANGED <<status, step>>
  BY <1>5, OpenIs DEF BeginMayWrite
<1>7. ASSUME ~canceled[r]
      PROVE  /\ u.op = "begin" => ChangesRun(r, "running")
             /\ u.op = "end" => UNCHANGED status
             /\ u.op = "close" => ChangesRun(r, u.status) /\ u.status \in {"ok", "error"} /\ UNCHANGED step
  <2>1. status \in [Run -> RunStatus] /\ {"running", "ok", "error"} \subseteq RunStatus
    BY Row DEF RunStatus
  <2>2. status' = [status EXCEPT ![r] = StatusAfter(r, u)]
    BY <1>6, <1>7
  <2>3. CASE u.op = "begin"
    <3>1. status' = [status EXCEPT ![r] = "running"]
      BY <2>2, <2>3 DEF StatusAfter
    <3>2. QED BY <2>1, <2>3, <3>1, RunChanges
  <2>4. CASE u.op = "end"
    <3>1. status' = [status EXCEPT ![r] = status[r]]
      BY <2>2, <2>4 DEF StatusAfter
    <3>2. QED BY <2>1, <2>4, <3>1
  <2>5. CASE u.op = "close"
    <3>1. status' = [status EXCEPT ![r] = u.status]
      BY <2>2, <2>5 DEF StatusAfter
    <3>2. u.status \in RunStatus
      BY <1>4, <2>1, <2>5
    <3>3. ChangesRun(r, u.status)
      BY <2>1, <3>1, <3>2, RunChanges
    <3>4. QED BY <1>4, <1>6, <1>7, <2>5, <3>3
  <2>6. QED BY <1>4, <2>3, <2>4, <2>5
<1>8. ASSUME ~canceled[r], u.op # "close"
      PROVE  \E y \in StepRecord :
              /\ Changes(r, u.step, y)
              /\ u.op = "begin" => y = Held(step[r][u.step])
              /\ u.op = "end" =>
                   /\ y.status = u.status /\ u.status \in {"ok", "error", "skipped"}
                   /\ y.timer = "none" /\ y.attempt = step[r][u.step].attempt
                   /\ y.result = IF u.result = "none" THEN step[r][u.step].result ELSE u.result
  <2>1. step' = [step EXCEPT ![r][u.step] = Written(r, u)]
    BY <1>6, <1>8
  <2>2. PICK s \in Step : s = u.step
    BY <1>4
  <2>3. PICK c \in StepRecord : c = step[r][s]
    BY Row
  <2>4. CASE u.op = "begin"
    <3>1. Written(r, u) = Held(c)
      BY <2>2, <2>3, <2>4 DEF Written
    <3>2. PICK y \in StepRecord : y = Held(c)
      BY StepIsHeld
    <3>3. Changes(r, s, y)
      BY <2>1, <2>2, <3>1, <3>2, StepChanges
    <3>4. QED BY <2>2, <2>3, <2>4, <3>2, <3>3
  <2>5. CASE u.op = "end"
    <3>1. PICK st \in {"ok", "error", "skipped"}, res \in {"none", "ok", "error"} :
            st = u.status /\ res = IF u.result = "none" THEN c.result ELSE u.result
      BY <1>4, <2>5 DEF StepRecord
    <3> DEFINE y == [c EXCEPT !.status = st, !.timer = "none", !.result = res]
    <3>2. y \in StepRecord /\ y.status = st /\ y.timer = "none" /\ y.attempt = c.attempt /\ y.result = res
      BY DEF StepRecord, StepStatus
    <3>3. Written(r, u) = y
      BY <2>2, <2>3, <2>5, <3>1 DEF Written, TimerAtEnd, StopTimer, StepRecord
    <3> HIDE DEF y
    <3>4. Changes(r, s, y)
      BY <2>1, <2>2, <3>2, <3>3, StepChanges
    <3>5. QED BY <2>2, <2>3, <2>5, <3>1, <3>2, <3>4
  <2>6. QED BY <1>4, <1>8, <2>4, <2>5
<1>9. rest # <<>> => Moved(w, "write", r, StepOf(w), rest)
  <2>1. SUFFICES ASSUME rest # <<>> PROVE Moved(w, "write", r, StepOf(w), rest)
    OBVIOUS
  <2>2. PICK c \in WorkerRecord : c = worker[w]
    BY Known
  <2> DEFINE d == [c EXCEPT !.todo = rest]
  <2>3. d \in WorkerRecord /\ d.at = c.at /\ d.run = c.run /\ d.step = c.step /\ d.todo = rest
    BY DEF WorkerRecord
  <2>4. worker' = [worker EXCEPT ![w] = d]
    BY <1>5, <2>1, <2>2
  <2> HIDE DEF d
  <2>5. Moved(w, d.at, d.run, d.step, d.todo)
    BY <2>3, <2>4, Known, RecordMoves
  <2>6. QED BY <1>1, <1>2, <2>2, <2>3, <2>5 DEF At, RunOf, StepOf
<1>10. rest = <<>> /\ u.op = "close" => Moved(w, "check", r, "worker", <<>>)
  <2>1. SUFFICES ASSUME rest = <<>>, u.op = "close" PROVE Moved(w, "check", r, "worker", <<>>)
    OBVIOUS
  <2>2. worker' = [worker EXCEPT ![w] = [Resting EXCEPT !.at = "check", !.run = r]]
    BY <1>5, <2>1
  <2>3. "check" \in Stages /\ r \in 0..Runs
    BY Numbers DEF Stages
  <2>4. QED BY <2>2, <2>3, Known, StartMoves
<1>11. rest = <<>> /\ u.op # "close" => Moved(w, "loop", LoopRun(w, r), "worker", <<>>)
  <2>1. SUFFICES ASSUME rest = <<>>, u.op # "close" PROVE Moved(w, "loop", LoopRun(w, r), "worker", <<>>)
    OBVIOUS
  <2>2. worker' = [worker EXCEPT ![w] = Looping(w, RunOf(w))]
    BY <1>1, <1>5, <2>1
  <2>3. QED BY <1>1, <2>2, Known, LoopMoves
<1>12. Updated(w, r, u, rest)
  BY <1>1, <1>2, <1>3, <1>4, <1>5, <1>6, <1>7, <1>8, <1>9, <1>10, <1>11 DEF Updated
<1>13. QED BY <1>1, <1>12

LEMMA SoundTail ==
  ASSUME NEW t \in Seq(Updates), t # <<>>, Sound(t) PROVE Sound(Tail(t)) /\ Resulting(Head(t))
<1>1. /\ Len(t) \in Nat /\ Len(t) >= 1 /\ Head(t) = t[1]
      /\ Len(Tail(t)) = Len(t) - 1 /\ \A i \in 1..Len(Tail(t)) : Tail(t)[i] = t[i + 1]
  <2>1. Len(t) \in Nat /\ Len(t) >= 1 /\ Head(t) = t[1]
    OBVIOUS
  <2>2. QED BY <2>1, HeadTailProperties
<1>2. Resulting(t[1])
  BY <1>1 DEF Sound
<1>3. ASSUME NEW i \in 1..Len(Tail(t)) PROVE Resulting(Tail(t)[i])
  <2>1. i + 1 \in 1..Len(t) /\ Tail(t)[i] = t[i + 1]
    BY <1>1
  <2>2. QED BY <2>1 DEF Sound
<1>4. QED BY <1>1, <1>2, <1>3 DEF Sound

LEMMA UpdateD == ASSUME DInv, NEW w \in Worker, Update(w) PROVE DInv'
<1>1. PICK u \in Updates, rest \in Seq(Updates) : Updated(w, RunOf(w), u, rest)
  BY UpdateIs
<1>2. PICK r \in Run : r = RunOf(w)
  BY <1>1 DEF Updated
<1>3. Updated(w, r, u, rest)
  BY <1>1, <1>2
<1>4. /\ u.op \in {"begin", "end", "close"} /\ u.step \in Step
      /\ UNCHANGED <<canceled, jobVars, history>>
      /\ canceled[r] => UNCHANGED <<status, step>>
  BY <1>3 DEF Updated
<1>5. Resulting(u) /\ Sound(rest)
  BY <1>3, Known, SoundTail DEF Updated
<1>6. QInv' /\ ResultKept
  <2>1. CASE canceled[r]
    <3>1. UNCHANGED queueVars
      BY <1>4, <2>1 DEF queueVars
    <3>2. QED BY <3>1, QueueRests
  <2>2. CASE ~canceled[r] /\ u.op = "close"
    <3>1. ChangesRun(r, u.status) /\ u.status \in {"ok", "error"} /\ UNCHANGED step /\ UNCHANGED canceled
      BY <1>3, <2>2 DEF Updated
    <3>2. /\ status' \in [Run -> RunStatus] /\ canceled' \in [Run -> BOOLEAN]
          /\ step' \in [Run -> [Step -> StepRecord]]
      BY <3>1, Row DEF ChangesRun
    <3>3. \A q \in Run : q # r => Same(q)
      BY <3>1 DEF Same, ChangesRun
    <3>4. Fits(status'[r], canceled'[r], step'[r])
      BY <2>2, <3>1, Row DEF ChangesRun, Fits, Frozen
    <3>5. QED BY <3>1, <3>2, <3>3, <3>4, RowsSound
  <2>3. CASE ~canceled[r] /\ u.op # "close"
    <3>1. PICK s \in Step : s = u.step
      BY <1>4
    <3>2. PICK y \in StepRecord :
            /\ Changes(r, s, y)
            /\ u.op = "begin" => y = Held(step[r][s])
            /\ u.op = "end" =>
                 /\ y.status = u.status /\ u.status \in {"ok", "error", "skipped"}
                 /\ y.timer = "none" /\ y.attempt = step[r][s].attempt
                 /\ y.result = IF u.result = "none" THEN step[r][s].result ELSE u.result
      BY <1>3, <2>3, <3>1 DEF Updated
    <3>3. Timed(y) /\ (step[r][s].result # "none" => y.result # "none")
          /\ (s = "worker" /\ y.status = "ok" => y.result # "none")
      <4>1. CASE u.op = "begin"
        <5>1. y.status = "running" /\ y.timer = "lease" /\ y.result = step[r][s].result
          BY <3>2, <4>1, Row, StepIsHeld
        <5>2. QED BY <5>1 DEF Timed
      <4>2. CASE u.op = "end"
        <5>1. Timed(y)
          BY <3>2, <4>2 DEF Timed
        <5>2. QED BY <1>5, <3>1, <3>2, <4>2, <5>1 DEF Resulting
      <4>3. QED BY <1>4, <2>3, <4>1, <4>2
    <3>4. UNCHANGED status \/ \E st \in RunStatus \ {"canceled"} : ChangesRun(r, st)
      <4>1. UNCHANGED status \/ ChangesRun(r, "running")
        BY <1>3, <1>4, <2>3 DEF Updated
      <4>2. "running" \in RunStatus \ {"canceled"}
        BY DEF RunStatus
      <4>3. QED BY <4>1, <4>2
    <3>5. QED BY <1>4, <2>3, <3>2, <3>3, <3>4, ChangeSound
  <2>4. QED BY <2>1, <2>2, <2>3
<1>7. WInv'
  <2>1. CASE rest # <<>>
    <3>1. Moved(w, "write", r, StepOf(w), rest)
      BY <1>3, <2>1 DEF Updated
    <3>2. QED BY <1>5, <1>6, <2>1, <3>1, MovedSound
  <2>2. CASE rest = <<>> /\ u.op = "close"
    <3>1. Moved(w, "check", r, "worker", <<>>)
      BY <1>3, <2>2 DEF Updated
    <3>2. QED BY <1>6, <3>1, NothingToWrite, MovedSound
  <2>3. CASE rest = <<>> /\ u.op # "close"
    <3>1. Moved(w, "loop", LoopRun(w, r), "worker", <<>>)
      BY <1>3, <2>3 DEF Updated
    <3>2. w \notin Outside => LoopRun(w, r) \in Run
      BY DEF LoopRun
    <3>3. QED BY <1>6, <3>1, <3>2, NothingToWrite, MovedSound
  <2>4. QED BY <2>1, <2>2, <2>3
<1>8. JTyped'
  BY <1>4, JobRests DEF history, Recording
<1>9. QED BY <1>6, <1>7, <1>8 DEF DInv

LEMMA EndStepsSound ==
  ASSUME DInv, NEW r \in Run, NEW st \in {"canceled", "recovered"}
  PROVE  LET z == EndSteps(r, st)
         IN /\ z \in [Step -> StepRecord] /\ (\A s \in Step : Timed(z[s])) /\ Reported(z)
            /\ \A s \in Step : /\ z[s].status \notin {"queued", "running"}
                             /\ z[s].attempt = step[r][s].attempt
            /\ z["worker"].result = step[r]["worker"].result
<1> DEFINE z == EndSteps(r, st)
<1>1. ASSUME NEW s \in Step
      PROVE  /\ z[s] \in StepRecord /\ Timed(z[s]) /\ z[s].result = step[r][s].result
             /\ z[s].status \notin {"queued", "running"}
             /\ z[s].status = "ok" => step[r][s].status = "ok"
             /\ z[s].attempt = step[r][s].attempt
  <2>1. PICK d \in StepRecord : d = step[r][s] /\ Timed(d)
    BY Row
  <2>2. CASE d.status \in {"queued", "running"}
    <3> DEFINE y == [d EXCEPT !.status = st, !.timer = "none"]
    <3>1. /\ y \in StepRecord /\ y.status = st /\ y.timer = "none" /\ y.result = d.result
          /\ y.attempt = d.attempt
      BY DEF StepRecord, StepStatus
    <3>2. z[s] = y
      BY <2>1, <2>2 DEF EndSteps
    <3> HIDE DEF y, z
    <3>3. Timed(y)
      BY <3>1 DEF Timed
    <3>4. QED BY <2>1, <3>1, <3>2, <3>3
  <2>3. CASE d.status \notin {"queued", "running"}
    <3>1. z[s] = d
      BY <2>1, <2>3 DEF EndSteps
    <3>2. QED BY <2>1, <2>3, <3>1
  <2>4. QED BY <2>2, <2>3
<1>2. z \in [Step -> StepRecord]
  BY <1>1 DEF EndSteps
<1> HIDE DEF z
<1>3. Reported(z)
  BY <1>1, Row DEF Reported, Fits
<1>4. /\ \A s \in Step : /\ Timed(z[s]) /\ z[s].status \notin {"queued", "running"}
                         /\ z[s].attempt = step[r][s].attempt
      /\ z["worker"].result = step[r]["worker"].result
  BY <1>1, Row
<1>5. QED BY <1>2, <1>3, <1>4 DEF z

LEMMA CancelD ==
  ASSUME DInv, NEW c \in Callers, NEW r \in Run, Cancel(c, r) PROVE DInv'
<1>1. c \in Worker
  BY DEF Worker
<1>2. /\ status' = [status EXCEPT ![r] = "canceled"] /\ canceled' = [canceled EXCEPT ![r] = TRUE]
      /\ step' = [step EXCEPT ![r] = EndSteps(r, "canceled")]
      /\ worker' = [worker EXCEPT ![c] = [Resting EXCEPT !.at = "discard", !.run = r]]
      /\ Record("cancel") /\ UNCHANGED <<jobVars, sends, doubt>>
  BY DEF Cancel
<1> DEFINE z == EndSteps(r, "canceled")
<1>3. /\ z \in [Step -> StepRecord] /\ (\A s \in Step : Timed(z[s])) /\ Reported(z)
      /\ \A s \in Step : z[s].status \notin {"queued", "running"}
      /\ z["worker"].result = step[r]["worker"].result
  BY EndStepsSound
<1>4. /\ status' \in [Run -> RunStatus] /\ canceled' \in [Run -> BOOLEAN]
      /\ step' \in [Run -> [Step -> StepRecord]]
      /\ status'[r] = "canceled" /\ canceled'[r] = TRUE /\ step'[r] = z
      /\ \A q \in Run : q # r => Same(q)
  <2>1. "canceled" \in RunStatus
    BY DEF RunStatus
  <2>2. step' = [step EXCEPT ![r] = z]
    BY <1>2 DEF z
  <2>3. /\ status \in [Run -> RunStatus] /\ canceled \in [Run -> BOOLEAN]
        /\ step \in [Run -> [Step -> StepRecord]]
    BY Row
  <2>4. /\ status' \in [Run -> RunStatus] /\ canceled' \in [Run -> BOOLEAN]
        /\ step' \in [Run -> [Step -> StepRecord]]
    BY <1>2, <1>3, <2>1, <2>2, <2>3
  <2>5. status'[r] = "canceled" /\ canceled'[r] = TRUE /\ step'[r] = z
    BY <1>2, <2>2, <2>3
  <2>6. \A q \in Run : q # r => Same(q)
    BY <1>2, <2>2, <2>3 DEF Same
  <2>7. QED BY <2>4, <2>5, <2>6
<1>5. Fits(status'[r], canceled'[r], step'[r])
  <2>1. Frozen(status'[r], canceled'[r], z)
    BY <1>3, <1>4 DEF Frozen
  <2>2. QED BY <1>3, <1>4, <2>1 DEF Fits
<1>6. \A q \in Run : step[q]["worker"].result # "none" => step'[q]["worker"].result # "none"
  BY <1>3, <1>4, Row DEF Same
<1>7. QInv' /\ ResultKept
  BY <1>4, <1>5, <1>6, RowsSound
<1>8. Moved(c, "discard", r, "worker", <<>>)
  <2>1. "discard" \in Stages /\ r \in 0..Runs
    BY Numbers DEF Stages
  <2>2. QED BY <1>1, <1>2, <2>1, Known, StartMoves
<1>9. WInv'
  BY <1>1, <1>7, <1>8, NothingToWrite, MovedSound
<1>10. JTyped'
  <2>1. Recording
    BY <1>2 DEF Recording, Incidents
  <2>2. QED BY <1>2, <2>1, JobRests DEF jobVars
<1>11. QED BY <1>7, <1>9, <1>10 DEF DInv

LEMMA RetryRunD == ASSUME DInv, NEW c \in Callers, RetryRun(c) PROVE DInv'
<1>1. c \in Worker /\ At(c, "retry")
  BY DEF Worker, RetryRun
<1>2. PICK r \in Run : r = RunOf(c)
  BY <1>1, Known DEF At
<1>3. JTyped'
  BY JobRests DEF RetryRun, history, Recording
<1>4. CASE RetryIsRefused(r)
  <2>1. Rest(c) /\ UNCHANGED queueVars
    BY <1>2, <1>4 DEF RetryRun
  <2>2. QED BY <1>1, <1>3, <2>1, RestD
<1>5. CASE ~RetryIsRefused(r)
  <2> DEFINE z == [s \in Step |-> Reset(step[r][s], s)]
  <2>1. /\ status' = [status EXCEPT ![r] = "queued"] /\ canceled' = [canceled EXCEPT ![r] = FALSE]
        /\ step' = [step EXCEPT ![r] = z] /\ Go(c, "mark")
    BY <1>2, <1>5 DEF RetryRun
  <2>2. ASSUME NEW s \in Step
        PROVE  /\ z[s] \in StepRecord /\ Timed(z[s]) /\ z[s].status = "queued"
               /\ s = "worker" => z[s].result = step[r][s].result
    <3>1. PICK d \in StepRecord : d = step[r][s]
      BY Row
    <3>2. PICK res \in {"none", "ok", "error"} : res = IF s = "worker" THEN d.result ELSE "none"
      BY DEF StepRecord
    <3> DEFINE y == [NewStep EXCEPT !.result = res]
    <3>3. y \in StepRecord /\ y.status = "queued" /\ y.timer = "none" /\ y.result = res
      BY NewStepTyped
    <3>4. z[s] = y
      BY <3>1, <3>2 DEF Reset
    <3> HIDE DEF y, z
    <3>5. Timed(y)
      BY <3>3 DEF Timed
    <3>6. QED BY <3>1, <3>2, <3>3, <3>4, <3>5
  <2>3. z \in [Step -> StepRecord]
    BY <2>2
  <2> HIDE DEF z
  <2>4. /\ status' \in [Run -> RunStatus] /\ canceled' \in [Run -> BOOLEAN]
        /\ step' \in [Run -> [Step -> StepRecord]]
        /\ status'[r] = "queued" /\ canceled'[r] = FALSE /\ step'[r] = z
        /\ \A q \in Run : q # r => Same(q)
    <3>1. "queued" \in RunStatus
      BY DEF RunStatus
    <3>2. /\ status \in [Run -> RunStatus] /\ canceled \in [Run -> BOOLEAN]
          /\ step \in [Run -> [Step -> StepRecord]]
      BY Row
    <3>3. /\ status' \in [Run -> RunStatus] /\ canceled' \in [Run -> BOOLEAN]
          /\ step' \in [Run -> [Step -> StepRecord]]
      BY <2>1, <2>3, <3>1, <3>2
    <3>4. status'[r] = "queued" /\ canceled'[r] = FALSE /\ step'[r] = z
      BY <2>1, <3>2
    <3>5. \A q \in Run : q # r => Same(q)
      BY <2>1, <3>2 DEF Same
    <3>6. QED BY <3>3, <3>4, <3>5
  <2>5. Fits(status'[r], canceled'[r], step'[r])
    <3>1. Reported(z) /\ \A s \in Step : Timed(z[s])
      BY <2>2, Row DEF Reported
    <3>2. Frozen(status'[r], canceled'[r], z)
      BY <2>4 DEF Frozen
    <3>3. QED BY <2>4, <3>1, <3>2 DEF Fits
  <2>6. \A q \in Run : step[q]["worker"].result # "none" => step'[q]["worker"].result # "none"
    BY <2>2, <2>4, Row DEF Same
  <2>7. QInv' /\ ResultKept
    BY <2>4, <2>5, <2>6, RowsSound
  <2>8. Moved(c, "mark", RunOf(c), StepOf(c), worker[c].todo)
    BY <1>1, <2>1, Known, GoMoves DEF Stages
  <2>9. WInv'
    BY <1>1, <1>2, <2>7, <2>8, Known, MovedSound
  <2>10. QED BY <1>3, <2>7, <2>9 DEF DInv
<1>6. QED BY <1>4, <1>5

\* Steps whose expired lease is cleared.
ClearedStep(r, s) ==
  IF s \in Cleared(r) THEN [step[r][s] EXCEPT !.status = "queued", !.timer = "none"] ELSE step[r][s]

LEMMA ClearSound ==
  ASSUME DInv, NEW r \in Run, NEW s \in Step
  PROVE  LET y == ClearedStep(r, s)
         IN /\ y \in StepRecord /\ Timed(y) /\ y.result = step[r][s].result
            /\ y.status = "ok" => step[r][s].status = "ok"
            /\ EasedStep(step[r][s], y)
<1>1. PICK c \in StepRecord : c = step[r][s] /\ Timed(c)
  BY Row
<1>2. CASE s \in Cleared(r)
  <2> DEFINE y == [c EXCEPT !.status = "queued", !.timer = "none"]
  <2>1. /\ y \in StepRecord /\ y.status = "queued" /\ y.timer = "none" /\ y.result = c.result
        /\ y.attempt = c.attempt
    BY DEF StepRecord, StepStatus
  <2>2. ClearedStep(r, s) = y
    BY <1>1, <1>2 DEF ClearedStep
  <2> HIDE DEF y
  <2>3. Timed(y)
    BY <2>1 DEF Timed
  <2>4. c.timer = "expired"
    BY <1>1, <1>2 DEF Cleared, IsExpired
  <2>5. QED BY <1>1, <2>1, <2>2, <2>3, <2>4 DEF EasedStep
<1>3. CASE s \notin Cleared(r)
  BY <1>1, <1>3 DEF ClearedStep, EasedStep
<1>4. QED BY <1>2, <1>3

LEMMA ClearStaleD ==
  ASSUME DInv, NEW c \in Callers, NEW r \in Run, ClearStale(c, r) PROVE DInv'
<1>1. c \in Worker /\ ~canceled[r]
  BY CanceledIsNotStale DEF Worker, ClearStale
<1> DEFINE z == [s \in Step |-> ClearedStep(r, s)]
<1>2. /\ status' = [status EXCEPT ![r] = "queued"] /\ UNCHANGED <<canceled, jobVars, sends, doubt>>
      /\ worker' = [worker EXCEPT ![c] = [Resting EXCEPT !.at = "mark", !.run = r]]
      /\ step' = [step EXCEPT ![r] = z] /\ Record("clear")
  BY DEF ClearStale, ClearedStep
<1>3. /\ z \in [Step -> StepRecord] /\ (\A s \in Step : Timed(z[s])) /\ Reported(z)
      /\ z["worker"].result = step[r]["worker"].result
  <2>1. ASSUME NEW s \in Step
        PROVE  /\ z[s] \in StepRecord /\ Timed(z[s]) /\ z[s].result = step[r][s].result
               /\ z[s].status = "ok" => step[r][s].status = "ok"
    <3>1. z[s] = ClearedStep(r, s)
      OBVIOUS
    <3> HIDE DEF z
    <3>2. QED BY <3>1, ClearSound
  <2>2. z \in [Step -> StepRecord]
    BY <2>1
  <2> HIDE DEF z
  <2>3. Reported(z)
    BY <2>1, Row DEF Reported, Fits
  <2>4. QED BY <2>1, <2>2, <2>3, Row
<1> HIDE DEF z
<1>4. /\ status' \in [Run -> RunStatus] /\ canceled' \in [Run -> BOOLEAN]
      /\ step' \in [Run -> [Step -> StepRecord]]
      /\ status'[r] = "queued" /\ canceled'[r] = canceled[r] /\ step'[r] = z
      /\ \A q \in Run : q # r => Same(q)
  <2>1. "queued" \in RunStatus
    BY DEF RunStatus
  <2>2. /\ status \in [Run -> RunStatus] /\ canceled \in [Run -> BOOLEAN]
        /\ step \in [Run -> [Step -> StepRecord]]
    BY Row
  <2>3. /\ status' \in [Run -> RunStatus] /\ canceled' \in [Run -> BOOLEAN]
        /\ step' \in [Run -> [Step -> StepRecord]]
    BY <1>2, <1>3, <2>1, <2>2
  <2>4. status'[r] = "queued" /\ canceled'[r] = canceled[r] /\ step'[r] = z
    BY <1>2, <2>2
  <2>5. \A q \in Run : q # r => Same(q)
    BY <1>2, <2>2 DEF Same
  <2>6. QED BY <2>3, <2>4, <2>5
<1>5. Fits(status'[r], canceled'[r], step'[r])
  <2>1. Frozen(status'[r], canceled'[r], z)
    BY <1>1, <1>4 DEF Frozen
  <2>2. QED BY <1>3, <1>4, <2>1 DEF Fits
<1>6. \A q \in Run : step[q]["worker"].result # "none" => step'[q]["worker"].result # "none"
  BY <1>3, <1>4 DEF Same
<1>7. QInv' /\ ResultKept
  BY <1>4, <1>5, <1>6, RowsSound
<1>8. Moved(c, "mark", r, "worker", <<>>)
  <2>1. "mark" \in Stages /\ r \in 0..Runs
    BY Numbers DEF Stages
  <2>2. QED BY <1>1, <1>2, <2>1, Known, StartMoves
<1>9. WInv'
  BY <1>1, <1>7, <1>8, NothingToWrite, MovedSound
<1>10. JTyped'
  <2>1. Recording
    BY <1>2 DEF Recording, Incidents
  <2>2. QED BY <1>2, <2>1, JobRests DEF jobVars
<1>11. QED BY <1>7, <1>9, <1>10 DEF DInv

LEMMA LeaseExpiryIs ==
  ASSUME DInv, NEW r \in Run, NEW s \in Step, StepLeaseExpires(r, s)
  PROVE  /\ ~canceled[r] /\ step[r][s].status = "running" /\ step[r][s].timer = "lease"
         /\ \E y \in StepRecord :
              /\ Changes(r, s, y) /\ y.timer = "expired" /\ y.status = "running"
              /\ y.attempt = step[r][s].attempt /\ y.result = step[r][s].result
<1>1. step[r][s].status = "running" /\ step[r][s].timer = "lease"
      /\ step' = [step EXCEPT ![r][s].timer = "expired"]
  BY DEF StepLeaseExpires
<1>2. PICK c \in StepRecord : c = step[r][s]
  BY Row
<1> DEFINE y == [c EXCEPT !.timer = "expired"]
<1>3. /\ y \in StepRecord /\ y.timer = "expired" /\ y.status = c.status
      /\ y.attempt = c.attempt /\ y.result = c.result
  BY DEF StepRecord
<1>4. step' = [step EXCEPT ![r][s] = y]
  BY <1>1, <1>2
<1> HIDE DEF y
<1>5. Changes(r, s, y)
  BY <1>3, <1>4, StepChanges
<1>6. ~canceled[r]
  BY <1>1, CanceledIsNotStale
<1>7. QED BY <1>1, <1>2, <1>3, <1>5, <1>6

LEMMA LeaseExpiryD ==
  ASSUME DInv, NEW r \in Run, NEW s \in Step, StepLeaseExpires(r, s) PROVE DInv'
<1>1. UNCHANGED <<status, canceled, jobVars, worker, sends, doubt>> /\ Recording
  BY DEF StepLeaseExpires, Recording, Incidents
<1>2. ~canceled[r]
  BY LeaseExpiryIs
<1>3. PICK y \in StepRecord :
        /\ Changes(r, s, y) /\ y.timer = "expired" /\ y.status = "running"
        /\ y.attempt = step[r][s].attempt /\ y.result = step[r][s].result
  BY LeaseExpiryIs
<1>4. Timed(y)
  BY <1>3 DEF Timed
<1>5. QInv' /\ ResultKept
  BY <1>1, <1>2, <1>3, <1>4, ChangeSound
<1>6. WInv'
  BY <1>1, <1>5, NoneMoved
<1>7. JTyped'
  BY <1>1, JobRests DEF jobVars
<1>8. QED BY <1>5, <1>6, <1>7 DEF DInv

LEMMA DelayIs ==
  ASSUME DInv, NEW r \in Run, NEW s \in Step, RetryDelayPasses(r, s)
  PROVE  /\ ~canceled[r] /\ step[r][s].status = "queued" /\ step[r][s].timer = "delay"
         /\ \E y \in StepRecord :
              /\ Changes(r, s, y) /\ y.timer = "none" /\ y.status = "queued"
              /\ y.attempt = step[r][s].attempt /\ y.result = step[r][s].result
<1>1. step[r][s].timer = "delay" /\ step' = [step EXCEPT ![r][s].timer = "none"]
  BY DEF RetryDelayPasses
<1>2. PICK c \in StepRecord : c = step[r][s] /\ Timed(c)
  BY Row
<1>3. c.status = "queued"
  BY <1>1, <1>2 DEF Timed
<1> DEFINE y == [c EXCEPT !.timer = "none"]
<1>4. /\ y \in StepRecord /\ y.timer = "none" /\ y.status = c.status
      /\ y.attempt = c.attempt /\ y.result = c.result
  BY DEF StepRecord
<1>5. step' = [step EXCEPT ![r][s] = y]
  BY <1>1, <1>2
<1> HIDE DEF y
<1>6. Changes(r, s, y)
  BY <1>4, <1>5, StepChanges
<1>7. ~canceled[r]
  BY <1>1, CanceledIsNotStale
<1>8. QED BY <1>1, <1>2, <1>3, <1>4, <1>6, <1>7

LEMMA DelayD ==
  ASSUME DInv, NEW r \in Run, NEW s \in Step, RetryDelayPasses(r, s) PROVE DInv'
<1>1. UNCHANGED <<status, canceled, jobVars, worker, history>>
  BY DEF RetryDelayPasses
<1>2. ~canceled[r]
  BY DelayIs
<1>3. PICK y \in StepRecord :
        /\ Changes(r, s, y) /\ y.timer = "none" /\ y.status = "queued"
        /\ y.attempt = step[r][s].attempt /\ y.result = step[r][s].result
  BY DelayIs
<1>4. Timed(y)
  BY <1>3 DEF Timed
<1>5. QInv' /\ ResultKept
  BY <1>1, <1>2, <1>3, <1>4, ChangeSound
<1>6. WInv'
  BY <1>1, <1>5, NoneMoved
<1>7. JTyped'
  BY <1>1, JobRests DEF history, Recording
<1>8. QED BY <1>5, <1>6, <1>7 DEF DInv

LEMMA RestartSound ==
  ASSUME DInv, GatewayRestarts
  PROVE  /\ QInv' /\ ResultKept
         /\ \A r \in Run : IF IsRecovered(r)
                           THEN /\ status'[r] = "recovered" /\ canceled'[r] = canceled[r]
                                /\ step'[r] = EndSteps(r, "recovered")
                           ELSE Same(r)
<1>1. \A r \in Run : IF IsRecovered(r)
                     THEN /\ status'[r] = "recovered" /\ canceled'[r] = canceled[r]
                          /\ step'[r] = EndSteps(r, "recovered")
                     ELSE Same(r)
  BY DEF GatewayRestarts, Same
<1>2. ASSUME NEW r \in Run, IsRecovered(r)
      PROVE  /\ step'[r] \in [Step -> StepRecord] /\ Fits(status'[r], canceled'[r], step'[r])
             /\ step'[r]["worker"].result = step[r]["worker"].result
  <2> DEFINE z == EndSteps(r, "recovered")
  <2>1. /\ z \in [Step -> StepRecord] /\ (\A s \in Step : Timed(z[s])) /\ Reported(z)
        /\ \A s \in Step : z[s].status \notin {"queued", "running"}
        /\ z["worker"].result = step[r]["worker"].result
    BY EndStepsSound
  <2>2. step'[r] = z /\ status'[r] = "recovered"
    BY <1>1, <1>2
  <2> HIDE DEF z
  <2>3. Frozen(status'[r], canceled'[r], z)
    BY <2>1, <2>2 DEF Frozen
  <2>4. QED BY <2>1, <2>2, <2>3 DEF Fits
<1>3. status' \in [Run -> RunStatus] /\ canceled' \in [Run -> BOOLEAN]
  <2>1. \A r \in Run : status'[r] \in RunStatus
    BY <1>1, Row DEF Same, RunStatus
  <2>2. QED BY <2>1 DEF GatewayRestarts, DInv, QInv
<1>4. step' \in [Run -> [Step -> StepRecord]]
  <2>1. \A r \in Run : step'[r] \in [Step -> StepRecord]
    BY <1>1, <1>2, Row DEF Same
  <2>2. QED BY <2>1 DEF GatewayRestarts
<1>5. \A q \in Run : Same(q) \/ Fits(status'[q], canceled'[q], step'[q])
  BY <1>1, <1>2
<1>6. \A q \in Run : step[q]["worker"].result # "none" => step'[q]["worker"].result # "none"
  BY <1>1, <1>2 DEF Same
<1>7. QInv' /\ ResultKept
  BY <1>3, <1>4, <1>5, <1>6, RowsSound
<1>8. QED BY <1>1, <1>7

LEMMA RestingRecord ==
  Resting \in WorkerRecord /\ Resting.at = "rest" /\ Resting.todo = <<>> /\ Resting.run = 0
BY Numbers DEF Resting, WorkerRecord, Stages, Leased

LEMMA RestartD == ASSUME DInv, GatewayRestarts PROVE DInv'
<1>1. QInv' /\ ResultKept
  BY RestartSound
<1>2. worker' = [w \in Worker |-> IF w \in Gateway THEN Resting ELSE worker[w]]
      /\ LetGo /\ UNCHANGED <<job, sends>> /\ Recording /\ Doubt(Gateway)
  BY DEF GatewayRestarts, Recording, Incidents
<1>3. WInv'
  <2>1. worker' \in [Worker -> WorkerRecord]
    BY <1>2, RestingRecord, Known
  <2>2. ASSUME NEW w \in Worker PROVE Serving(w)'
    <3>1. CASE w \in Gateway
      <4>1. worker'[w].at = "rest" /\ worker'[w].todo = <<>>
        BY <1>2, <3>1, RestingRecord
      <4>2. Sound(worker'[w].todo)
        BY <4>1, NothingToWrite
      <4>3. QED BY <4>1, <4>2 DEF Serving, At, Sound, Resulting
    <3>2. CASE w \notin Gateway
      <4>1. worker'[w] = worker[w]
        BY <1>2, <3>2
      <4>2. QED BY <1>1, <4>1, ServingKept DEF DInv, WInv
    <3>3. QED BY <3>1, <3>2
  <2>3. QED BY <2>1, <2>2 DEF WInv
<1>4. JTyped'
  <2>1. JobSound' /\ sends' \in [Run -> Nat] /\ doubt' \in BOOLEAN
    BY <1>2, JobIsLetGo DEF DInv, JTyped, Doubt
  <2>2. QED BY <1>2, <2>1, StillTyped
<1>5. QED BY <1>1, <1>3, <1>4 DEF DInv

LEMMA InitD == ASSUME Init PROVE DInv
<1>1. NewStep \in StepRecord /\ NewStep.status = "queued" /\ NewStep.timer = "none"
      /\ NewStep.attempt = 0 /\ NewStep.result = "none"
  BY Numbers DEF NewStep, StepRecord, StepStatus
<1>2. /\ status = [r \in Run |-> "none"] /\ canceled = [r \in Run |-> FALSE]
      /\ step = [r \in Run |-> [s \in Step |-> NewStep]]
      /\ job = "enabled" /\ active = 0 /\ cached = 0 /\ overdue = FALSE
      /\ worker = [w \in Worker |-> Resting] /\ sends = [r \in Run |-> 0] /\ doubt = FALSE
      /\ incidents = [i \in Incidents |-> 0]
  BY DEF Init
<1>3. Timed(NewStep)
  BY <1>1 DEF Timed
<1>4. QInv
  <2>1. "none" \in RunStatus /\ "worker" \in Step
    BY DEF RunStatus, Step, Leased
  <2>2. status \in [Run -> RunStatus] /\ canceled \in [Run -> BOOLEAN]
        /\ step \in [Run -> [Step -> StepRecord]]
    BY <1>1, <1>2, <2>1
  <2>3. ASSUME NEW r \in Run PROVE Fits(status[r], canceled[r], step[r])
    <3>1. status[r] = "none" /\ canceled[r] = FALSE /\ \A s \in Step : step[r][s] = NewStep
      BY <1>2
    <3>2. Reported(step[r])
      BY <1>1, <2>1, <3>1 DEF Reported
    <3>3. Frozen(status[r], canceled[r], step[r])
      BY <3>1 DEF Frozen
    <3>4. QED BY <1>3, <3>1, <3>2, <3>3 DEF Fits
  <2>4. QED BY <2>2, <2>3 DEF QInv
<1>5. WInv
  <2>1. worker \in [Worker -> WorkerRecord]
    BY <1>2, RestingRecord
  <2>2. ASSUME NEW w \in Worker PROVE Serving(w)
    <3>1. worker[w].at = "rest" /\ worker[w].todo = <<>>
      BY <1>2, RestingRecord
    <3>2. QED BY <3>1, NothingToWrite DEF Serving, At
  <2>3. QED BY <2>1, <2>2 DEF WInv
<1>6. JTyped
  <2>1. JobSound
    BY <1>2, Numbers DEF JobSound
  <2>2. sends \in [Run -> Nat] /\ incidents \in [Incidents -> Nat]
    BY <1>2
  <2>3. doubt \in BOOLEAN
    BY <1>2
  <2>4. QED BY <2>1, <2>2, <2>3 DEF JTyped
<1>7. QED BY <1>4, <1>5, <1>6 DEF DInv

LEMMA StutterD == ASSUME DInv, UNCHANGED vars PROVE DInv'
<1>1. UNCHANGED queueVars /\ UNCHANGED worker /\ UNCHANGED <<jobVars, sends, doubt>> /\ Recording
  BY DEF vars, history, Recording
<1>2. QED BY <1>1, JobRests, OnlyJobD

\* The steps of the system, by what they do.
LEMMA Steps ==
  ASSUME [Next]_vars
  PROVE  \/ UNCHANGED vars
         \/ \E w \in Worker : Proceed(w)
         \/ \E w \in Worker : /\ Reserve(w) /\ w \in Gateway
                            /\ worker[w].at \in {"rest", "due"} /\ 0 \in {active, cached}
         \/ \E c \in Callers : RetryRun(c) \/ Mark(c) \/ Discard(c)
         \/ \E c \in Callers, r \in Run : Cancel(c, r) \/ AskRetry(c, r) \/ ClearStale(c, r)
         \/ Tick \/ \E w \in Outside : Poll(w)
         \/ TickMaintains \/ ReadMaintains \/ OperatorChangesJob
         \/ \E w \in Outside : OutsideDies(w)
         \/ \E r \in Run, s \in Step : StepLeaseExpires(r, s) \/ RetryDelayPasses(r, s)
         \/ JobLeaseExpires \/ GatewayRestarts
<1>1. CASE UNCHANGED vars
  BY <1>1
<1>2. CASE \E w \in Gateway : Advance(w)
  <2>1. PICK w \in Gateway : Advance(w)
    BY <1>2
  <2>2. CASE Proceed(w)
    BY <2>2 DEF Gateway, Worker
  <2>3. CASE w \in Callers /\ ProceedCall(w)
    BY <2>3 DEF ProceedCall
  <2>4. CASE w = Timer /\ ProceedTick
    BY <2>4 DEF ProceedTick, TickReserves, Gateway, Worker, At
  <2>5. QED BY <2>1, <2>2, <2>3, <2>4 DEF Advance
<1>3. CASE \E c \in Callers : Call(c)
  <2>1. PICK c \in Callers : Call(c)
    BY <1>3
  <2>2. CASE RunNow(c)
    BY <2>2 DEF RunNow, Gateway, Worker, At
  <2>3. CASE \E r \in Run : Cancel(c, r) \/ AskRetry(c, r) \/ ClearStale(c, r)
    BY <2>3
  <2>4. QED BY <2>1, <2>2, <2>3 DEF Call
<1>4. CASE \E w \in Outside : Poll(w) \/ Proceed(w) \/ OutsideDies(w)
  BY <1>4 DEF Worker
<1>5. CASE ReadMaintains \/ OperatorChangesJob \/ GatewayRestarts
  BY <1>5
<1>6. CASE TimePasses
  BY <1>6 DEF TimePasses, LeasesExpire, DelaysPass
<1>7. QED BY <1>1, <1>2, <1>3, <1>4, <1>5, <1>6 DEF Next

LEMMA ProceedD == ASSUME DInv, NEW w \in Worker, Proceed(w) PROVE DInv'
<1>1. CASE Lease(w) \/ LeaseNothing(w) \/ Prepare(w) \/ Synthesize(w)
  BY <1>1, LeaseD, LeaseNothingD, PrepareD, SynthesizeD
<1>2. CASE (\E res \in {"ok", "error"} : AgentReturns(w, res)) \/ AgentThrows(w) \/ AgentIsAborted(w)
  BY <1>2, AgentD
<1>3. CASE SkipDelivery(w) \/ Deliver(w) \/ DeliveryIsBlocked(w)
  BY <1>3, DeliveryD
<1>4. CASE \E out \in {0, 1} : DeliveryFails(w, out)
  BY <1>4, DeliveryFailsD
<1>5. CASE RetryStep(w) \/ Update(w) \/ CheckCanceled(w) \/ ApplyOutcome(w)
  BY <1>5, RetryStepD, UpdateD, CheckD, LetGoD
<1>6. QED BY <1>1, <1>2, <1>3, <1>4, <1>5 DEF Proceed

LEMMA NextD == ASSUME DInv, [Next]_vars PROVE DInv'
<1>1. CASE UNCHANGED vars
  BY <1>1, StutterD
<1>2. CASE \E w \in Worker : Proceed(w)
  BY <1>2, ProceedD
<1>3. CASE \E w \in Worker : Reserve(w)
  BY <1>3, ReserveD
<1>4. CASE \E c \in Callers : RetryRun(c) \/ Mark(c) \/ Discard(c)
  BY <1>4, RetryRunD, MarkD, LetGoD DEF Worker
<1>5. CASE \E c \in Callers, r \in Run : Cancel(c, r) \/ AskRetry(c, r) \/ ClearStale(c, r)
  BY <1>5, CancelD, AskRetryD, ClearStaleD
<1>6. CASE Tick \/ \E w \in Outside : Poll(w)
  BY <1>6, RecoverD DEF Tick, Poll, Worker
<1>7. CASE TickMaintains \/ ReadMaintains \/ OperatorChangesJob
  BY <1>7, MaintainsD, OperatorD
<1>8. CASE \E w \in Outside : OutsideDies(w)
  BY <1>8, OutsideDiesD
<1>9. CASE \E r \in Run, s \in Step : StepLeaseExpires(r, s) \/ RetryDelayPasses(r, s)
  BY <1>9, LeaseExpiryD, DelayD
<1>10. CASE JobLeaseExpires \/ GatewayRestarts
  BY <1>10, JobLeaseD, RestartD
<1>11. QED BY <1>1, <1>2, <1>3, <1>4, <1>5, <1>6, <1>7, <1>8, <1>9, <1>10, Steps

THEOREM QueueInvariant == Spec => []DInv
<1>1. Init => DInv
  BY InitD
<1>2. DInv /\ [Next]_vars => DInv'
  BY NextD
<1>3. QED BY <1>1, <1>2, PTL DEF Spec

\* Whatever the number of runs, workers, calls, attempts and incidents, the queue, the
\* job and the workers have their types, a lease is timed exactly while its step runs,
\* and what a worker has still to write is an update the code knows.
THEOREM TypesHold == Spec => []TypeOK
<1>1. ASSUME DInv PROVE TypeOK
  <2>1. status \in [Run -> RunStatus] /\ canceled \in [Run -> BOOLEAN]
        /\ step \in [Run -> [Step -> StepRecord]]
    BY <1>1 DEF DInv, QInv
  <2>2. \A r \in Run, s \in Step : step[r][s].status = "running" <=> step[r][s].timer \in {"lease", "expired"}
    BY <1>1, Row DEF Timed
  <2>3. worker \in [Worker -> [at: Stages, run: 0..Runs, step: Leased, todo: Seq(Updates)]]
    BY <1>1 DEF DInv, WInv, WorkerRecord
  <2>4. JTyped
    BY <1>1 DEF DInv
  <2>5. QED BY <2>1, <2>2, <2>3, <2>4 DEF TypeOK, JTyped, JobSound
<1>2. DInv => TypeOK
  BY <1>1
<1>3. QED BY <1>2, QueueInvariant, PTL

\* A run that is canceled and stays so is left as it is.
StaysFrozen(r) == canceled[r] /\ canceled'[r] => step'[r] = step[r]

LEMMA FrozenEnds ==
  ASSUME DInv, NEW r \in Run, canceled[r], NEW st PROVE EndSteps(r, st) = step[r]
<1>1. step[r] \in [Step -> StepRecord] /\ \A s \in Step : step[r][s].status \notin {"queued", "running"}
  BY Row DEF Fits, Frozen
<1>2. EndSteps(r, st) = [s \in Step |-> step[r][s]]
  BY <1>1 DEF EndSteps
<1>3. QED BY <1>1, <1>2

LEMMA FrozenByWorkers ==
  ASSUME DInv, NEW w \in Worker, Proceed(w), NEW r \in Run PROVE StaysFrozen(r)
<1>1. CASE Lease(w)
  <2>1. PICK q \in Run, s \in Leased : Leases(w, q, s)
    BY <1>1, LeaseIs
  <2>2. QED BY <2>1 DEF Leases, StaysFrozen
<1>2. CASE RetryStep(w)
  <2>1. PICK q, s : q = RunOf(w) /\ s = StepOf(w)
    OBVIOUS
  <2>2. PICK again \in BOOLEAN : RetriesStep(w, q, s, again)
    BY <1>2, <2>1, RetryStepIs
  <2>3. CASE canceled[q]
    BY <2>2, <2>3 DEF RetriesStep, StaysFrozen
  <2>4. CASE ~canceled[q]
    BY <2>2, <2>4 DEF RetriesStep, StaysFrozen, Changes
  <2>5. QED BY <2>3, <2>4
<1>3. CASE Update(w)
  <2>1. PICK q : q = RunOf(w)
    OBVIOUS
  <2>2. PICK u \in Updates, rest \in Seq(Updates) : Updated(w, q, u, rest)
    BY <1>3, <2>1, UpdateIs
  <2>3. CASE canceled[q]
    BY <2>2, <2>3 DEF Updated, StaysFrozen
  <2>4. CASE ~canceled[q]
    <3>1. UNCHANGED step \/ \E y \in StepRecord : Changes(q, u.step, y)
      BY <2>2, <2>4 DEF Updated
    <3>2. QED BY <2>4, <3>1 DEF StaysFrozen, Changes
  <2>5. QED BY <2>3, <2>4
<1>4. CASE UNCHANGED step
  BY <1>4 DEF StaysFrozen
<1>5. QED
  BY <1>1, <1>2, <1>3, <1>4
  DEF Proceed, LeaseNothing, Prepare, Synthesize, AgentReturns, AgentThrows, AgentIsAborted,
      SkipDelivery, Deliver, DeliveryIsBlocked, DeliveryFails, CheckCanceled, ApplyOutcome, queueVars

LEMMA FrozenByControls ==
  ASSUME DInv, NEW c \in Callers, NEW q \in Run,
         RetryRun(c) \/ Cancel(c, q) \/ AskRetry(c, q) \/ ClearStale(c, q), NEW r \in Run
  PROVE  StaysFrozen(r)
<1>1. CASE RetryRun(c)
  <2>1. c \in Worker /\ At(c, "retry")
    BY <1>1 DEF Worker, RetryRun
  <2>2. PICK p \in Run : p = RunOf(c)
    BY <2>1, Known DEF At
  <2>3. \/ UNCHANGED queueVars
        \/ /\ canceled' = [canceled EXCEPT ![p] = FALSE]
           /\ step' = [step EXCEPT ![p] = [s \in Step |-> Reset(step[p][s], s)]]
    BY <1>1, <2>2 DEF RetryRun
  <2>4. canceled \in [Run -> BOOLEAN] /\ step \in [Run -> [Step -> StepRecord]]
    BY Row
  <2>5. QED BY <2>3, <2>4 DEF queueVars, StaysFrozen
<1>2. CASE Cancel(c, q)
  <2>1. step' = [step EXCEPT ![q] = EndSteps(q, "canceled")] /\ step \in [Run -> [Step -> StepRecord]]
    BY <1>2, Row DEF Cancel
  <2>2. QED BY <2>1, FrozenEnds DEF StaysFrozen
<1>3. CASE AskRetry(c, q)
  BY <1>3 DEF AskRetry, queueVars, StaysFrozen
<1>4. CASE ClearStale(c, q)
  <2>1. ~canceled[q]
    BY <1>4, CanceledIsNotStale DEF ClearStale
  <2>2. \A p \in Run : p # q => step'[p] = step[p]
    BY <1>4, Row DEF ClearStale
  <2>3. QED BY <2>1, <2>2 DEF StaysFrozen
<1>5. QED BY <1>1, <1>2, <1>3, <1>4

LEMMA FrozenByNext == ASSUME DInv, [Next]_vars, NEW r \in Run PROVE StaysFrozen(r)
<1>1. CASE \E w \in Worker : Proceed(w)
  BY <1>1, FrozenByWorkers
<1>2. CASE \E c \in Callers : RetryRun(c) \/ Mark(c) \/ Discard(c)
  <2>1. PICK c \in Callers : RetryRun(c) \/ Mark(c) \/ Discard(c)
    BY <1>2
  <2>2. CASE RetryRun(c)
    BY <2>2, FrozenByControls
  <2>3. CASE Mark(c) \/ Discard(c)
    BY <2>3 DEF Mark, Discard, queueVars, StaysFrozen
  <2>4. QED BY <2>1, <2>2, <2>3
<1>3. CASE \E c \in Callers, q \in Run : Cancel(c, q) \/ AskRetry(c, q) \/ ClearStale(c, q)
  BY <1>3, FrozenByControls
<1>4. CASE Tick \/ \E w \in Outside : Poll(w)
  <2>1. RecoverExpiredLeases
    BY <1>4 DEF Tick, Poll
  <2>2. QED BY <2>1, RecoverSound, CanceledIsNotStale DEF Same, StaysFrozen
<1>5. CASE \E q \in Run, s \in Step : StepLeaseExpires(q, s) \/ RetryDelayPasses(q, s)
  <2>1. PICK q \in Run, s \in Step : StepLeaseExpires(q, s) \/ RetryDelayPasses(q, s)
    BY <1>5
  <2>2. ~canceled[q] /\ \E y \in StepRecord : Changes(q, s, y)
    BY <2>1, LeaseExpiryIs, DelayIs
  <2>3. QED BY <2>2 DEF Changes, StaysFrozen
<1>6. CASE GatewayRestarts
  <2>1. IF IsRecovered(r) THEN step'[r] = EndSteps(r, "recovered") ELSE Same(r)
    BY <1>6, RestartSound
  <2>2. QED BY <2>1, FrozenEnds DEF Same, StaysFrozen
<1>7. CASE UNCHANGED step
  BY <1>7 DEF StaysFrozen
<1>8. QED
  BY <1>1, <1>2, <1>3, <1>4, <1>5, <1>6, <1>7, Steps
  DEF Reserve, TickMaintains, ReadMaintains, Maintain, OperatorChangesJob, ChangeJob, EditJobs,
      OutsideDies, JobLeaseExpires, vars, queueVars

\* A canceled run stays as the cancellation left it, whatever late workers report and
\* whatever expires, until it is retried; only a start of the gateway calls it recovered.
THEOREM CanceledStaysFrozen == Spec => CanceledIsFrozen
<1>1. ASSUME DInv, [Next]_vars, NEW r \in Run, canceled[r] /\ canceled'[r]
      PROVE  step'[r] = step[r] /\ status'[r] \in {"canceled", "recovered"}
  <2>1. step'[r] = step[r]
    BY <1>1, FrozenByNext DEF StaysFrozen
  <2>2. DInv'
    BY <1>1, NextD
  <2>3. Frozen(status'[r], canceled'[r], step'[r])
    BY <2>2 DEF DInv, QInv, Fits
  <2>4. QED BY <1>1, <2>1, <2>3 DEF Frozen
<1>2. DInv /\ [Next]_vars =>
        \A r \in Run : canceled[r] /\ canceled'[r] =>
          /\ step'[r] = step[r]
          /\ status'[r] \in {"canceled", "recovered"}
  BY <1>1
<1>3. QED BY <1>2, QueueInvariant, PTL DEF Spec, CanceledIsFrozen

-----------------------------------------------------------------------------
(* Sends are granted: by an attempt of the step, or by a retry asked for.  *)

Sending(r) ==
  {w \in Worker : worker[w].at \in {"leased", "exec"} /\ StepOf(w) = "deliver" /\ RunOf(w) = r}
Retrying(r) == {w \in Worker : At(w, "retry") /\ RunOf(w) = r}
Granted(r) ==
  /\ IsFiniteSet(Sending(r)) /\ IsFiniteSet(Retrying(r))
  /\ sends[r] + Cardinality(Sending(r)) + MaxAttempts * Cardinality(Retrying(r))
       <= step[r]["deliver"].attempt + MaxAttempts * incidents["retry"]
GInv == \A r \in Run : Granted(r)

LEMMA TimesGrows == \A m, a, b \in Nat : a <= b => m * a \in Nat /\ m * a <= m * b
OBVIOUS

LEMMA TimesNext == \A m, a \in Nat : m * (a + 1) = m * a + m
OBVIOUS

\* What the count is made of.
LEMMA Counts ==
  ASSUME DInv, NEW r \in Run
  PROVE  /\ sends[r] \in Nat /\ step[r]["deliver"].attempt \in Nat
         /\ step[r]["deliver"].attempt <= MaxAttempts /\ incidents["retry"] \in Nat
         /\ "deliver" \in Step /\ "retry" \in Incidents
<1>1. "deliver" \in Step /\ "retry" \in Incidents
  BY DEF Step, Leased, Incidents
<1>2. step[r]["deliver"] \in StepRecord
  BY <1>1, Row
<1>3. step[r]["deliver"].attempt \in 0..MaxAttempts
  BY <1>2 DEF StepRecord
<1>4. sends[r] \in Nat /\ incidents["retry"] \in Nat
  BY <1>1 DEF DInv, JTyped
<1>5. QED BY <1>1, <1>3, <1>4, Numbers

LEMMA RetriesGrow ==
  ASSUME DInv, Recording PROVE incidents'["retry"] \in Nat /\ incidents'["retry"] >= incidents["retry"]
<1>1. incidents \in [Incidents -> Nat] /\ "retry" \in Incidents
  BY DEF DInv, JTyped, Incidents
<1>2. incidents["retry"] \in Nat
  BY <1>1, Numbers
<1>3. CASE UNCHANGED incidents
  BY <1>2, <1>3
<1>4. CASE \E i \in Incidents : Record(i)
  BY <1>1, <1>2, <1>4, Recorded
<1>5. QED BY <1>3, <1>4 DEF Recording

\* A run keeps its grants if no worker is at a delivery or a retry of it that was not.
LEMMA GrantKept ==
  ASSUME DInv, NEW r \in Run, Granted(r), Recording,
         Sending(r)' \subseteq Sending(r), Retrying(r)' \subseteq Retrying(r), sends'[r] = sends[r],
         step'[r]["deliver"].attempt \in Nat, step'[r]["deliver"].attempt >= step[r]["deliver"].attempt
  PROVE  Granted(r)'
<1> DEFINE a == Cardinality(Sending(r))
           b == Cardinality(Retrying(r))
<1>1. /\ IsFiniteSet(Sending(r)') /\ IsFiniteSet(Retrying(r)')
      /\ Cardinality(Sending(r)') <= a /\ Cardinality(Retrying(r)') <= b
      /\ Cardinality(Sending(r)') \in Nat /\ Cardinality(Retrying(r)') \in Nat
      /\ a \in Nat /\ b \in Nat
  <2>1. IsFiniteSet(Sending(r)) /\ IsFiniteSet(Retrying(r))
    BY DEF Granted
  <2>2. \A S, T : IsFiniteSet(T) /\ S \subseteq T =>
                    /\ IsFiniteSet(S) /\ Cardinality(S) <= Cardinality(T)
                    /\ Cardinality(S) \in Nat /\ Cardinality(T) \in Nat
    BY FS_Subset, FS_CardinalityType
  <2>3. QED BY <2>1, <2>2
<1>2. PICK m, c, d, i, j \in Nat :
        /\ m = MaxAttempts /\ c = Cardinality(Sending(r)') /\ d = Cardinality(Retrying(r)')
        /\ i = incidents["retry"] /\ j = incidents'["retry"] /\ i <= j
  BY <1>1, Numbers, Counts, RetriesGrow
<1>3. /\ m * d \in Nat /\ m * b \in Nat /\ m * i \in Nat /\ m * j \in Nat
      /\ m * d <= m * b /\ m * i <= m * j
  BY <1>1, <1>2, TimesGrows
<1>4. sends[r] + a + m * b <= step[r]["deliver"].attempt + m * i
  BY <1>2 DEF Granted
<1>5. sends'[r] + c + m * d <= step'[r]["deliver"].attempt + m * j
  <2>1. c <= a
    BY <1>1, <1>2
  <2> HIDE DEF a, b
  <2>2. QED BY <1>1, <1>3, <1>4, <2>1, Counts
<1>6. QED BY <1>1, <1>2, <1>5 DEF Granted

LEMMA GrantMoved ==
  ASSUME NEW w \in Worker, NEW at, NEW run, NEW s, NEW todo, Moved(w, at, run, s, todo), NEW r,
         at # "retry",
         at \in {"leased", "exec"} /\ s = "deliver" =>
           worker[w].at \in {"leased", "exec"} /\ StepOf(w) = "deliver" /\ RunOf(w) = run
  PROVE  Sending(r)' \subseteq Sending(r) /\ Retrying(r)' \subseteq Retrying(r)
BY DEF Moved, Sending, Retrying, StepOf, RunOf, At

LEMMA GrantUnmoved ==
  ASSUME UNCHANGED worker, NEW r
  PROVE  Sending(r)' \subseteq Sending(r) /\ Retrying(r)' \subseteq Retrying(r)
BY DEF Sending, Retrying, StepOf, RunOf, At

\* A result is given to the channel: the worker at the delivery had a grant.
LEMMA GrantSpent ==
  ASSUME DInv, NEW w \in Worker, NEW at, NEW run, NEW s, NEW todo, Moved(w, at, run, s, todo),
         at \notin {"leased", "exec", "retry"}, Delivering(w), NEW r \in Run, Granted(r),
         NEW n \in {0, 1}, sends' = [sends EXCEPT ![RunOf(w)] = @ + n], UNCHANGED step, Recording
  PROVE  Granted(r)'
<1>1. step'[r]["deliver"].attempt \in Nat /\ step'[r]["deliver"].attempt >= step[r]["deliver"].attempt
  BY Counts
<1>2. Sending(r)' \subseteq Sending(r) /\ Retrying(r)' \subseteq Retrying(r)
  BY GrantMoved
<1>3. CASE sends'[r] = sends[r]
  BY <1>1, <1>2, <1>3, GrantKept
<1>4. CASE sends'[r] # sends[r]
  <2>1. RunOf(w) = r /\ sends'[r] = sends[r] + 1
    <3>1. sends \in [Run -> Nat] /\ RunOf(w) \in Run
      BY Known DEF DInv, JTyped, Delivering, At
    <3>2. QED BY <1>4, <3>1
  <2>2. w \in Sending(r) /\ w \notin Sending(r)'
    BY <2>1 DEF Delivering, Sending, At, Moved
  <2>3. Sending(r)' \subseteq Sending(r) \ {w}
    BY <1>2, <2>2
  <2>4. /\ IsFiniteSet(Sending(r)') /\ IsFiniteSet(Retrying(r)')
        /\ Cardinality(Sending(r)') <= Cardinality(Sending(r)) - 1
        /\ Cardinality(Retrying(r)') <= Cardinality(Retrying(r))
        /\ Cardinality(Sending(r)') \in Nat /\ Cardinality(Retrying(r)') \in Nat
        /\ Cardinality(Sending(r)) \in Nat /\ Cardinality(Retrying(r)) \in Nat
    <3>1. IsFiniteSet(Sending(r)) /\ IsFiniteSet(Retrying(r))
      BY DEF Granted
    <3>2. \A S, T : IsFiniteSet(T) /\ S \subseteq T =>
                      /\ IsFiniteSet(S) /\ Cardinality(S) <= Cardinality(T)
                      /\ Cardinality(S) \in Nat /\ Cardinality(T) \in Nat
      BY FS_Subset, FS_CardinalityType
    <3>3. IsFiniteSet(Sending(r) \ {w}) /\ Cardinality(Sending(r) \ {w}) = Cardinality(Sending(r)) - 1
      BY <2>2, <3>1, FS_RemoveElement
    <3>4. QED BY <1>2, <2>3, <3>1, <3>2, <3>3
  <2>5. PICK m, a, b, c, d, i, j \in Nat :
          /\ m = MaxAttempts /\ c = Cardinality(Sending(r)') /\ d = Cardinality(Retrying(r)')
          /\ a = Cardinality(Sending(r)) /\ b = Cardinality(Retrying(r))
          /\ i = incidents["retry"] /\ j = incidents'["retry"] /\ i <= j
    BY <2>4, Numbers, Counts, RetriesGrow
  <2>6. c <= a - 1 /\ d <= b
    BY <2>4, <2>5
  <2>7. /\ m * d \in Nat /\ m * b \in Nat /\ m * i \in Nat /\ m * j \in Nat
        /\ m * d <= m * b /\ m * i <= m * j
    BY <2>5, <2>6, TimesGrows
  <2>8. sends[r] + a + m * b <= step[r]["deliver"].attempt + m * i
    BY <2>5 DEF Granted
  <2>9. sends'[r] + c + m * d <= step'[r]["deliver"].attempt + m * j
    BY <1>1, <2>1, <2>6, <2>7, <2>8, Counts
  <2>10. QED BY <2>4, <2>5, <2>9 DEF Granted
<1>5. QED BY <1>3, <1>4

LEMMA RunnableHasAttempts ==
  ASSUME NEW r, NEW s \in RunnableSteps(r) PROVE step[r][s].attempt < MaxAttempts
<1>1. StepIsRunnable(r, s) /\ s \in Leased
  BY DEF RunnableSteps, WorkerStepFirst, Leased
<1>2. HasAttemptsLeft(r, s)
  BY <1>1 DEF StepIsRunnable, Resumable
<1>3. QED BY <1>1, <1>2 DEF HasAttemptsLeft, BelowLimit, AttemptsOf

\* A set grows by one element, or shrinks.
LEMMA OneElementMore ==
  ASSUME NEW S, NEW T, NEW x, IsFiniteSet(T), S \subseteq T \cup {x}
  PROVE  /\ IsFiniteSet(S) /\ Cardinality(S) \in Nat /\ Cardinality(T) \in Nat
         /\ Cardinality(S) <= Cardinality(T) + 1
<1>1. /\ IsFiniteSet(T \cup {x}) /\ Cardinality(T) \in Nat
      /\ Cardinality(T \cup {x}) \in {Cardinality(T), Cardinality(T) + 1}
  BY FS_AddElement, FS_CardinalityType
<1>2. IsFiniteSet(S) /\ Cardinality(S) <= Cardinality(T \cup {x}) /\ Cardinality(S) \in Nat
  BY <1>1, FS_Subset, FS_CardinalityType
<1>3. QED BY <1>1, <1>2

LEMMA GrantLeased ==
  ASSUME DInv, NEW w \in Worker, Lease(w), NEW r \in Run, Granted(r) PROVE Granted(r)'
<1>1. PICK q \in Run, s \in Leased : Leases(w, q, s)
  BY LeaseIs
<1>2. /\ Moved(w, "leased", q, s, worker[w].todo) /\ UNCHANGED <<sends, doubt, incidents>>
      /\ Recording
  BY <1>1 DEF Leases, history, Recording
<1>3. Retrying(r)' \subseteq Retrying(r) /\ Sending(r)' \subseteq Sending(r) \cup {w}
  BY <1>2 DEF Moved, Sending, Retrying, StepOf, RunOf, At
<1>4. CASE r # q \/ s # "deliver"
  <2>1. Sending(r)' \subseteq Sending(r)
    BY <1>2, <1>3, <1>4 DEF Moved, Sending, StepOf, RunOf
  <2>2. step'[r]["deliver"] = step[r]["deliver"]
    BY <1>1, <1>4, Counts DEF Leases
  <2>3. QED BY <1>2, <1>3, <2>1, <2>2, GrantKept, Counts
<1>5. CASE r = q /\ s = "deliver"
  <2>1. step'[r]["deliver"].attempt = step[r]["deliver"].attempt + 1
    <3>1. step[r]["deliver"].attempt < MaxAttempts /\ step'[r]["deliver"] = Held(step[r]["deliver"])
      BY <1>1, <1>5, RunnableHasAttempts DEF Leases
    <3>2. QED BY <3>1, Row, Counts, StepIsHeld
  <2>2. /\ IsFiniteSet(Sending(r)') /\ Cardinality(Sending(r)') \in Nat /\ Cardinality(Sending(r)) \in Nat
        /\ Cardinality(Sending(r)') <= Cardinality(Sending(r)) + 1
        /\ IsFiniteSet(Retrying(r)') /\ Cardinality(Retrying(r)') \in Nat /\ Cardinality(Retrying(r)) \in Nat
        /\ Cardinality(Retrying(r)') <= Cardinality(Retrying(r))
    BY <1>3, OneElementMore, FS_Subset, FS_CardinalityType DEF Granted
  <2>3. PICK m, a, b, c, d, i \in Nat :
          /\ m = MaxAttempts /\ c = Cardinality(Sending(r)') /\ d = Cardinality(Retrying(r)')
          /\ a = Cardinality(Sending(r)) /\ b = Cardinality(Retrying(r)) /\ i = incidents["retry"]
    BY <2>2, Numbers, Counts
  <2>4. c <= a + 1 /\ d <= b
    BY <2>2, <2>3
  <2>5. m * d \in Nat /\ m * b \in Nat /\ m * i \in Nat /\ m * d <= m * b
    BY <2>3, <2>4, TimesGrows
  <2>6. sends[r] + a + m * b <= step[r]["deliver"].attempt + m * i
    BY <2>3 DEF Granted
  <2>7. sends'[r] + c + m * d <= step'[r]["deliver"].attempt + m * i
    BY <1>2, <2>1, <2>4, <2>5, <2>6, Counts
  <2>8. QED BY <1>2, <2>2, <2>3, <2>7 DEF Granted
<1>6. QED BY <1>4, <1>5

LEMMA GrantAsked ==
  ASSUME DInv, NEW c \in Callers, NEW q \in Run, AskRetry(c, q), NEW r \in Run, Granted(r)
  PROVE  Granted(r)'
<1>1. c \in Worker /\ UNCHANGED <<queueVars, sends>> /\ Record("retry")
      /\ worker' = [worker EXCEPT ![c] = [Resting EXCEPT !.at = "retry", !.run = q]]
  BY DEF AskRetry, Worker
<1>2. Moved(c, "retry", q, "worker", <<>>)
  <2>1. q \in 0..Runs /\ "retry" \in Stages
    BY Numbers DEF Stages
  <2>2. QED BY <1>1, <2>1, Known, StartMoves
<1>3. Sending(r)' \subseteq Sending(r) /\ Retrying(r)' \subseteq Retrying(r) \cup {c}
  BY <1>2 DEF Moved, Sending, Retrying, StepOf, RunOf, At
<1>4. incidents'["retry"] = incidents["retry"] + 1
  BY <1>1, Recorded, Counts DEF DInv, JTyped
<1>5. /\ IsFiniteSet(Sending(r)') /\ Cardinality(Sending(r)') \in Nat /\ Cardinality(Sending(r)) \in Nat
      /\ Cardinality(Sending(r)') <= Cardinality(Sending(r))
      /\ IsFiniteSet(Retrying(r)') /\ Cardinality(Retrying(r)') \in Nat /\ Cardinality(Retrying(r)) \in Nat
      /\ Cardinality(Retrying(r)') <= Cardinality(Retrying(r)) + 1
  BY <1>3, OneElementMore, FS_Subset, FS_CardinalityType DEF Granted
<1>6. PICK m, a, b, e, d, i \in Nat :
        /\ m = MaxAttempts /\ e = Cardinality(Sending(r)') /\ d = Cardinality(Retrying(r)')
        /\ a = Cardinality(Sending(r)) /\ b = Cardinality(Retrying(r)) /\ i = incidents["retry"]
  BY <1>5, Numbers, Counts
<1>7. e <= a /\ d <= b + 1
  BY <1>5, <1>6
<1>8. /\ m * d \in Nat /\ m * b \in Nat /\ m * i \in Nat /\ m * d <= m * (b + 1)
      /\ m * (b + 1) = m * b + m /\ m * (i + 1) = m * i + m
  BY <1>6, <1>7, TimesGrows, TimesNext
<1>9. sends[r] + a + m * b <= step[r]["deliver"].attempt + m * i
  BY <1>6 DEF Granted
<1>10. sends'[r] = sends[r] /\ step'[r]["deliver"].attempt = step[r]["deliver"].attempt
  BY <1>1 DEF queueVars
<1>11. sends'[r] + e + m * d <= step'[r]["deliver"].attempt + m * (i + 1)
  BY <1>6, <1>7, <1>8, <1>9, <1>10, Counts
<1>12. QED BY <1>4, <1>5, <1>6, <1>11 DEF Granted

LEMMA ResetCounts ==
  ASSUME NEW m \in Nat, NEW a \in Nat, NEW b \in Nat, NEW e \in Nat, NEW d \in Nat, NEW i \in Nat,
         NEW n \in Nat, NEW p \in Nat,
         e <= a, d + 1 <= b, p <= m, n + a + m * b <= p + m * i
  PROVE  n + e + m * d <= 0 + m * i
<1>1. m * (d + 1) <= m * b
  <2>1. d + 1 \in Nat
    OBVIOUS
  <2>2. QED BY <2>1, TimesGrows
<1>2. m * (d + 1) = m * d + m /\ m * d \in Nat /\ m * b \in Nat /\ m * i \in Nat
  BY TimesNext
<1>3. QED BY <1>1, <1>2

LEMMA GrantReset ==
  ASSUME DInv, NEW c \in Callers, RetryRun(c), NEW r \in Run, Granted(r) PROVE Granted(r)'
<1>1. c \in Worker /\ At(c, "retry") /\ UNCHANGED <<sends, incidents>> /\ Recording
  BY DEF Worker, RetryRun, history, Recording
<1>2. PICK q \in Run : q = RunOf(c)
  BY <1>1, Known DEF At
<1>3. \E at \in {"rest", "mark"}, run \in 0..Runs, s \in Leased, todo \in Seq(Updates) :
        Moved(c, at, run, s, todo)
  <2>1. CASE Rest(c)
    <3>1. Moved(c, "rest", 0, "worker", <<>>)
      BY <1>1, <2>1, Known, RestMoves
    <3>2. "worker" \in Leased /\ <<>> \in Seq(Updates) /\ 0 \in 0..Runs
      BY Numbers DEF Leased
    <3>3. QED BY <3>1, <3>2
  <2>2. CASE Go(c, "mark")
    <3>1. Moved(c, "mark", RunOf(c), StepOf(c), worker[c].todo)
      BY <1>1, <2>2, Known, GoMoves DEF Stages
    <3>2. QED BY <1>1, <3>1, Known
  <2>3. QED BY <2>1, <2>2 DEF RetryRun
<1>4. PICK at \in {"rest", "mark"}, run \in 0..Runs, s \in Leased, todo \in Seq(Updates) :
        Moved(c, at, run, s, todo)
  BY <1>3
<1>5. /\ Sending(r)' \subseteq Sending(r) /\ Retrying(r)' \subseteq Retrying(r)
      /\ c \notin Retrying(r)'
  BY <1>4 DEF Moved, Sending, Retrying, StepOf, RunOf, At
<1>6. CASE UNCHANGED step \/ r # q
  <2>1. step'[r] = step[r]
    <3>1. UNCHANGED step \/ step' = [step EXCEPT ![q] = [s1 \in Step |-> Reset(step[q][s1], s1)]]
      BY <1>2 DEF RetryRun, queueVars
    <3>2. QED BY <1>6, <3>1, Row
  <2>2. QED BY <1>1, <1>5, <2>1, GrantKept, Counts
<1>7. CASE ~UNCHANGED step /\ r = q
  <2>1. step'[r]["deliver"].attempt = 0
    <3>1. step' = [step EXCEPT ![r] = [s1 \in Step |-> Reset(step[r][s1], s1)]]
      BY <1>2, <1>7 DEF RetryRun, queueVars
    <3>2. step'[r]["deliver"] = Reset(step[r]["deliver"], "deliver")
      BY <3>1, Row, Counts
    <3>3. QED BY <3>2 DEF Reset, NewStep
  <2>2. c \in Retrying(r)
    BY <1>1, <1>2, <1>7 DEF Retrying
  <2>3. /\ IsFiniteSet(Sending(r)') /\ Cardinality(Sending(r)') \in Nat /\ Cardinality(Sending(r)) \in Nat
        /\ Cardinality(Sending(r)') <= Cardinality(Sending(r))
        /\ IsFiniteSet(Retrying(r)') /\ Cardinality(Retrying(r)') \in Nat /\ Cardinality(Retrying(r)) \in Nat
        /\ Cardinality(Retrying(r)') + 1 <= Cardinality(Retrying(r))
    <3>1. IsFiniteSet(Sending(r)) /\ IsFiniteSet(Retrying(r)) /\ Retrying(r)' \subseteq Retrying(r) \ {c}
      BY <1>5 DEF Granted
    <3>2. IsFiniteSet(Retrying(r) \ {c}) /\ Cardinality(Retrying(r) \ {c}) = Cardinality(Retrying(r)) - 1
      BY <2>2, <3>1, FS_RemoveElement
    <3>3. \A S, T : IsFiniteSet(T) /\ S \subseteq T =>
                      /\ IsFiniteSet(S) /\ Cardinality(S) <= Cardinality(T)
                      /\ Cardinality(S) \in Nat /\ Cardinality(T) \in Nat
      BY FS_Subset, FS_CardinalityType
    <3>4. Cardinality(Retrying(r)') <= Cardinality(Retrying(r)) - 1
      BY <3>1, <3>2, <3>3
    <3>5. QED BY <1>5, <3>1, <3>3, <3>4
  <2>4. PICK m, a, b, e, d, i \in Nat :
          /\ m = MaxAttempts /\ e = Cardinality(Sending(r)') /\ d = Cardinality(Retrying(r)')
          /\ a = Cardinality(Sending(r)) /\ b = Cardinality(Retrying(r)) /\ i = incidents["retry"]
    BY <2>3, Numbers, Counts
  <2>5. PICK n, p \in Nat : n = sends[r] /\ p = step[r]["deliver"].attempt /\ p <= m
    BY <2>4, Counts
  <2>6. e <= a /\ d + 1 <= b
    BY <2>3, <2>4
  <2>7. n + a + m * b <= p + m * i
    BY <2>4, <2>5 DEF Granted
  <2>8. n + e + m * d <= 0 + m * i
    BY <2>5, <2>6, <2>7, ResetCounts
  <2>9. sends'[r] + e + m * d <= step'[r]["deliver"].attempt + m * i
    BY <1>1, <2>1, <2>5, <2>8
  <2>10. QED BY <1>1, <2>3, <2>4, <2>9 DEF Granted
<1>8. QED BY <1>6, <1>7

\* The worker moves on from where it was, without a new grant.
LEMMA GrantStays ==
  ASSUME DInv, NEW w \in Worker, NEW at \in Stages \ {"leased", "exec", "retry"}, NEW run, NEW s, NEW todo,
         Moved(w, at, run, s, todo), NEW r \in Run, Granted(r), Recording, UNCHANGED sends,
         step'[r]["deliver"].attempt \in Nat, step'[r]["deliver"].attempt >= step[r]["deliver"].attempt
  PROVE  Granted(r)'
<1>1. Sending(r)' \subseteq Sending(r) /\ Retrying(r)' \subseteq Retrying(r)
  BY GrantMoved
<1>2. QED BY <1>1, GrantKept

LEMMA SameAttempts ==
  ASSUME DInv, NEW r \in Run, step'[r] = step[r] \/ step'[r]["deliver"].attempt = step[r]["deliver"].attempt
  PROVE  step'[r]["deliver"].attempt \in Nat /\ step'[r]["deliver"].attempt >= step[r]["deliver"].attempt
BY Counts

\* One step of a row changes, and does not lose attempts.
LEMMA MoreAttempts ==
  ASSUME DInv, NEW q \in Run, NEW s \in Step, NEW y \in StepRecord, Changes(q, s, y), NEW r \in Run,
         y.attempt = step[q][s].attempt \/ y = Held(step[q][s])
  PROVE  step'[r]["deliver"].attempt \in Nat /\ step'[r]["deliver"].attempt >= step[r]["deliver"].attempt
<1>1. CASE r # q \/ s # "deliver"
  BY <1>1, Counts, SameAttempts DEF Changes
<1>2. CASE r = q /\ s = "deliver"
  <2>1. step'[r]["deliver"] = y /\ y.attempt \in Nat
    BY <1>2, Numbers DEF Changes, StepRecord
  <2>2. y.attempt >= step[r]["deliver"].attempt
    BY <1>2, <2>1, Row, Counts, StepIsHeld
  <2>3. QED BY <2>1, <2>2
<1>3. QED BY <1>1, <1>2

LEMMA GrantByDelivery ==
  ASSUME DInv, NEW w \in Worker, NEW r \in Run, Granted(r),
         \/ SkipDelivery(w) \/ Deliver(w) \/ DeliveryIsBlocked(w)
         \/ \E out \in {0, 1} : DeliveryFails(w, out)
  PROVE  Granted(r)'
<1>1. At(w, "exec") /\ RunOf(w) \in Run /\ UNCHANGED step /\ Delivering(w)
  BY Known DEF SkipDelivery, Deliver, DeliveryIsBlocked, DeliveryFails, Delivering, At, queueVars
<1>2. \E n \in {0, 1} : sends' = [sends EXCEPT ![RunOf(w)] = @ + n]
  <2>1. sends \in [Run -> Nat]
    BY DEF DInv, JTyped
  <2>2. sends = [sends EXCEPT ![RunOf(w)] = @ + 0]
    BY <1>1, <2>1
  <2>3. CASE SkipDelivery(w) \/ DeliveryIsBlocked(w)
    <3>1. sends' = sends
      BY <2>3 DEF SkipDelivery, DeliveryIsBlocked, history
    <3>2. QED BY <2>2, <3>1
  <2>4. CASE Deliver(w)
    BY <2>4 DEF Deliver
  <2>5. CASE \E out \in {0, 1} : DeliveryFails(w, out)
    BY <2>5 DEF DeliveryFails
  <2>6. QED BY <2>3, <2>4, <2>5
<1>3. Recording
  BY DEF SkipDelivery, Deliver, DeliveryIsBlocked, DeliveryFails, history, Recording, Incidents
<1>4. \E at \in {"write", "failed"}, todo \in Seq(Updates) : Moved(w, at, RunOf(w), StepOf(w), todo)
  <2>1. CASE Go(w, "failed")
    BY <2>1, Known, GoMoves DEF Stages
  <2>2. CASE \E st \in {"ok", "skipped"}, res \in {"ok", "error"} : Write(w, <<End("deliver", st), Close(res)>>)
    <3>1. PICK st \in {"ok", "skipped"}, res \in {"ok", "error"} : Write(w, <<End("deliver", st), Close(res)>>)
      BY <2>2
    <3>2. PICK t \in Seq(Updates) : t = <<End("deliver", st), Close(res)>>
      BY Todos
    <3>3. QED BY <3>1, <3>2, Known, WriteMoves
  <2>3. QED BY <2>1, <2>2 DEF SkipDelivery, Deliver, DeliveryIsBlocked, DeliveryFails
<1>5. PICK at \in {"write", "failed"}, todo \in Seq(Updates) : Moved(w, at, RunOf(w), StepOf(w), todo)
  BY <1>4
<1>6. PICK n \in {0, 1} : sends' = [sends EXCEPT ![RunOf(w)] = @ + n]
  BY <1>2
<1>7. at \notin {"leased", "exec", "retry"}
  OBVIOUS
<1>8. QED BY <1>1, <1>3, <1>5, <1>6, <1>7, GrantSpent

LEMMA GrantByWorkers ==
  ASSUME DInv, NEW w \in Worker, Proceed(w), NEW r \in Run, Granted(r) PROVE Granted(r)'
<1>1. CASE Lease(w)
  BY <1>1, GrantLeased
<1>2. CASE Prepare(w)
  <2>1. UNCHANGED sends /\ UNCHANGED step /\ Recording /\ At(w, "leased")
    BY <1>2 DEF Prepare, history, queueVars, Recording
  <2>2. CASE Go(w, "exec")
    <3>1. Moved(w, "exec", RunOf(w), StepOf(w), worker[w].todo)
      BY <2>2, Known, GoMoves DEF Stages
    <3>2. Sending(r)' \subseteq Sending(r) /\ Retrying(r)' \subseteq Retrying(r)
      BY <2>1, <3>1, GrantMoved DEF At
    <3>3. QED BY <2>1, <3>2, SameAttempts, GrantKept
  <2>3. CASE Loop(w)
    <3>1. RunOf(w) \in Run
      BY <2>1, Known DEF At
    <3>2. Moved(w, "loop", LoopRun(w, RunOf(w)), "worker", <<>>)
      BY <2>3, <3>1, Known, LoopMoves DEF Loop
    <3>3. QED BY <2>1, <3>2, SameAttempts, GrantStays DEF Stages
  <2>4. QED BY <1>2, <2>2, <2>3 DEF Prepare
<1>3. CASE RetryStep(w)
  <2>1. PICK q, s : q = RunOf(w) /\ s = StepOf(w)
    OBVIOUS
  <2>2. PICK again \in BOOLEAN : RetriesStep(w, q, s, again)
    BY <1>3, <2>1, RetryStepIs
  <2>3. q \in Run /\ s \in Step /\ UNCHANGED sends /\ Recording
    BY <2>2 DEF RetriesStep, Step, history, Recording
  <2>4. step'[r]["deliver"].attempt \in Nat /\ step'[r]["deliver"].attempt >= step[r]["deliver"].attempt
    <3>1. CASE canceled[q]
      BY <2>2, <3>1, SameAttempts DEF RetriesStep
    <3>2. CASE ~canceled[q]
      <4>1. PICK y \in StepRecord : Changes(q, s, y) /\ y.attempt = step[q][s].attempt
        BY <2>2, <3>2 DEF RetriesStep
      <4>2. QED BY <2>3, <4>1, MoreAttempts
    <3>3. QED BY <3>1, <3>2
  <2>5. CASE again
    <3>1. Moved(w, "loop", LoopRun(w, q), "worker", <<>>)
      BY <2>2, <2>5 DEF RetriesStep
    <3>2. QED BY <2>3, <2>4, <3>1, GrantStays DEF Stages
  <2>6. CASE ~again
    <3>1. Moved(w, "write", q, s, IF s = "deliver" THEN DeliveryFailure ELSE Failure)
      BY <2>2, <2>6 DEF RetriesStep
    <3>2. QED BY <2>3, <2>4, <3>1, GrantStays DEF Stages
  <2>7. QED BY <2>5, <2>6
<1>4. CASE Update(w)
  <2>1. PICK q : q = RunOf(w)
    OBVIOUS
  <2>2. PICK u \in Updates, rest \in Seq(Updates) : Updated(w, q, u, rest)
    BY <1>4, <2>1, UpdateIs
  <2>3. q \in Run /\ u.step \in Step /\ UNCHANGED sends /\ Recording /\ u.op \in {"begin", "end", "close"}
    BY <2>2 DEF Updated, history, Recording
  <2>4. step'[r]["deliver"].attempt \in Nat /\ step'[r]["deliver"].attempt >= step[r]["deliver"].attempt
    <3>1. CASE canceled[q] \/ u.op = "close"
      BY <2>2, <3>1, SameAttempts DEF Updated
    <3>2. CASE ~canceled[q] /\ u.op # "close"
      <4>1. PICK y \in StepRecord : /\ Changes(q, u.step, y)
                                    /\ y.attempt = step[q][u.step].attempt \/ y = Held(step[q][u.step])
        BY <2>2, <2>3, <3>2 DEF Updated
      <4>2. QED BY <2>3, <4>1, MoreAttempts
    <3>3. QED BY <3>1, <3>2
  <2>5. CASE rest # <<>>
    <3>1. Moved(w, "write", q, StepOf(w), rest)
      BY <2>2, <2>5 DEF Updated
    <3>2. QED BY <2>3, <2>4, <3>1, GrantStays DEF Stages
  <2>6. CASE rest = <<>> /\ u.op = "close"
    <3>1. Moved(w, "check", q, "worker", <<>>)
      BY <2>2, <2>6 DEF Updated
    <3>2. QED BY <2>3, <2>4, <3>1, GrantStays DEF Stages
  <2>7. CASE rest = <<>> /\ u.op # "close"
    <3>1. Moved(w, "loop", LoopRun(w, q), "worker", <<>>)
      BY <2>2, <2>7 DEF Updated
    <3>2. QED BY <2>3, <2>4, <3>1, GrantStays DEF Stages
  <2>8. QED BY <2>5, <2>6, <2>7
<1>5. CASE \/ SkipDelivery(w) \/ Deliver(w) \/ DeliveryIsBlocked(w)
           \/ \E out \in {0, 1} : DeliveryFails(w, out)
  BY <1>5, GrantByDelivery
<1>6. CASE LeaseNothing(w) \/ CheckCanceled(w) \/ ApplyOutcome(w)
  <2>1. UNCHANGED sends /\ UNCHANGED step /\ Recording
    BY <1>6 DEF LeaseNothing, CheckCanceled, ApplyOutcome, history, queueVars, Recording
  <2>2. CASE Rest(w)
    <3>1. Moved(w, "rest", 0, "worker", <<>>)
      BY <2>2, Known, RestMoves
    <3>2. QED BY <2>1, <3>1, SameAttempts, GrantStays DEF Stages
  <2>3. CASE Go(w, "apply")
    <3>1. Moved(w, "apply", RunOf(w), StepOf(w), worker[w].todo)
      BY <2>3, Known, GoMoves DEF Stages
    <3>2. QED BY <2>1, <3>1, SameAttempts, GrantStays DEF Stages
  <2>4. QED BY <1>6, <2>2, <2>3 DEF LeaseNothing, CheckCanceled, ApplyOutcome
<1>7. CASE Synthesize(w) \/ (\E res \in {"ok", "error"} : AgentReturns(w, res)) \/ AgentIsAborted(w)
  <2>1. UNCHANGED sends /\ UNCHANGED step /\ Recording /\ At(w, "exec")
    BY <1>7 DEF Synthesize, AgentReturns, AgentIsAborted, history, queueVars, Recording, Incidents
  <2>2. \E t \in Seq(Updates) : Write(w, t)
    <3>1. CASE Synthesize(w)
      <4>1. step[RunOf(w)]["worker"].result # "none" /\ RunOf(w) \in Run /\ "worker" \in Step
        BY <3>1, <2>1, Known DEF Synthesize, At, Step, Leased
      <4>2. step[RunOf(w)]["worker"] \in StepRecord
        BY <4>1, Row
      <4>3. PICK res \in {"ok", "error"} : res = step[RunOf(w)]["worker"].result
        BY <4>1, <4>2 DEF StepRecord
      <4>4. <<Report("synthesize", res), Begin("evaluate"), End("evaluate", "ok")>> \in Seq(Updates)
        BY Todos
      <4>5. QED BY <3>1, <4>3, <4>4 DEF Synthesize
    <3>2. CASE \E res \in {"ok", "error"} : AgentReturns(w, res)
      <4>1. \A res \in {"ok", "error"} : <<Report("worker", res)>> \in Seq(Updates)
        BY Todos
      <4>2. QED BY <3>2, <4>1 DEF AgentReturns
    <3>3. CASE AgentIsAborted(w)
      BY <3>3, Todos DEF AgentIsAborted
    <3>4. QED BY <1>7, <3>1, <3>2, <3>3
  <2>3. PICK t \in Seq(Updates) : Moved(w, "write", RunOf(w), StepOf(w), t)
    BY <2>2, Known, WriteMoves
  <2>4. QED BY <2>1, <2>3, SameAttempts, GrantStays DEF Stages
<1>8. CASE AgentThrows(w)
  <2>1. UNCHANGED sends /\ UNCHANGED step /\ Recording
    BY <1>8 DEF AgentThrows, queueVars, Recording, Incidents
  <2>2. Moved(w, "failed", RunOf(w), StepOf(w), worker[w].todo)
    BY <1>8, Known, GoMoves DEF AgentThrows, Stages
  <2>3. QED BY <2>1, <2>2, SameAttempts, GrantStays DEF Stages
<1>9. QED BY <1>1, <1>2, <1>3, <1>4, <1>5, <1>6, <1>7, <1>8 DEF Proceed

LEMMA GrantByControls ==
  ASSUME DInv, NEW c \in Callers, NEW q \in Run, NEW r \in Run, Granted(r),
         Cancel(c, q) \/ ClearStale(c, q) \/ Mark(c) \/ Discard(c)
  PROVE  Granted(r)'
<1>1. c \in Worker /\ UNCHANGED sends /\ Recording
  BY DEF Worker, Cancel, ClearStale, Mark, Discard, history, Recording, Incidents
<1>2. step'[r]["deliver"].attempt = step[r]["deliver"].attempt
  <2>1. step \in [Run -> [Step -> StepRecord]]
    BY Row
  <2>2. CASE Cancel(c, q)
    <3>1. step' = [step EXCEPT ![q] = EndSteps(q, "canceled")]
      BY <2>2 DEF Cancel
    <3>2. EndSteps(q, "canceled")["deliver"].attempt = step[q]["deliver"].attempt
      BY EndStepsSound, Counts
    <3>3. QED BY <2>1, <3>1, <3>2
  <2>3. CASE ClearStale(c, q)
    <3>1. step' = [step EXCEPT ![q] = [s \in Step |-> ClearedStep(q, s)]]
      BY <2>3 DEF ClearStale, ClearedStep
    <3>2. ClearedStep(q, "deliver").attempt = step[q]["deliver"].attempt
      BY ClearSound, Counts DEF EasedStep
    <3>3. step'[r] = IF r = q THEN [s \in Step |-> ClearedStep(q, s)] ELSE step[r]
      BY <2>1, <3>1
    <3>4. QED BY <3>2, <3>3, Counts
  <2>4. CASE Mark(c) \/ Discard(c)
    BY <2>4 DEF Mark, Discard, queueVars
  <2>5. QED BY <2>2, <2>3, <2>4
<1>3. CASE Cancel(c, q) \/ ClearStale(c, q)
  <2>1. PICK at \in {"discard", "mark"} :
          worker' = [worker EXCEPT ![c] = [Resting EXCEPT !.at = at, !.run = q]]
    BY <1>3 DEF Cancel, ClearStale
  <2>2. at \in Stages \ {"leased", "exec", "retry"} /\ q \in 0..Runs
    BY Numbers DEF Stages
  <2>3. Moved(c, at, q, "worker", <<>>)
    BY <1>1, <2>1, <2>2, Known, StartMoves
  <2>4. QED BY <1>1, <1>2, <2>2, <2>3, SameAttempts, GrantStays
<1>4. CASE Mark(c)
  <2>1. Moved(c, "loop", RunOf(c), StepOf(c), worker[c].todo)
    BY <1>1, <1>4, Known, GoMoves DEF Mark, Stages
  <2>2. QED BY <1>1, <1>2, <2>1, SameAttempts, GrantStays DEF Stages
<1>5. CASE Discard(c)
  <2>1. Moved(c, "rest", 0, "worker", <<>>)
    BY <1>1, <1>5, Known, RestMoves DEF Discard
  <2>2. QED BY <1>1, <1>2, <2>1, SameAttempts, GrantStays DEF Stages
<1>6. QED BY <1>3, <1>4, <1>5

LEMMA GrantByOthers ==
  ASSUME DInv, NEW r \in Run, Granted(r),
         \/ \E w \in Worker : Reserve(w)
         \/ Tick \/ \E w \in Outside : Poll(w)
         \/ TickMaintains \/ ReadMaintains \/ OperatorChangesJob
         \/ \E w \in Outside : OutsideDies(w)
         \/ \E q \in Run, s \in Step : StepLeaseExpires(q, s) \/ RetryDelayPasses(q, s)
         \/ JobLeaseExpires \/ GatewayRestarts \/ UNCHANGED vars
  PROVE  Granted(r)'
<1>1. CASE \E w \in Worker : Reserve(w)
  <2>1. PICK w \in Worker : Reserve(w)
    BY <1>1
  <2>2. NextRun \in Run
    BY <2>1, NextRunIsNew DEF Reserve
  <2>3. Moved(w, "loop", NextRun, "worker", <<>>)
    BY <2>1, <2>2, Known, StartMoves, Numbers DEF Reserve, Stages
  <2>4. UNCHANGED <<step, sends>> /\ Recording
    BY <2>1 DEF Reserve, history, Recording
  <2>5. QED BY <2>3, <2>4, SameAttempts, GrantStays DEF Stages
<1>2. CASE Tick \/ \E w \in Outside : Poll(w)
  <2>1. PICK w \in Worker, at \in {"due", "loop"} : RecoverExpiredLeases /\ Go(w, at) /\ UNCHANGED sends /\ Recording
    BY <1>2 DEF Tick, Poll, Worker, history, Recording
  <2>2. EasedStep(step[r]["deliver"], step'[r]["deliver"])
    BY <2>1, RecoverSound, Counts
  <2>3. step'[r]["deliver"].attempt = step[r]["deliver"].attempt
    BY <2>2 DEF EasedStep
  <2>4. at \in Stages \ {"leased", "exec", "retry"}
    BY DEF Stages
  <2>5. Moved(w, at, RunOf(w), StepOf(w), worker[w].todo)
    BY <2>1, <2>4, Known, GoMoves
  <2>6. QED BY <2>1, <2>3, <2>4, <2>5, SameAttempts, GrantStays
<1>3. CASE TickMaintains \/ \E w \in Outside : OutsideDies(w)
  <2>1. PICK w \in Worker : Rest(w)
    BY <1>3 DEF TickMaintains, OutsideDies, Worker
  <2>2. UNCHANGED sends /\ UNCHANGED step /\ Recording
    BY <1>3 DEF TickMaintains, OutsideDies, Maintain, Loses, queueVars, Recording, Incidents
  <2>3. Moved(w, "rest", 0, "worker", <<>>)
    BY <2>1, Known, RestMoves
  <2>4. QED BY <2>2, <2>3, SameAttempts, GrantStays DEF Stages
<1>4. CASE ReadMaintains \/ OperatorChangesJob \/ JobLeaseExpires \/ UNCHANGED vars
  <2>1. UNCHANGED sends /\ UNCHANGED step /\ Recording /\ UNCHANGED worker
    BY <1>4 DEF ReadMaintains, OperatorChangesJob, ChangeJob, EditJobs, JobLeaseExpires, Maintain,
       Loses, vars, queueVars, history, Recording, Incidents
  <2>2. QED BY <2>1, GrantUnmoved, SameAttempts, GrantKept
<1>5. CASE \E q \in Run, s \in Step : StepLeaseExpires(q, s) \/ RetryDelayPasses(q, s)
  <2>1. PICK q \in Run, s \in Step : StepLeaseExpires(q, s) \/ RetryDelayPasses(q, s)
    BY <1>5
  <2>2. UNCHANGED <<worker, sends>> /\ Recording
    BY <2>1 DEF StepLeaseExpires, RetryDelayPasses, history, Recording, Incidents
  <2>3. PICK y \in StepRecord : Changes(q, s, y) /\ y.attempt = step[q][s].attempt
    BY <2>1, LeaseExpiryIs, DelayIs
  <2>4. step'[r]["deliver"].attempt \in Nat /\ step'[r]["deliver"].attempt >= step[r]["deliver"].attempt
    BY <2>3, MoreAttempts
  <2>5. QED BY <2>2, <2>4, GrantUnmoved, GrantKept
<1>6. CASE GatewayRestarts
  <2>1. UNCHANGED sends /\ Recording
        /\ worker' = [w \in Worker |-> IF w \in Gateway THEN Resting ELSE worker[w]]
    BY <1>6 DEF GatewayRestarts, Recording, Incidents
  <2>2. Sending(r)' \subseteq Sending(r) /\ Retrying(r)' \subseteq Retrying(r)
    BY <2>1, RestingRecord DEF Sending, Retrying, StepOf, RunOf, At
  <2>3. step'[r]["deliver"].attempt = step[r]["deliver"].attempt
    <3>1. step'[r] = EndSteps(r, "recovered") \/ step'[r] = step[r]
      BY <1>6, RestartSound DEF Same
    <3>2. EndSteps(r, "recovered")["deliver"].attempt = step[r]["deliver"].attempt
      BY EndStepsSound, Counts
    <3>3. QED BY <3>1, <3>2
  <2>4. QED BY <2>1, <2>2, <2>3, SameAttempts, GrantKept
<1>7. QED BY <1>1, <1>2, <1>3, <1>4, <1>5, <1>6

LEMMA GrantNext == ASSUME DInv, GInv, [Next]_vars PROVE GInv'
<1>1. ASSUME NEW r \in Run PROVE Granted(r)'
  <2>1. Granted(r)
    BY DEF GInv
  <2>2. CASE \E w \in Worker : Proceed(w)
    BY <2>1, <2>2, GrantByWorkers
  <2>3. CASE \E c \in Callers : RetryRun(c)
    BY <2>1, <2>3, GrantReset
  <2>4. CASE \E c \in Callers, q \in Run : AskRetry(c, q)
    BY <2>1, <2>4, GrantAsked
  <2>5. CASE \E c \in Callers, q \in Run : Cancel(c, q) \/ ClearStale(c, q) \/ Mark(c) \/ Discard(c)
    BY <2>1, <2>5, GrantByControls
  <2>6. CASE \/ \E w \in Worker : Reserve(w)
             \/ Tick \/ \E w \in Outside : Poll(w)
             \/ TickMaintains \/ ReadMaintains \/ OperatorChangesJob
             \/ \E w \in Outside : OutsideDies(w)
             \/ \E q \in Run, s \in Step : StepLeaseExpires(q, s) \/ RetryDelayPasses(q, s)
             \/ JobLeaseExpires \/ GatewayRestarts \/ UNCHANGED vars
    BY <2>1, <2>6, GrantByOthers
  <2>7. QED BY <2>2, <2>3, <2>4, <2>5, <2>6, Steps
<1>2. QED BY <1>1 DEF GInv

LEMMA GrantInit == ASSUME Init PROVE GInv
<1>1. ASSUME NEW r \in Run PROVE Granted(r)
  <2>1. Sending(r) = {} /\ Retrying(r) = {}
    BY RestingRecord DEF Init, Sending, Retrying, At
  <2>2. sends[r] = 0 /\ step[r]["deliver"].attempt = 0 /\ incidents["retry"] = 0
    BY DEF Init, NewStep, Step, Leased, Incidents
  <2>3. IsFiniteSet({}) /\ Cardinality({}) = 0
    BY FS_EmptySet
  <2>4. MaxAttempts * 0 = 0
    BY Numbers
  <2>5. QED BY <2>1, <2>2, <2>3, <2>4 DEF Granted
<1>2. QED BY <1>1 DEF GInv

\* The channel is given the result of a run at most once per attempt that the policy of
\* its step and the retries of the operator grant, for any number of runs and workers.
THEOREM SendsBounded == Spec => []SendsAreBounded
<1>1. ASSUME DInv, GInv PROVE SendsAreBounded
  <2>1. ASSUME NEW r \in Run PROVE sends[r] <= MaxAttempts * (1 + incidents["retry"])
    <3>1. Granted(r)
      BY <1>1 DEF GInv
    <3>2. Cardinality(Sending(r)) \in Nat /\ Cardinality(Retrying(r)) \in Nat
      BY <3>1, FS_CardinalityType DEF Granted
    <3>3. PICK m, a, b, i, n, p \in Nat :
            /\ m = MaxAttempts /\ a = Cardinality(Sending(r)) /\ b = Cardinality(Retrying(r))
            /\ i = incidents["retry"] /\ n = sends[r] /\ p = step[r]["deliver"].attempt /\ p <= m
      BY <1>1, <3>2, Numbers, Counts
    <3>4. m * b \in Nat /\ m * i \in Nat /\ m * (i + 1) = m * i + m
      BY TimesGrows, TimesNext
    <3>5. n + a + m * b <= p + m * i
      BY <3>1, <3>3 DEF Granted
    <3>6. n <= m * (i + 1) /\ i + 1 = 1 + i
      BY <3>3, <3>4, <3>5
    <3>7. QED BY <3>3, <3>6
  <2>2. QED BY <2>1 DEF SendsAreBounded
<1>2. DInv /\ GInv => SendsAreBounded
  BY <1>1
<1>3. Init => GInv
  BY GrantInit
<1>4. DInv /\ GInv /\ [Next]_vars => GInv'
  BY GrantNext
<1>5. QED BY <1>2, <1>3, <1>4, QueueInvariant, PTL DEF Spec
=============================================================================
