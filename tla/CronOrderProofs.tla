----------------------------- MODULE CronOrderProofs -----------------------------
(***************************************************************************)
(* Workers share the queue without a lock on a run: what each knows of the *)
(* steps of its run until its lease is taken from it, and why a result is  *)
(* then sent once, an ended run stays ended and a job has one executor.    *)
(***************************************************************************)
EXTENDS CronProofs

\* No run was taken from a worker that is at it, and none was retried.
Orderly == Quiet({"overrun", "retry"})

Ok(r, s) == step[r][s].status = "ok"
Leasing(r, s) == step[r][s].status = "running" /\ step[r][s].timer = "lease"
NoMore(r, s) == step[r][s].status = "error" /\ ~HasAttemptsLeft(r, s)
Startable(r, s) ==
  (step[r][s].status \in {"queued", "error"} \/ Resumable(r, s)) /\ HasAttemptsLeft(r, s)
NothingLeft(r) ==
  \A s \in Leased : Startable(r, s) =>
    (s # "worker" /\ ~Ok(r, "worker")) \/ \E b \in Before(s) : ~Passed(r, b)
Ended(r) == \A s \in Step : step[r][s].status # "running"

\* What a worker at a step of a run knows of it.
AtStep(r, s) ==
  /\ Leasing(r, s)
  /\ s # "worker" => Ok(r, "worker")
  /\ s = "synthesize" => ~Passed(r, "evaluate")
  /\ s = "deliver" => Passed(r, "synthesize") /\ Passed(r, "evaluate")

\* What one that writes knows: the worker's result, or the end of a run that failed;
\* the synthesis and its evaluation; the end of a delivery.
Fails(t) ==
  \A i \in 1..Len(t) :
    /\ t[i].step # "worker" /\ t[i].status # "ok"
    /\ t[i].step = "evaluate" => t[i].status # "skipped"
    /\ i = Len(t) => t[i].op = "close"
WritesWorker(r, t) ==
  /\ Leasing(r, "worker") \/ NoMore(r, "worker")
  /\ (\E res \in {"ok", "error"} : t = <<Report("worker", res)>>) \/ Fails(t)
WritesSynthesis(r, t) ==
  /\ Ok(r, "worker") /\ ~Passed(r, "evaluate")
  /\ \/ /\ Leasing(r, "synthesize")
        /\ \E res \in {"ok", "error"} :
             t = <<Report("synthesize", res), Begin("evaluate"), End("evaluate", "ok")>>
     \/ /\ Passed(r, "synthesize")
        /\ t = <<Begin("evaluate"), End("evaluate", "ok")>> \/ t = <<End("evaluate", "ok")>>
WritesDelivery(r, t) ==
  /\ Ok(r, "worker") /\ Passed(r, "synthesize") /\ Passed(r, "evaluate")
  /\ \/ /\ Leasing(r, "deliver")
        /\ \E st \in {"ok", "skipped"}, res \in {"ok", "error"} : t = <<End("deliver", st), Close(res)>>
     \/ NoMore(r, "deliver") /\ t = DeliveryFailure
     \/ /\ NoMore(r, "deliver") \/ Passed(r, "deliver")
        /\ \E res \in {"ok", "error"} : t = <<Close(res)>>

KnowsOf(w, r) ==
  /\ worker[w].at \in {"leased", "exec"} => AtStep(r, StepOf(w))
  /\ At(w, "failed") => AtStep(r, StepOf(w)) /\ StepOf(w) # "synthesize"
  /\ At(w, "write") =>
       /\ StepOf(w) = "worker" => WritesWorker(r, worker[w].todo)
       /\ StepOf(w) = "synthesize" => WritesSynthesis(r, worker[w].todo)
       /\ StepOf(w) = "deliver" => WritesDelivery(r, worker[w].todo)
  /\ worker[w].at \in {"check", "apply"} => NothingLeft(r)
Knows(w) == ~canceled[RunOf(w)] => KnowsOf(w, RunOf(w))

\* It is alone at its run.
Alone(w) == \A v \in Worker : Engaged(v) /\ RunOf(v) = RunOf(w) => v = w

\* The steps of a run pass in order, and one that has ended well has nobody at it who
\* would still write.
InOrder(r) ==
  ~canceled[r] =>
    /\ Passed(r, "evaluate") => Ok(r, "worker") /\ Passed(r, "synthesize")
    /\ status[r] = "ok" =>
         /\ Ended(r)
         /\ \A w \in Worker : Engaged(w) /\ RunOf(w) = r => worker[w].at \in {"check", "apply"}

Good ==
  /\ \A w \in Worker : Engaged(w) => Knows(w) /\ Alone(w)
  /\ \A r \in Run : InOrder(r)

\* Operators' controls are recorded before they bite.
Controls ==
  \A w \in Worker :
    /\ At(w, "discard") => Happened("cancel")
    /\ At(w, "mark") => Happened("retry") \/ Happened("clear")
    /\ At(w, "retry") => Happened("retry")

OInv == Controls /\ (Orderly => Good)

-----------------------------------------------------------------------------
(* What the bookkeeping of leases leaves alone.                            *)

LEMMA StepNames ==
  /\ "worker" \in Step /\ "synthesize" \in Step /\ "deliver" \in Step /\ "evaluate" \in Step
  /\ "worker" \in Leased /\ "synthesize" \in Leased /\ "deliver" \in Leased /\ "evaluate" \notin Leased
  /\ \A s \in Leased : s \in Step /\ Before(s) \subseteq Step
BY DEF Step, Leased, Before

LEMMA EasedFacts ==
  ASSUME DInv, NEW r \in Run, NEW s \in Step, EasedStep(step[r][s], step'[r][s])
  PROVE  /\ Leasing(r, s) => Leasing(r, s)'
         /\ NoMore(r, s) => NoMore(r, s)'
         /\ Passed(r, s)' <=> Passed(r, s)
         /\ Ok(r, s)' <=> Ok(r, s)
         /\ s \in Leased /\ Startable(r, s)' => Startable(r, s)
         /\ step'[r][s].status = "running" => step[r][s].status = "running"
<1>1. PICK c : c = step[r][s]
  OBVIOUS
<1>2. PICK y : y = step'[r][s]
  OBVIOUS
<1>3. Timed(c) /\ EasedStep(c, y)
  BY <1>1, <1>2, Row
<1>4. CASE y = c
  BY <1>1, <1>2, <1>4
  DEF Leasing, NoMore, Passed, Ok, Startable, Resumable, IsExpired, HasAttemptsLeft, BelowLimit
<1>5. CASE /\ c.timer \in {"expired", "delay"} /\ y.status \in {"queued", "recovered"}
           /\ y.attempt = c.attempt
  <2>1. c.status \in {"queued", "running"} /\ (c.timer = "delay" => c.status = "queued")
    BY <1>3, <1>5 DEF Timed
  <2>2. HasAttemptsLeft(r, s)' <=> HasAttemptsLeft(r, s)
    BY <1>1, <1>2, <1>5 DEF HasAttemptsLeft, BelowLimit
  <2>3. s \in Leased /\ Startable(r, s)' => Startable(r, s)
    <3>1. SUFFICES ASSUME s \in Leased, Startable(r, s)' PROVE Startable(r, s)
      OBVIOUS
    <3>2. HasAttemptsLeft(r, s)
      BY <2>2, <3>1 DEF Startable
    <3>3. CASE c.timer = "expired"
      BY <1>1, <3>1, <3>2, <3>3 DEF Startable, Resumable, IsExpired
    <3>4. CASE c.timer = "delay"
      BY <1>1, <2>1, <3>2, <3>4 DEF Startable
    <3>5. QED BY <1>5, <3>3, <3>4
  <2>4. QED BY <1>1, <1>2, <1>5, <2>1, <2>3 DEF Leasing, NoMore, Passed, Ok
<1>6. QED BY <1>3, <1>4, <1>5 DEF EasedStep

EasedRow(r) ==
  canceled'[r] \/ (canceled'[r] = canceled[r] /\ \A s \in Step : EasedStep(step[r][s], step'[r][s]))

LEMMA KnowsKept ==
  ASSUME DInv, NEW w \in Worker, Engaged(w), Knows(w), worker'[w] = worker[w], EasedRow(RunOf(w))
  PROVE  Knows(w)'
<1>1. PICK r \in Run : r = RunOf(w)
  BY Known DEF Engaged, Executing
<1>2. r = RunOf(w)' /\ StepOf(w)' = StepOf(w) /\ worker'[w].at = worker[w].at /\ worker'[w].todo = worker[w].todo
  BY <1>1 DEF RunOf, StepOf
<1>3. CASE canceled'[r]
  BY <1>2, <1>3 DEF Knows
<1>4. CASE ~canceled'[r]
  <2>1. KnowsOf(w, r)
    BY <1>1, <1>4 DEF Knows, EasedRow
  <2>2. \A s \in Step : /\ Leasing(r, s) => Leasing(r, s)'
                        /\ NoMore(r, s) => NoMore(r, s)'
                        /\ Passed(r, s)' <=> Passed(r, s)
                        /\ Ok(r, s)' <=> Ok(r, s)
                        /\ s \in Leased /\ Startable(r, s)' => Startable(r, s)
    BY <1>1, <1>4, EasedFacts DEF EasedRow
  <2>3. StepOf(w) \in Leased /\ StepOf(w) \in Step
    BY Known, StepNames
  <2>4. AtStep(r, StepOf(w)) => AtStep(r, StepOf(w))'
    BY <1>2, <2>2, <2>3, StepNames DEF AtStep
  <2>5. NothingLeft(r) => NothingLeft(r)'
    BY <2>2, StepNames DEF NothingLeft
  <2>6. \A t : /\ WritesWorker(r, t) => WritesWorker(r, t)'
               /\ WritesSynthesis(r, t) => WritesSynthesis(r, t)'
               /\ WritesDelivery(r, t) => WritesDelivery(r, t)'
    BY <2>2, StepNames DEF WritesWorker, WritesSynthesis, WritesDelivery
  <2>7. KnowsOf(w, r)'
    BY <1>2, <2>1, <2>4, <2>5, <2>6 DEF KnowsOf, At
  <2>8. QED BY <1>2, <2>7 DEF Knows
<1>5. QED BY <1>3, <1>4

\* Workers stay at their runs, go on or leave.
Stays(w) ==
  Engaged(w)' =>
    /\ Engaged(w) /\ RunOf(w)' = RunOf(w)
    /\ worker[w].at \in {"check", "apply"} => worker'[w].at \in {"check", "apply"}

LEMMA OrderKept ==
  ASSUME DInv, NEW r \in Run, InOrder(r), EasedRow(r), status'[r] = "ok" => status[r] = "ok",
         \A w \in Worker : Stays(w)
  PROVE  InOrder(r)'
<1>1. SUFFICES ASSUME ~canceled'[r] PROVE InOrder(r)'
  BY DEF InOrder
<1>2. \A s \in Step : /\ Passed(r, s)' <=> Passed(r, s)
                      /\ Ok(r, s)' <=> Ok(r, s)
                      /\ step'[r][s].status = "running" => step[r][s].status = "running"
  BY <1>1, EasedFacts DEF EasedRow
<1>3. ~canceled[r]
  BY <1>1 DEF EasedRow
<1>4. (Passed(r, "evaluate") => Ok(r, "worker") /\ Passed(r, "synthesize"))'
  BY <1>2, <1>3, StepNames DEF InOrder
<1>5. ASSUME status'[r] = "ok"
      PROVE  /\ Ended(r)'
             /\ \A w \in Worker : Engaged(w)' /\ RunOf(w)' = r => worker'[w].at \in {"check", "apply"}
  <2>1. /\ Ended(r)
        /\ \A w \in Worker : Engaged(w) /\ RunOf(w) = r => worker[w].at \in {"check", "apply"}
    BY <1>3, <1>5 DEF InOrder
  <2>2. Ended(r)'
    BY <1>2, <2>1 DEF Ended
  <2>3. QED BY <2>1, <2>2 DEF Stays
<1>6. QED BY <1>4, <1>5 DEF InOrder

\* The rule for every step but a lease: rows are eased, or someone at them accounts for
\* the change.
LEMMA GoodKept ==
  ASSUME DInv, Good, \A w \in Worker : Stays(w),
         \A w \in Worker : Engaged(w)' => Knows(w)' \/ (worker'[w] = worker[w] /\ EasedRow(RunOf(w))),
         \A r \in Run : InOrder(r)' \/ (EasedRow(r) /\ (status'[r] = "ok" => status[r] = "ok"))
  PROVE  Good'
<1>1. ASSUME NEW w \in Worker, Engaged(w)' PROVE Knows(w)' /\ Alone(w)'
  <2>1. Engaged(w) /\ RunOf(w)' = RunOf(w) /\ Knows(w) /\ Alone(w)
    BY <1>1 DEF Stays, Good
  <2>2. Knows(w)'
    BY <1>1, <2>1, KnowsKept
  <2>3. Alone(w)'
    BY <2>1 DEF Alone, Stays
  <2>4. QED BY <2>2, <2>3
<1>2. ASSUME NEW r \in Run PROVE InOrder(r)'
  BY OrderKept DEF Good
<1>3. QED BY <1>1, <1>2 DEF Good

Idle == {"rest", "due", "loop", "retry", "mark", "discard"}
Busy == {"leased", "exec", "failed", "write", "check", "apply"}
LEMMA EngagedIsBusy ==
  /\ \A w \in Worker : (Engaged(w) <=> worker[w].at \in Busy) /\ (Engaged(w)' <=> worker'[w].at \in Busy)
  /\ Idle \cap Busy = {}
BY DEF Engaged, Executing, Busy, Idle

\* Workers that are idle after a step, or are where they were, keep the order of rows
\* that are eased.
LEMMA IdleKeeps ==
  ASSUME DInv, Good,
         \A v \in Worker : worker'[v] = worker[v] \/ worker'[v].at \in Idle,
         \A r \in Run : EasedRow(r) /\ (status'[r] = "ok" => status[r] = "ok")
  PROVE  Good'
<1>1. ASSUME NEW v \in Worker, Engaged(v)'
      PROVE  worker'[v] = worker[v] /\ Engaged(v) /\ RunOf(v) \in Run /\ RunOf(v)' = RunOf(v)
  <2>1. worker'[v] = worker[v] /\ Engaged(v)
    BY <1>1, EngagedIsBusy
  <2>2. QED BY <2>1, Known DEF Engaged, Executing, RunOf
<1>2. \A v \in Worker : Stays(v)
  BY <1>1 DEF Stays
<1>3. QED BY <1>1, <1>2, GoodKept

LEMMA SameIsEased ==
  ASSUME NEW r \in Run, Same(r) PROVE EasedRow(r) /\ (status'[r] = "ok" => status[r] = "ok")
BY DEF Same, EasedRow, EasedStep

\* One worker goes on at its run, or leaves it.
LEMMA OneKeeps ==
  ASSUME DInv, Good, NEW w \in Worker, Engaged(w), NEW q \in Run, q = RunOf(w),
         NEW at, NEW run, NEW s, NEW todo, Moved(w, at, run, s, todo),
         \/ at \in Idle
         \/ /\ at \in Busy /\ run = q /\ Knows(w)'
            /\ worker[w].at \in {"check", "apply"} => at \in {"check", "apply"},
         \A r \in Run : r # q => Same(r),
         InOrder(q)' \/ (EasedRow(q) /\ (status'[q] = "ok" => status[q] = "ok"))
  PROVE  Good'
<1>1. \A v \in Worker : Stays(v)
  <2>1. ASSUME NEW v \in Worker, v # w PROVE Stays(v)
    BY <2>1, EngagedIsBusy DEF Moved, Stays, RunOf
  <2>2. Stays(w)
    BY EngagedIsBusy DEF Moved, Stays, RunOf
  <2>3. QED BY <2>1, <2>2
<1>2. ASSUME NEW v \in Worker, Engaged(v)'
      PROVE  Knows(v)' \/ (worker'[v] = worker[v] /\ EasedRow(RunOf(v)))
  <2>1. CASE v = w
    BY <1>2, <2>1, EngagedIsBusy DEF Moved
  <2>2. CASE v # w
    <3>1. worker'[v] = worker[v] /\ Engaged(v)
      BY <1>2, <2>2, EngagedIsBusy DEF Moved
    <3>2. RunOf(v) # q /\ RunOf(v) \in Run
      BY <2>2, <3>1, Known DEF Good, Alone, Engaged, Executing
    <3>3. QED BY <3>1, <3>2, SameIsEased
  <2>3. QED BY <2>1, <2>2
<1>3. \A r \in Run : InOrder(r)' \/ (EasedRow(r) /\ (status'[r] = "ok" => status[r] = "ok"))
  BY SameIsEased
<1>4. QED BY <1>1, <1>2, <1>3, GoodKept

\* What a worker knows after its move.
KnowsAt(q, at, s, t) ==
  /\ at \in {"leased", "exec"} => AtStep(q, s)
  /\ at = "failed" => AtStep(q, s) /\ s # "synthesize"
  /\ at = "write" =>
       /\ s = "worker" => WritesWorker(q, t)
       /\ s = "synthesize" => WritesSynthesis(q, t)
       /\ s = "deliver" => WritesDelivery(q, t)
  /\ at \in {"check", "apply"} => NothingLeft(q)

LEMMA KnowsIs ==
  ASSUME NEW w \in Worker, Engaged(w), Knows(w), NEW q, q = RunOf(w), ~canceled[q]
  PROVE  KnowsAt(q, worker[w].at, StepOf(w), worker[w].todo)
BY DEF Knows, KnowsOf, KnowsAt, At

LEMMA KnowsMoved ==
  ASSUME NEW w \in Worker, NEW at, NEW q, NEW s, NEW todo, Moved(w, at, q, s, todo),
         ~canceled'[q] => KnowsAt(q, at, s, todo)'
  PROVE  Knows(w)'
<1>1. RunOf(w)' = q /\ StepOf(w)' = s /\ worker'[w].at = at /\ worker'[w].todo = todo
  BY DEF Moved, RunOf, StepOf
<1>2. SUFFICES ASSUME ~canceled'[q] PROVE KnowsOf(w, q)'
  BY <1>1 DEF Knows
<1>3. KnowsAt(q, at, s, todo)'
  BY <1>2
<1>4. QED BY <1>1, <1>3 DEF KnowsOf, KnowsAt, At

\* What is said of a row, while it stays.
LEMMA RowStays ==
  ASSUME NEW r, NEW at, NEW s, NEW t, step'[r] = step[r], KnowsAt(r, at, s, t)
  PROVE  KnowsAt(r, at, s, t)'
<1>1. \A x : /\ Leasing(r, x)' <=> Leasing(r, x)
             /\ Ok(r, x)' <=> Ok(r, x)
             /\ Passed(r, x)' <=> Passed(r, x)
             /\ NoMore(r, x)' <=> NoMore(r, x)
             /\ Startable(r, x)' <=> Startable(r, x)
  BY DEF Leasing, Ok, Passed, NoMore, Startable, Resumable, IsExpired, HasAttemptsLeft, BelowLimit
<1>2. AtStep(r, s) => AtStep(r, s)'
  BY <1>1 DEF AtStep
<1>3. NothingLeft(r) => NothingLeft(r)'
  BY <1>1 DEF NothingLeft
<1>4. /\ WritesWorker(r, t) => WritesWorker(r, t)'
      /\ WritesSynthesis(r, t) => WritesSynthesis(r, t)'
      /\ WritesDelivery(r, t) => WritesDelivery(r, t)'
  BY <1>1 DEF WritesWorker, WritesSynthesis, WritesDelivery
<1>5. QED BY <1>2, <1>3, <1>4 DEF KnowsAt

\* A worker that only moves, and knows of its run what it has to.
LEMMA MoveKeeps ==
  ASSUME DInv, Good, NEW w \in Worker, Engaged(w), NEW q \in Run, q = RunOf(w),
         NEW at \in Busy, NEW s, NEW todo, Moved(w, at, q, s, todo),
         worker[w].at \in {"check", "apply"} => at \in {"check", "apply"},
         UNCHANGED queueVars, ~canceled[q] => KnowsAt(q, at, s, todo)
  PROVE  Good'
<1>1. \A r \in Run : Same(r)
  BY DEF queueVars, Same
<1>2. ~canceled'[q] => KnowsAt(q, at, s, todo)'
  BY <1>1, RowStays DEF Same
<1>3. Knows(w)'
  BY <1>2, KnowsMoved
<1>4. EasedRow(q) /\ (status'[q] = "ok" => status[q] = "ok")
  BY <1>1, SameIsEased
<1>5. QED BY <1>1, <1>3, <1>4, OneKeeps

-----------------------------------------------------------------------------
(* A run somebody is at has nothing to lease.                              *)

LEMMA PassedIsOver ==
  ASSUME DInv, NEW r \in Run, NEW s \in Step
  PROVE  /\ Passed(r, s) => ~StepIsRunnable(r, s) /\ ~Startable(r, s) /\ step[r][s].status # "running"
         /\ Ok(r, s) => Passed(r, s)
         /\ Leasing(r, s) => ~StepIsRunnable(r, s) /\ ~Startable(r, s) /\ ~Passed(r, s)
         /\ NoMore(r, s) => ~StepIsRunnable(r, s) /\ ~Startable(r, s) /\ ~Passed(r, s)
         /\ StepIsRunnable(r, s) => Startable(r, s)
<1>1. Timed(step[r][s])
  BY Row
<1>2. QED BY <1>1
  DEF Timed, Passed, Ok, Leasing, NoMore, StepIsRunnable, Startable, Resumable, IsExpired

LEMMA StepIsOne == \A s \in Leased : s = "worker" \/ s = "synthesize" \/ s = "deliver"
BY DEF Leased

LEMMA EngagedIsDone ==
  ASSUME DInv, NEW r \in Run, NEW at \in Busy, NEW s \in Leased, NEW t, KnowsAt(r, at, s, t)
  PROVE  RunnableSteps(r) = {}
<1>1. \A x \in Step : /\ Passed(r, x) => ~StepIsRunnable(r, x)
                      /\ Ok(r, x) => Passed(r, x)
                      /\ Leasing(r, x) => ~StepIsRunnable(r, x)
                      /\ NoMore(r, x) => ~StepIsRunnable(r, x) /\ ~Passed(r, x)
                      /\ StepIsRunnable(r, x) => Startable(r, x)
  BY PassedIsOver
<1>2. SUFFICES ASSUME NEW x \in RunnableSteps(r) PROVE FALSE
  OBVIOUS
<1>3. x \in Leased /\ x \in Step /\ StepIsRunnable(r, x) /\ ~WorkerStepIsHeld(r)
  BY RunnableIsLeased, StepNames DEF RunnableSteps, WorkerStepFirst
<1>4. x # "worker" => Ok(r, "worker") /\ \A b \in Before(x) : Passed(r, b)
  BY StepIsOne DEF RunnableSteps, Before, Ok
<1>5. ~Leasing(r, "worker")
  BY <1>3 DEF Leasing, WorkerStepIsHeld, Resumable, IsExpired
<1>6. /\ "worker" \in Step /\ "synthesize" \in Step /\ "deliver" \in Step
      /\ x = "deliver" => Passed(r, "synthesize") /\ Passed(r, "evaluate")
  BY <1>4, StepNames DEF Before
<1>7. CASE AtStep(r, s)
  BY <1>1, <1>3, <1>4, <1>5, <1>6, <1>7, StepIsOne DEF AtStep
<1>8. CASE s = "worker" /\ WritesWorker(r, t)
  <2>1. NoMore(r, "worker")
    BY <1>5, <1>8 DEF WritesWorker
  <2>2. QED BY <1>1, <1>3, <1>4, <1>6, <2>1
<1>9. CASE s = "synthesize" /\ WritesSynthesis(r, t)
  BY <1>1, <1>3, <1>4, <1>6, <1>9, StepIsOne DEF WritesSynthesis
<1>10. CASE s = "deliver" /\ WritesDelivery(r, t)
  <2>1. Ok(r, "worker") /\ Passed(r, "synthesize")
        /\ (Leasing(r, "deliver") \/ NoMore(r, "deliver") \/ Passed(r, "deliver"))
    BY <1>10 DEF WritesDelivery
  <2>2. QED BY <1>1, <1>3, <1>6, <2>1, StepIsOne
<1>11. CASE NothingLeft(r)
  <2>1. Startable(r, x)
    BY <1>1, <1>3
  <2>2. (x # "worker" /\ ~Ok(r, "worker")) \/ \E b \in Before(x) : ~Passed(r, b)
    BY <1>3, <1>11, <2>1 DEF NothingLeft
  <2>3. x = "worker" => Before(x) = {}
    BY DEF Before
  <2>4. QED BY <1>4, <2>2, <2>3
<1>12. QED BY <1>7, <1>8, <1>9, <1>10, <1>11, StepIsOne DEF KnowsAt, Busy

LEMMA LeaseKeeps == ASSUME DInv, Good, NEW w \in Worker, Lease(w) PROVE Good'
<1>1. PICK r \in Run, s \in Leased : Leases(w, r, s)
  BY LeaseIs
<1>2. /\ s \in RunnableSteps(r) /\ RunnableSteps(r) # {} /\ s \in Step /\ ~canceled[r] /\ ~canceled'[r]
      /\ Moved(w, "leased", r, s, worker[w].todo) /\ UNCHANGED canceled
  BY <1>1 DEF Leases
<1>3. \A v \in Worker : Engaged(v) => RunOf(v) # r
  <2>1. SUFFICES ASSUME NEW v \in Worker, Engaged(v), RunOf(v) = r PROVE FALSE
    OBVIOUS
  <2>2. KnowsAt(r, worker[v].at, StepOf(v), worker[v].todo)
    BY <1>2, <2>1, KnowsIs DEF Good
  <2>3. worker[v].at \in Busy /\ StepOf(v) \in Leased
    BY <2>1, EngagedIsBusy, Known
  <2>4. QED BY <1>2, <2>2, <2>3, EngagedIsDone
<1>4. \A v \in Worker : v # w /\ Engaged(v)' =>
        worker'[v] = worker[v] /\ Engaged(v) /\ RunOf(v)' = RunOf(v) /\ RunOf(v) # r /\ RunOf(v) \in Run
  <2>1. TAKE v \in Worker
  <2>2. HAVE v # w /\ Engaged(v)'
  <2>3. worker'[v] = worker[v] /\ Engaged(v)
    BY <1>2, <2>2, EngagedIsBusy DEF Moved
  <2>4. QED BY <1>3, <2>3, Known DEF RunOf, Engaged, Executing
<1>5. \A c \in Run : c # r => EasedRow(c) /\ (status'[c] = "ok" => status[c] = "ok")
  BY <1>1 DEF Leases, EasedRow, EasedStep
<1>6. /\ Leasing(r, s)'
      /\ \A x \in Step : x # s => (Ok(r, x)' <=> Ok(r, x)) /\ (Passed(r, x)' <=> Passed(r, x))
  <2>1. step'[r][s].status = "running" /\ step'[r][s].timer = "lease"
    BY <1>1, <1>2, Row, StepIsHeld DEF Leases
  <2>2. QED BY <1>1, <2>1 DEF Leases, Leasing, Ok, Passed
<1>7. StepIsRunnable(r, s) /\ ~Passed(r, s) /\ ~Ok(r, s)
  <2>1. StepIsRunnable(r, s)
    BY <1>2 DEF RunnableSteps, WorkerStepFirst
  <2>2. QED BY <1>2, <2>1, PassedIsOver
<1>8. /\ s # "worker" => Ok(r, "worker")
      /\ s = "deliver" => Passed(r, "synthesize") /\ Passed(r, "evaluate")
  BY <1>2, StepIsOne DEF RunnableSteps, Before, Ok
<1>9. Passed(r, "evaluate") => Ok(r, "worker") /\ Passed(r, "synthesize")
  BY <1>2 DEF Good, InOrder
<1>10. AtStep(r, s)'
  <2>1. s # "worker" => Ok(r, "worker")'
    BY <1>6, <1>8, StepNames
  <2>2. s = "synthesize" => ~Passed(r, "evaluate")'
    BY <1>6, <1>7, <1>9, StepNames
  <2>3. s = "deliver" => Passed(r, "synthesize")' /\ Passed(r, "evaluate")'
    BY <1>6, <1>8, StepNames
  <2>4. QED BY <1>6, <2>1, <2>2, <2>3 DEF AtStep
<1>11. Knows(w)' /\ Alone(w)'
  <2>1. PICK t : t = worker[w].todo
    OBVIOUS
  <2>2. Knows(w)'
    <3>1. KnowsAt(r, "leased", s, t)'
      BY <1>10 DEF KnowsAt
    <3>2. Moved(w, "leased", r, s, t)
      BY <1>2, <2>1
    <3>3. QED BY <3>1, <3>2, KnowsMoved
  <2>3. RunOf(w)' = r
    BY <1>2 DEF Moved, RunOf
  <2>4. Alone(w)'
    BY <1>4, <2>3 DEF Alone
  <2>5. QED BY <2>2, <2>4
<1>12. ASSUME NEW v \in Worker, v # w, Engaged(v)' PROVE Knows(v)' /\ Alone(v)'
  <2>1. worker'[v] = worker[v] /\ Engaged(v) /\ RunOf(v)' = RunOf(v) /\ RunOf(v) # r /\ RunOf(v) \in Run
    BY <1>4, <1>12
  <2>2. Knows(v)'
    BY <1>5, <2>1, KnowsKept DEF Good
  <2>3. RunOf(w)' = r
    BY <1>2 DEF Moved, RunOf
  <2>4. Alone(v)'
    BY <1>4, <2>1, <2>3 DEF Alone, Good
  <2>5. QED BY <2>2, <2>4
<1>13. InOrder(r)'
  <2>1. status'[r] = "running"
    BY <1>1 DEF Leases
  <2>2. (Passed(r, "evaluate") => Ok(r, "worker") /\ Passed(r, "synthesize"))'
    BY <1>6, <1>7, <1>9, StepNames
  <2>3. QED BY <2>1, <2>2 DEF InOrder
<1>14. ASSUME NEW c \in Run, c # r PROVE InOrder(c)'
  <2>1. \A v \in Worker : Engaged(v)' /\ RunOf(v)' = c => worker'[v] = worker[v] /\ Engaged(v)
    BY <1>2, <1>4, <1>14 DEF Moved, RunOf
  <2>2. SUFFICES ASSUME ~canceled'[c] PROVE InOrder(c)'
    BY DEF InOrder
  <2>3. ~canceled[c] /\ \A x \in Step : step'[c][x] = step[c][x]
    BY <1>1, <1>14, <2>2 DEF Leases
  <2>4. (Passed(c, "evaluate") => Ok(c, "worker") /\ Passed(c, "synthesize"))'
    BY <2>3, StepNames DEF Good, InOrder, Passed, Ok
  <2>5. ASSUME status'[c] = "ok"
        PROVE  /\ Ended(c)'
               /\ \A v \in Worker : Engaged(v)' /\ RunOf(v)' = c => worker'[v].at \in {"check", "apply"}
    <3>1. status[c] = "ok"
      BY <1>5, <1>14, <2>5
    <3>2. Ended(c)'
      BY <2>3, <3>1 DEF Good, InOrder, Ended
    <3>3. \A v \in Worker : Engaged(v)' /\ RunOf(v)' = c => RunOf(v) = c
      BY <1>4, <1>14, <2>1 DEF RunOf
    <3>4. QED BY <2>1, <2>3, <3>1, <3>2, <3>3 DEF Good, InOrder
  <2>6. QED BY <2>4, <2>5 DEF InOrder
<1>15. QED BY <1>11, <1>12, <1>13, <1>14 DEF Good

-----------------------------------------------------------------------------
(* A worker at its step.                                                   *)

LEMMA RestsKeep ==
  ASSUME DInv, Good, UNCHANGED queueVars,
         \A v \in Worker : worker'[v] = worker[v] \/ worker'[v].at \in Idle
  PROVE  Good'
<1>1. \A r \in Run : EasedRow(r) /\ (status'[r] = "ok" => status[r] = "ok")
  BY SameIsEased DEF queueVars, Same
<1>2. QED BY <1>1, IdleKeeps

LEMMA LeavingKeeps ==
  ASSUME DInv, Good, NEW w \in Worker, NEW at \in Idle, NEW run, NEW s, NEW todo,
         Moved(w, at, run, s, todo), UNCHANGED queueVars
  PROVE  Good'
<1>1. \A v \in Worker : worker'[v] = worker[v] \/ worker'[v].at \in Idle
  BY DEF Moved
<1>2. QED BY <1>1, RestsKeep

\* What is written when a step failed is no result.
LEMMA FailureFails == Fails(Failure)
<1>1. /\ Len(Failure) = 7
      /\ \A i \in 1..7 : Failure[i].step # "worker" /\ Failure[i].status # "ok"
      /\ \A i \in 1..7 : Failure[i].step = "evaluate" => Failure[i].status # "skipped"
      /\ Failure[7].op = "close"
  BY DEF Failure, Begin, End, Close
<1>2. QED BY <1>1 DEF Fails

LEMMA StepMovesKeep ==
  ASSUME DInv, Good, NEW w \in Worker,
         \/ Prepare(w) \/ Synthesize(w) \/ (\E res \in {"ok", "error"} : AgentReturns(w, res))
         \/ AgentThrows(w) \/ AgentIsAborted(w)
         \/ SkipDelivery(w) \/ Deliver(w) \/ DeliveryIsBlocked(w)
         \/ (\E out \in {0, 1} : DeliveryFails(w, out)) \/ CheckCanceled(w) \/ ApplyOutcome(w)
  PROVE  Good'
<1>1. worker[w].at \in {"leased", "exec", "check", "apply"}
  BY DEF Prepare, Synthesize, AgentReturns, AgentThrows, AgentIsAborted, SkipDelivery, Deliver,
         DeliveryIsBlocked, DeliveryFails, CheckCanceled, ApplyOutcome, Delivering, At
<1>2. UNCHANGED queueVars
  BY DEF Prepare, Synthesize, AgentReturns, AgentThrows, AgentIsAborted, SkipDelivery, Deliver,
         DeliveryIsBlocked, DeliveryFails, CheckCanceled, ApplyOutcome
<1>3. Engaged(w) /\ worker \in [Worker -> WorkerRecord]
  BY <1>1, Known DEF Engaged, Executing
<1>4. PICK q \in Run, s \in Leased, t \in Seq(Updates) : q = RunOf(w) /\ s = StepOf(w) /\ t = worker[w].todo
  BY <1>1, Known
<1>5. ~canceled[q] => KnowsAt(q, worker[w].at, s, t)
  BY <1>3, <1>4, KnowsIs DEF Good
<1>6. CASE Go(w, "exec") /\ At(w, "leased")
  <2>1. Moved(w, "exec", q, s, t)
    BY <1>3, <1>4, <1>6, GoMoves DEF Stages
  <2>2. ~canceled[q] => KnowsAt(q, "exec", s, t)
    BY <1>5, <1>6 DEF KnowsAt, At
  <2>3. "exec" \in Busy /\ worker[w].at \notin {"check", "apply"}
    BY <1>6 DEF Busy, At
  <2>4. QED BY <1>2, <1>3, <1>4, <2>1, <2>2, <2>3, MoveKeeps
<1>7. CASE Loop(w)
  <2>1. PICK run : run = LoopRun(w, q)
    OBVIOUS
  <2>2. Moved(w, "loop", run, "worker", <<>>)
    BY <1>3, <1>4, <1>7, <2>1, LoopMoves DEF Loop
  <2>3. QED BY <1>2, <2>2, LeavingKeeps DEF Idle
<1>8. CASE Rest(w)
  BY <1>2, <1>3, <1>8, RestMoves, LeavingKeeps DEF Idle
<1>9. CASE Go(w, "failed") /\ At(w, "exec") /\ s # "synthesize"
  <2>1. Moved(w, "failed", q, s, t)
    BY <1>3, <1>4, <1>9, GoMoves DEF Stages
  <2>2. ~canceled[q] => KnowsAt(q, "failed", s, t)
    BY <1>5, <1>9 DEF KnowsAt, At
  <2>3. "failed" \in Busy /\ worker[w].at \notin {"check", "apply"}
    BY <1>9 DEF Busy, At
  <2>4. QED BY <1>2, <1>3, <1>4, <2>1, <2>2, <2>3, MoveKeeps
<1>10. CASE Go(w, "apply") /\ At(w, "check")
  <2>1. Moved(w, "apply", q, s, t)
    BY <1>3, <1>4, <1>10, GoMoves DEF Stages
  <2>2. ~canceled[q] => KnowsAt(q, "apply", s, t)
    BY <1>5, <1>10 DEF KnowsAt, At
  <2>3. "apply" \in Busy
    BY DEF Busy
  <2>4. QED BY <1>2, <1>3, <1>4, <2>1, <2>2, <2>3, MoveKeeps
<1>11. ASSUME NEW z \in Seq(Updates), Write(w, z), At(w, "exec"),
              AtStep(q, s) => /\ s = "worker" => WritesWorker(q, z)
                              /\ s = "synthesize" => WritesSynthesis(q, z)
                              /\ s = "deliver" => WritesDelivery(q, z)
       PROVE  Good'
  <2>1. Moved(w, "write", q, s, z)
    BY <1>3, <1>4, <1>11, WriteMoves
  <2>2. ~canceled[q] => KnowsAt(q, "write", s, z)
    BY <1>5, <1>11 DEF KnowsAt, At
  <2>3. "write" \in Busy /\ worker[w].at \notin {"check", "apply"}
    BY <1>11 DEF Busy, At
  <2>4. QED BY <1>2, <1>3, <1>4, <2>1, <2>2, <2>3, MoveKeeps
<1>12. CASE Synthesize(w)
  <2>1. At(w, "exec") /\ s = "synthesize"
    BY <1>4, <1>12 DEF Synthesize
  <2>2. PICK res \in {"ok", "error"} : res = step[q]["worker"].result
    <3>1. step[q]["worker"].result # "none" /\ step[q]["worker"] \in StepRecord
      BY <1>4, <2>1, Known, Row, StepNames DEF At
    <3>2. QED BY <3>1 DEF StepRecord
  <2>3. PICK z \in Seq(Updates) : z = <<Report("synthesize", res), Begin("evaluate"), End("evaluate", "ok")>>
    BY Todos
  <2>4. Write(w, z)
    BY <1>4, <1>12, <2>2, <2>3 DEF Synthesize
  <2>5. AtStep(q, s) => WritesSynthesis(q, z)
    BY <2>1, <2>3 DEF AtStep, WritesSynthesis
  <2>6. QED BY <1>11, <2>1, <2>4, <2>5
<1>13. CASE \E res \in {"ok", "error"} : AgentReturns(w, res)
  <2>1. PICK res \in {"ok", "error"} : AgentReturns(w, res)
    BY <1>13
  <2>2. PICK z \in Seq(Updates) : z = <<Report("worker", res)>>
    BY Todos
  <2>3. At(w, "exec") /\ s = "worker" /\ Write(w, z)
    BY <1>4, <2>1, <2>2 DEF AgentReturns
  <2>4. AtStep(q, s) => WritesWorker(q, z)
    BY <2>2, <2>3 DEF AtStep, WritesWorker
  <2>5. QED BY <1>11, <2>3, <2>4
<1>14. CASE AgentIsAborted(w)
  <2>1. At(w, "exec") /\ s = "worker" /\ Write(w, Failure) /\ Failure \in Seq(Updates)
    BY <1>4, <1>14, Todos DEF AgentIsAborted
  <2>2. AtStep(q, s) => WritesWorker(q, Failure)
    BY <2>1, FailureFails DEF AtStep, WritesWorker
  <2>3. QED BY <1>11, <2>1, <2>2
<1>15. CASE SkipDelivery(w) \/ Deliver(w) \/ DeliveryIsBlocked(w)
  <2>1. PICK st \in {"ok", "skipped"}, res \in {"ok", "error"} : Write(w, <<End("deliver", st), Close(res)>>)
    BY <1>15 DEF SkipDelivery, Deliver, DeliveryIsBlocked
  <2>2. PICK z \in Seq(Updates) : z = <<End("deliver", st), Close(res)>>
    BY Todos
  <2>3. At(w, "exec") /\ s = "deliver" /\ Write(w, z)
    BY <1>4, <1>15, <2>1, <2>2 DEF SkipDelivery, Deliver, DeliveryIsBlocked, Delivering
  <2>4. AtStep(q, s) => WritesDelivery(q, z)
    BY <2>2, <2>3 DEF AtStep, WritesDelivery
  <2>5. QED BY <1>11, <2>3, <2>4
<1>16. CASE Prepare(w)
  BY <1>6, <1>7, <1>16 DEF Prepare
<1>17. CASE AgentThrows(w) \/ \E out \in {0, 1} : DeliveryFails(w, out)
  BY <1>4, <1>9, <1>17 DEF AgentThrows, DeliveryFails, Delivering
<1>18. CASE CheckCanceled(w) \/ ApplyOutcome(w)
  BY <1>8, <1>10, <1>18 DEF CheckCanceled, ApplyOutcome
<1>19. QED BY <1>12, <1>13, <1>14, <1>15, <1>16, <1>17, <1>18

LEMMA OthersAreSame ==
  ASSUME DInv, NEW r \in Run, UNCHANGED canceled,
         UNCHANGED status \/ \E st : ChangesRun(r, st),
         UNCHANGED step \/ \E s \in Step, y \in StepRecord : Changes(r, s, y)
  PROVE  \A c \in Run : c # r => Same(c)
BY DEF ChangesRun, Changes, Same

\* A worker that writes for a run that is canceled writes nothing.
LEMMA CanceledKeeps ==
  ASSUME DInv, Good, NEW w \in Worker, Engaged(w), NEW q \in Run, q = RunOf(w), canceled[q],
         UNCHANGED queueVars, NEW at, NEW run, NEW s, NEW todo, Moved(w, at, run, s, todo),
         at \in Idle \/ (at \in Busy /\ run = q),
         worker[w].at \notin {"check", "apply"}
  PROVE  Good'
<1>1. CASE at \in Idle
  BY <1>1, LeavingKeeps
<1>2. CASE at \in Busy /\ run = q
  BY <1>2, MoveKeeps
<1>3. QED BY <1>1, <1>2

\* While a run has not passed its evaluation, it cannot be out of order.
LEMMA InOrderIf ==
  ASSUME NEW r \in Run, status'[r] # "ok", Passed(r, "evaluate")' => Ok(r, "worker")' /\ Passed(r, "synthesize")'
  PROVE  InOrder(r)'
BY DEF InOrder

LEMMA RetryStepKeeps == ASSUME DInv, Good, NEW w \in Worker, RetryStep(w) PROVE Good'
<1>1. At(w, "failed") /\ Engaged(w)
  BY DEF RetryStep, At, Engaged, Executing
<1>2. PICK r \in Run, s \in Leased : r = RunOf(w) /\ s = StepOf(w)
  BY <1>1, Known DEF At
<1>3. PICK again \in BOOLEAN : RetriesStep(w, r, s, again)
  BY <1>2, RetryStepIs
<1>4. PICK run : run = LoopRun(w, r)
  OBVIOUS
<1>5. /\ again => Moved(w, "loop", run, "worker", <<>>)
      /\ ~again => Moved(w, "write", r, s, IF s = "deliver" THEN DeliveryFailure ELSE Failure)
      /\ UNCHANGED canceled
      /\ again <=> ~canceled[r] /\ MayRetry(r, s)
  BY <1>3, <1>4 DEF RetriesStep
<1>6. CASE canceled[r]
  <2>1. ~again /\ UNCHANGED queueVars
    BY <1>3, <1>5, <1>6 DEF RetriesStep, queueVars
  <2>2. worker[w].at \notin {"check", "apply"} /\ "write" \in Busy
    BY <1>1 DEF At, Busy
  <2>3. PICK t : t = (IF s = "deliver" THEN DeliveryFailure ELSE Failure)
    OBVIOUS
  <2>4. QED BY <1>1, <1>2, <1>5, <1>6, <2>1, <2>2, <2>3, CanceledKeeps
<1>7. CASE ~canceled[r]
  <2>1. AtStep(r, s) /\ s # "synthesize" /\ s \in Step /\ s # "evaluate"
    <3>1. KnowsAt(r, worker[w].at, StepOf(w), worker[w].todo)
      BY <1>1, <1>2, <1>7, KnowsIs DEF Good
    <3>2. QED BY <1>1, <1>2, <3>1, StepNames DEF KnowsAt, At
  <2>2. PICK y \in StepRecord :
          /\ Changes(r, s, y) /\ y.attempt = step[r][s].attempt
          /\ y.status = IF again THEN "queued" ELSE "error"
    BY <1>3, <1>7 DEF RetriesStep
  <2>3. ChangesRun(r, IF again THEN "queued" ELSE "error")
    BY <1>3, <1>7 DEF RetriesStep
  <2>4. \A c \in Run : c # r => Same(c)
    <3>1. (\E st : ChangesRun(r, st)) /\ \E x \in Step, z \in StepRecord : Changes(r, x, z)
      BY <2>1, <2>2, <2>3
    <3>2. QED BY <1>5, <3>1, OthersAreSame
  <2>5. \A x \in Step : x # s => (Ok(r, x)' <=> Ok(r, x)) /\ (Passed(r, x)' <=> Passed(r, x))
    BY <2>2 DEF Changes, Ok, Passed
  <2>6. InOrder(r)'
    <3>1. Passed(r, "evaluate")' => Ok(r, "worker") /\ Passed(r, "synthesize") /\ s # "worker"
      <4>1. Passed(r, "evaluate")' => Ok(r, "worker") /\ Passed(r, "synthesize")
        BY <1>7, <2>1, <2>5, StepNames DEF Good, InOrder
      <4>2. s = "worker" => ~Ok(r, "worker")
        BY <2>1 DEF AtStep, Leasing, Ok
      <4>3. QED BY <4>1, <4>2
    <3>2. Passed(r, "evaluate")' => Ok(r, "worker")' /\ Passed(r, "synthesize")'
      BY <2>1, <2>5, <3>1, StepNames
    <3>3. status'[r] # "ok"
      BY <2>3 DEF ChangesRun
    <3>4. QED BY <3>2, <3>3, InOrderIf
  <2>7. CASE again
    BY <1>1, <1>2, <1>5, <2>4, <2>6, <2>7, OneKeeps DEF Idle
  <2>8. CASE ~again
    <3>1. NoMore(r, s)'
      <4>1. ~HasAttemptsLeft(r, s)
        BY <1>5, <1>7, <2>8 DEF MayRetry
      <4>2. QED BY <2>2, <2>8, <4>1 DEF Changes, NoMore, HasAttemptsLeft, BelowLimit
    <3>2. PICK t : t = (IF s = "deliver" THEN DeliveryFailure ELSE Failure)
      OBVIOUS
    <3>3. s = "worker" => WritesWorker(r, t)'
      BY <3>1, <3>2, FailureFails DEF WritesWorker
    <3>4. s = "deliver" => WritesDelivery(r, t)'
      <4>1. s = "deliver" => Ok(r, "worker")' /\ Passed(r, "synthesize")' /\ Passed(r, "evaluate")'
        BY <2>1, <2>5, StepNames DEF AtStep
      <4>2. QED BY <3>1, <3>2, <4>1 DEF WritesDelivery
    <3>5. KnowsAt(r, "write", s, t)'
      BY <2>1, <3>3, <3>4 DEF KnowsAt
    <3>6. Moved(w, "write", r, s, t)
      BY <1>5, <2>8, <3>2
    <3>7. Knows(w)'
      BY <3>5, <3>6, KnowsMoved
    <3>8. "write" \in Busy /\ worker[w].at \notin {"check", "apply"}
      BY <1>1 DEF At, Busy
    <3>9. QED BY <1>1, <1>2, <2>4, <2>6, <3>6, <3>7, <3>8, OneKeeps
  <2>9. QED BY <2>7, <2>8
<1>8. QED BY <1>6, <1>7

-----------------------------------------------------------------------------
(* A worker that writes.                                                   *)

LEMMA Tuples ==
  /\ \A a : Head(<<a>>) = a /\ Tail(<<a>>) = <<>> /\ <<a>> # <<>>
  /\ \A a, b : Head(<<a, b>>) = a /\ Tail(<<a, b>>) = <<b>>
  /\ \A a, b, c : Head(<<a, b, c>>) = a /\ Tail(<<a, b, c>>) = <<b, c>> /\ <<b, c>> # <<>>
OBVIOUS

LEMMA UpdateRows ==
  ASSUME DInv, NEW w \in Worker, NEW r \in Run, NEW u \in Updates, NEW rest \in Seq(Updates),
         Updated(w, r, u, rest), ~canceled[r]
  PROVE  /\ UNCHANGED canceled /\ u.step \in Step /\ u.op \in {"begin", "end", "close"}
         /\ \A c \in Run : c # r => Same(c)
         /\ \A x \in Step : u.op = "close" \/ x # u.step => step'[r][x] = step[r][x]
         /\ u.op = "begin" => step'[r][u.step].status = "running" /\ status'[r] = "running"
         /\ u.op = "end" => /\ step'[r][u.step].status = u.status /\ status'[r] = status[r]
                            /\ step'[r][u.step].attempt = step[r][u.step].attempt
         /\ u.op = "close" => status'[r] = u.status
<1>1. /\ UNCHANGED canceled /\ u.step \in Step /\ u.op \in {"begin", "end", "close"}
      /\ u.op = "begin" => ChangesRun(r, "running")
      /\ u.op = "end" => UNCHANGED status
      /\ u.op = "close" => ChangesRun(r, u.status) /\ UNCHANGED step
  BY DEF Updated
<1>2. ASSUME u.op # "close"
      PROVE  \E y \in StepRecord :
               /\ Changes(r, u.step, y)
               /\ u.op = "begin" => y = Held(step[r][u.step])
               /\ u.op = "end" => y.status = u.status /\ y.attempt = step[r][u.step].attempt
  BY <1>2 DEF Updated
<1>3. \A c \in Run : c # r => Same(c)
  <2>1. UNCHANGED status \/ \E st : ChangesRun(r, st)
    BY <1>1
  <2>2. UNCHANGED step \/ \E x \in Step, y \in StepRecord : Changes(r, x, y)
    BY <1>1, <1>2
  <2>3. QED BY <1>1, <2>1, <2>2, OthersAreSame
<1>4. \A x \in Step : u.op = "close" \/ x # u.step => step'[r][x] = step[r][x]
  BY <1>1, <1>2 DEF Changes
<1>5. u.op = "begin" => step'[r][u.step].status = "running" /\ status'[r] = "running"
  <2>1. SUFFICES ASSUME u.op = "begin"
                 PROVE  step'[r][u.step].status = "running" /\ status'[r] = "running"
    OBVIOUS
  <2>2. PICK s \in Step, c \in StepRecord : s = u.step /\ c = step[r][s]
    BY <1>1, Row
  <2>3. step'[r][s] = Held(c)
    BY <1>2, <2>1, <2>2 DEF Changes
  <2>4. QED BY <1>1, <2>1, <2>2, <2>3, StepIsHeld DEF ChangesRun
<1>6. u.op = "end" => /\ step'[r][u.step].status = u.status /\ status'[r] = status[r]
                      /\ step'[r][u.step].attempt = step[r][u.step].attempt
  BY <1>1, <1>2 DEF Changes
<1>7. u.op = "close" => status'[r] = u.status
  BY <1>1 DEF ChangesRun
<1>8. QED BY <1>1, <1>3, <1>4, <1>5, <1>6, <1>7

LEMMA UpdateGoes ==
  ASSUME DInv, Good, NEW w \in Worker, NEW r \in Run, NEW s \in Leased, NEW u \in Updates,
         NEW rest \in Seq(Updates), s = StepOf(w), Updated(w, r, u, rest), ~canceled[r],
         InOrder(r)', rest # <<>> => KnowsAt(r, "write", s, rest)',
         rest = <<>> /\ u.op = "close" => NothingLeft(r)'
  PROVE  Good'
<1>1. At(w, "write") /\ Engaged(w) /\ r = RunOf(w) /\ worker[w].at \notin {"check", "apply"}
  BY DEF Updated, At, Engaged, Executing
<1>2. \A c \in Run : c # r => Same(c)
  BY UpdateRows
<1>3. CASE rest # <<>>
  <2>1. Moved(w, "write", r, s, rest)
    BY <1>3 DEF Updated
  <2>2. Knows(w)'
    BY <1>3, <2>1, KnowsMoved
  <2>3. QED BY <1>1, <1>2, <2>1, <2>2, OneKeeps DEF Busy
<1>4. CASE rest = <<>> /\ u.op = "close"
  <2>1. Moved(w, "check", r, "worker", <<>>)
    BY <1>4 DEF Updated
  <2>2. KnowsAt(r, "check", "worker", <<>>)'
    BY <1>4 DEF KnowsAt
  <2>3. Knows(w)'
    BY <2>1, <2>2, KnowsMoved
  <2>4. QED BY <1>1, <1>2, <2>1, <2>3, OneKeeps DEF Busy
<1>5. CASE rest = <<>> /\ u.op # "close"
  <2>1. PICK run : run = LoopRun(w, r)
    OBVIOUS
  <2>2. Moved(w, "loop", run, "worker", <<>>)
    BY <1>5, <2>1 DEF Updated
  <2>3. QED BY <1>1, <1>2, <2>2, OneKeeps DEF Idle
<1>6. QED BY <1>3, <1>4, <1>5

\* What holds of a step whose record stays.
LEMMA StepStays ==
  ASSUME NEW r, NEW x, step'[r][x] = step[r][x]
  PROVE  /\ Leasing(r, x)' <=> Leasing(r, x)
         /\ Ok(r, x)' <=> Ok(r, x)
         /\ Passed(r, x)' <=> Passed(r, x)
         /\ NoMore(r, x)' <=> NoMore(r, x)
         /\ Startable(r, x)' <=> Startable(r, x)
BY DEF Leasing, Ok, Passed, NoMore, Startable, Resumable, IsExpired, HasAttemptsLeft, BelowLimit

\* A run nobody has to go on with.
LEMMA NothingLeftIf ==
  ASSUME DInv, NEW r \in Run,
         \/ Leasing(r, "worker") \/ NoMore(r, "worker")
         \/ /\ Ok(r, "worker") /\ Passed(r, "synthesize")
            /\ Leasing(r, "deliver") \/ NoMore(r, "deliver") \/ Passed(r, "deliver")
  PROVE  NothingLeft(r)
<1>1. SUFFICES ASSUME NEW s \in Leased, Startable(r, s)
               PROVE  s # "worker" /\ ~Ok(r, "worker")
  BY DEF NothingLeft
<1>2. \A x \in Step : /\ Ok(r, x) => Passed(r, x)
                      /\ Passed(r, x) => ~Startable(r, x)
                      /\ Leasing(r, x) => ~Startable(r, x) /\ ~Passed(r, x)
                      /\ NoMore(r, x) => ~Startable(r, x) /\ ~Passed(r, x)
  BY PassedIsOver
<1>3. QED BY <1>1, <1>2, StepNames, StepIsOne
LEMMA NothingLeftStays ==
  ASSUME NEW r, \A x \in Step : step'[r][x] = step[r][x], NothingLeft(r) PROVE NothingLeft(r)'
<1>1. \A x \in Step : /\ Ok(r, x)' <=> Ok(r, x)
                      /\ Passed(r, x)' <=> Passed(r, x)
                      /\ Startable(r, x)' <=> Startable(r, x)
  BY StepStays
<1>2. QED BY <1>1, StepNames DEF NothingLeft

\* What is left to write when a list of failures goes on.
LEMMA FailsOn ==
  ASSUME NEW t \in Seq(Updates), t # <<>>, Fails(t)
  PROVE  /\ Head(t).step # "worker" /\ Head(t).status # "ok"
         /\ Head(t).step = "evaluate" => Head(t).status # "skipped"
         /\ Tail(t) = <<>> => Head(t).op = "close"
         /\ Fails(Tail(t))
<1>1. PICK n \in Nat, z \in Seq(Updates) : n = Len(t) /\ z = Tail(t)
  <2>1. Len(t) \in Nat
    OBVIOUS
  <2>2. Tail(t) \in Seq(Updates)
    BY HeadTailProperties
  <2>3. QED BY <2>1, <2>2
<1>2. /\ n >= 1 /\ Head(t) = t[1]
      /\ Len(z) = n - 1 /\ \A i \in 1..(n - 1) : z[i] = t[i + 1]
  <2>1. n >= 1 /\ Head(t) = t[1]
    BY <1>1
  <2>2. QED BY <1>1, <2>1, HeadTailProperties
<1>3. \A i \in 1..n : /\ t[i].step # "worker" /\ t[i].status # "ok"
                      /\ t[i].step = "evaluate" => t[i].status # "skipped"
                      /\ i = n => t[i].op = "close"
  BY <1>1 DEF Fails
<1>4. ASSUME NEW i \in 1..(n - 1)
      PROVE  /\ z[i].step # "worker" /\ z[i].status # "ok"
             /\ z[i].step = "evaluate" => z[i].status # "skipped"
             /\ i = n - 1 => z[i].op = "close"
  <2>1. PICK j \in 1..n : j = i + 1
    BY <1>2
  <2>2. z[i] = t[j] /\ (i = n - 1 => j = n)
    BY <1>2, <2>1
  <2>3. QED BY <1>3, <2>2
<1>5. Fails(z)
  BY <1>2, <1>4 DEF Fails
<1>6. z = <<>> => n = 1
  BY <1>2
<1>7. 1 \in 1..n
  BY <1>2
<1>8. QED BY <1>1, <1>2, <1>3, <1>5, <1>6, <1>7

LEMMA FailureGoes ==
  ASSUME DInv, Good, NEW w \in Worker, NEW r \in Run, NEW u \in Updates, NEW rest \in Seq(Updates),
         StepOf(w) = "worker", Updated(w, r, u, rest), ~canceled[r], status[r] # "ok",
         Leasing(r, "worker") \/ NoMore(r, "worker"), Fails(worker[w].todo)
  PROVE  Good'
<1>1. /\ u.step # "worker" /\ u.status # "ok" /\ (u.step = "evaluate" => u.status # "skipped")
      /\ (rest = <<>> => u.op = "close") /\ Fails(rest)
  <2>1. PICK t \in Seq(Updates) : t = worker[w].todo /\ t # <<>> /\ u = Head(t) /\ rest = Tail(t)
    BY Known DEF Updated
  <2>2. QED BY <2>1, FailsOn
<1>2. /\ u.step \in Step /\ u.op \in {"begin", "end", "close"}
      /\ \A x \in Step : u.op = "close" \/ x # u.step => step'[r][x] = step[r][x]
      /\ u.op = "begin" => step'[r][u.step].status = "running" /\ status'[r] = "running"
      /\ u.op = "end" => step'[r][u.step].status = u.status /\ status'[r] = status[r]
      /\ u.op = "close" => status'[r] = u.status
  BY UpdateRows
<1>3. u.op = "end" => u.status \in {"error", "skipped"}
  BY <1>1, UpdatesTyped
<1>4. step'[r]["worker"] = step[r]["worker"]
  BY <1>1, <1>2, StepNames
<1>5. ~Passed(r, "evaluate")
  <2>1. ~Ok(r, "worker")
    BY DEF Leasing, NoMore, Ok
  <2>2. QED BY <2>1 DEF Good, InOrder
<1>6. ~Passed(r, "evaluate")'
  <2>1. CASE u.step = "evaluate" /\ u.op # "close"
    BY <1>1, <1>2, <1>3, <2>1 DEF Passed
  <2>2. CASE u.step # "evaluate" \/ u.op = "close"
    BY <1>2, <1>5, <2>2, StepNames DEF Passed
  <2>3. QED BY <2>1, <2>2
<1>7. status'[r] # "ok"
  BY <1>1, <1>2
<1>8. InOrder(r)'
  BY <1>6, <1>7, InOrderIf
<1>9. Leasing(r, "worker")' \/ NoMore(r, "worker")'
  BY <1>4, StepStays
<1>10. KnowsAt(r, "write", "worker", rest)'
  <2>1. WritesWorker(r, rest)'
    BY <1>1, <1>9 DEF WritesWorker
  <2>2. QED BY <2>1 DEF KnowsAt
<1>11. u.op = "close" => NothingLeft(r)'
  <2>1. NothingLeft(r)
    BY NothingLeftIf
  <2>2. QED BY <1>2, <2>1, NothingLeftStays
<1>12. "worker" \in Leased
  BY StepNames
<1>13. QED BY <1>8, <1>10, <1>11, <1>12, UpdateGoes

\* The result of the agent or of the synthesis.
LEMMA ResultGoes ==
  ASSUME DInv, Good, NEW w \in Worker, NEW r \in Run, NEW s \in Leased, NEW u \in Updates,
         NEW rest \in Seq(Updates), s = StepOf(w), Updated(w, r, u, rest), ~canceled[r],
         status[r] # "ok", u.op # "close",
         Passed(r, "evaluate")' => Ok(r, "worker")' /\ Passed(r, "synthesize")',
         rest # <<>> => KnowsAt(r, "write", s, rest)'
  PROVE  Good'
<1>1. status'[r] # "ok"
  BY UpdateRows
<1>2. InOrder(r)'
  BY <1>1, InOrderIf
<1>3. QED BY <1>2, UpdateGoes

LEMMA WorkerGoes ==
  ASSUME DInv, Good, NEW w \in Worker, NEW r \in Run, NEW u \in Updates, NEW rest \in Seq(Updates),
         StepOf(w) = "worker", Updated(w, r, u, rest), ~canceled[r], status[r] # "ok",
         WritesWorker(r, worker[w].todo)
  PROVE  Good'
<1>1. CASE Fails(worker[w].todo)
  BY <1>1, FailureGoes DEF WritesWorker
<1>2. CASE \E res \in {"ok", "error"} : worker[w].todo = <<Report("worker", res)>>
  <2>1. PICK res \in {"ok", "error"} : worker[w].todo = <<Report("worker", res)>>
    BY <1>2
  <2>2. u = Report("worker", res) /\ rest = <<>>
    BY <2>1, Tuples DEF Updated
  <2>3. u.op = "end" /\ u.step = "worker" /\ u.status = "ok"
    BY <2>2 DEF Report
  <2>4. /\ \A x \in Step : x # "worker" => step'[r][x] = step[r][x]
        /\ step'[r]["worker"].status = "ok"
    BY <2>3, UpdateRows
  <2>5. Passed(r, "evaluate")' => Ok(r, "worker")' /\ Passed(r, "synthesize")'
    BY <2>4, StepNames DEF Good, InOrder, Passed, Ok
  <2>6. "worker" \in Leased /\ u.op # "close"
    BY <2>3, StepNames
  <2>7. QED BY <2>2, <2>5, <2>6, ResultGoes
<1>3. QED BY <1>1, <1>2 DEF WritesWorker

LEMMA SynthesisGoes ==
  ASSUME DInv, Good, NEW w \in Worker, NEW r \in Run, NEW u \in Updates, NEW rest \in Seq(Updates),
         StepOf(w) = "synthesize", Updated(w, r, u, rest), ~canceled[r], status[r] # "ok",
         WritesSynthesis(r, worker[w].todo)
  PROVE  Good'
<1>1. Ok(r, "worker") /\ ~Passed(r, "evaluate") /\ "synthesize" \in Leased
  BY StepNames DEF WritesSynthesis
<1>2. u = Head(worker[w].todo) /\ rest = Tail(worker[w].todo)
  BY DEF Updated
<1>3. CASE \E res \in {"ok", "error"} :
             worker[w].todo = <<Report("synthesize", res), Begin("evaluate"), End("evaluate", "ok")>>
  <2>1. PICK res \in {"ok", "error"} :
          worker[w].todo = <<Report("synthesize", res), Begin("evaluate"), End("evaluate", "ok")>>
    BY <1>3
  <2>2. u = Report("synthesize", res) /\ rest = <<Begin("evaluate"), End("evaluate", "ok")>>
    BY <1>2, <2>1, Tuples
  <2>3. u.op = "end" /\ u.step = "synthesize" /\ u.status = "ok"
    BY <2>2 DEF Report
  <2>4. /\ \A x \in Step : x # "synthesize" => step'[r][x] = step[r][x]
        /\ step'[r]["synthesize"].status = "ok"
    BY <2>3, UpdateRows
  <2>5. Ok(r, "worker")' /\ ~Passed(r, "evaluate")' /\ Passed(r, "synthesize")'
    BY <1>1, <2>4, StepNames DEF Passed, Ok
  <2>6. KnowsAt(r, "write", "synthesize", rest)'
    BY <2>2, <2>5 DEF KnowsAt, WritesSynthesis
  <2>7. u.op # "close"
    BY <2>3
  <2>8. QED BY <1>1, <2>5, <2>6, <2>7, ResultGoes
<1>4. CASE worker[w].todo = <<Begin("evaluate"), End("evaluate", "ok")>> /\ Passed(r, "synthesize")
  <2>1. u = Begin("evaluate") /\ rest = <<End("evaluate", "ok")>>
    BY <1>2, <1>4, Tuples
  <2>2. u.op = "begin" /\ u.step = "evaluate"
    BY <2>1 DEF Begin
  <2>3. /\ \A x \in Step : x # "evaluate" => step'[r][x] = step[r][x]
        /\ step'[r]["evaluate"].status = "running"
    BY <2>2, UpdateRows
  <2>4. Ok(r, "worker")' /\ ~Passed(r, "evaluate")' /\ Passed(r, "synthesize")'
    BY <1>1, <1>4, <2>3, StepNames DEF Passed, Ok
  <2>5. KnowsAt(r, "write", "synthesize", rest)'
    BY <2>1, <2>4 DEF KnowsAt, WritesSynthesis
  <2>6. u.op # "close"
    BY <2>2
  <2>7. QED BY <1>1, <2>4, <2>5, <2>6, ResultGoes
<1>5. CASE worker[w].todo = <<End("evaluate", "ok")>> /\ Passed(r, "synthesize")
  <2>1. u = End("evaluate", "ok") /\ rest = <<>>
    BY <1>2, <1>5, Tuples
  <2>2. u.op = "end" /\ u.step = "evaluate"
    BY <2>1 DEF End
  <2>3. \A x \in Step : x # "evaluate" => step'[r][x] = step[r][x]
    BY <2>2, UpdateRows
  <2>4. Ok(r, "worker")' /\ Passed(r, "synthesize")'
    BY <1>1, <1>5, <2>3, StepNames DEF Passed, Ok
  <2>5. u.op # "close"
    BY <2>2
  <2>6. QED BY <1>1, <2>1, <2>4, <2>5, ResultGoes
<1>6. QED BY <1>3, <1>4, <1>5 DEF WritesSynthesis

LEMMA DeliveryGoes ==
  ASSUME DInv, Good, NEW w \in Worker, NEW r \in Run, NEW u \in Updates, NEW rest \in Seq(Updates),
         r = RunOf(w), Engaged(w), StepOf(w) = "deliver", Updated(w, r, u, rest), ~canceled[r],
         status[r] # "ok", WritesDelivery(r, worker[w].todo)
  PROVE  Good'
<1>1. Ok(r, "worker") /\ Passed(r, "synthesize") /\ Passed(r, "evaluate") /\ "deliver" \in Leased
  BY StepNames DEF WritesDelivery
<1>2. u = Head(worker[w].todo) /\ rest = Tail(worker[w].todo)
  BY DEF Updated
<1>3. ASSUME NEW st, NEW res \in {"ok", "error"}, worker[w].todo = <<End("deliver", st), Close(res)>>,
             st \in {"ok", "skipped"} \/ (st = "error" /\ NoMore(r, "deliver"))
      PROVE  Good'
  <2>1. u = End("deliver", st) /\ rest = <<Close(res)>>
    BY <1>2, <1>3, Tuples
  <2>2. u.op = "end" /\ u.step = "deliver" /\ u.status = st
    BY <2>1 DEF End
  <2>3. /\ \A x \in Step : x # "deliver" => step'[r][x] = step[r][x]
        /\ step'[r]["deliver"].status = st /\ step'[r]["deliver"].attempt = step[r]["deliver"].attempt
    BY <2>2, UpdateRows
  <2>4. Ok(r, "worker")' /\ Passed(r, "synthesize")' /\ Passed(r, "evaluate")'
    BY <1>1, <2>3, StepNames DEF Passed, Ok
  <2>5. Passed(r, "deliver")' \/ NoMore(r, "deliver")'
    BY <1>3, <2>3 DEF Passed, NoMore, HasAttemptsLeft, BelowLimit
  <2>6. WritesDelivery(r, rest)'
    BY <2>1, <2>4, <2>5 DEF WritesDelivery
  <2>7. KnowsAt(r, "write", "deliver", rest)'
    BY <2>6 DEF KnowsAt
  <2>8. u.op # "close"
    BY <2>2
  <2>9. QED BY <1>1, <2>4, <2>7, <2>8, ResultGoes
<1>4. ASSUME NEW res \in {"ok", "error"}, worker[w].todo = <<Close(res)>>,
             NoMore(r, "deliver") \/ Passed(r, "deliver")
      PROVE  Good'
  <2>1. u = Close(res) /\ rest = <<>>
    BY <1>2, <1>4, Tuples
  <2>2. u.op = "close" /\ u.status = res
    BY <2>1 DEF Close
  <2>3. \A x \in Step : step'[r][x] = step[r][x]
    BY <2>2, UpdateRows
  <2>4. NothingLeft(r)'
    <3>1. NothingLeft(r)
      BY <1>1, <1>4, NothingLeftIf
    <3>2. QED BY <2>3, <3>1, NothingLeftStays
  <2>5. InOrder(r)'
    <3>1. Ok(r, "worker")' /\ Passed(r, "synthesize")'
      BY <1>1, <2>3, StepNames DEF Passed, Ok
    <3>2. Ended(r)'
      <4>1. \A s \in Step : step[r][s].status # "running"
        BY <1>1, <1>4 DEF Step, Leased, Passed, Ok, NoMore
      <4>2. QED BY <2>3, <4>1 DEF Ended
    <3>3. ASSUME NEW v \in Worker, Engaged(v)', RunOf(v)' = r PROVE worker'[v].at \in {"check", "apply"}
      <4>1. Moved(w, "check", r, "worker", <<>>)
        BY <2>1, <2>2 DEF Updated
      <4>2. CASE v = w
        BY <4>1, <4>2 DEF Moved
      <4>3. CASE v # w
        <5>1. worker'[v] = worker[v] /\ Engaged(v) /\ RunOf(v) = r
          BY <3>3, <4>1, <4>3, EngagedIsBusy DEF Moved, RunOf
        <5>2. QED BY <4>3, <5>1 DEF Good, Alone
      <4>4. QED BY <4>2, <4>3
    <3>4. QED BY <3>1, <3>2, <3>3 DEF InOrder
  <2>6. QED BY <1>1, <2>1, <2>4, <2>5, UpdateGoes
<1>5. DeliveryFailure = <<End("deliver", "error"), Close("error")>>
  BY DEF DeliveryFailure
<1>6. QED BY <1>3, <1>4, <1>5 DEF WritesDelivery

LEMMA UpdateKeeps == ASSUME DInv, Good, NEW w \in Worker, Update(w) PROVE Good'
<1>1. At(w, "write") /\ Engaged(w) /\ worker[w].at \notin {"check", "apply"}
  BY DEF Update, At, Engaged, Executing
<1>2. PICK r \in Run, s \in Leased : r = RunOf(w) /\ s = StepOf(w)
  BY <1>1, Known DEF At
<1>3. PICK u \in Updates, rest \in Seq(Updates) : Updated(w, r, u, rest)
  BY <1>2, UpdateIs
<1>4. CASE canceled[r]
  <2>1. UNCHANGED queueVars
    BY <1>3, <1>4 DEF Updated, queueVars
  <2>2. PICK run : run = LoopRun(w, r)
    OBVIOUS
  <2>3. \/ Moved(w, "write", r, s, rest) \/ Moved(w, "check", r, "worker", <<>>)
        \/ Moved(w, "loop", run, "worker", <<>>)
    BY <1>2, <1>3, <2>2 DEF Updated
  <2>4. "write" \in Busy /\ "check" \in Busy /\ "loop" \in Idle
    BY DEF Busy, Idle
  <2>5. QED BY <1>1, <1>2, <1>4, <2>1, <2>3, <2>4, CanceledKeeps
<1>5. CASE ~canceled[r]
  <2>1. status[r] # "ok"
    BY <1>1, <1>2, <1>5 DEF Good, InOrder
  <2>2. KnowsAt(r, worker[w].at, StepOf(w), worker[w].todo)
    BY <1>1, <1>2, <1>5, KnowsIs DEF Good
  <2>3. /\ StepOf(w) = "worker" => WritesWorker(r, worker[w].todo)
        /\ StepOf(w) = "synthesize" => WritesSynthesis(r, worker[w].todo)
        /\ StepOf(w) = "deliver" => WritesDelivery(r, worker[w].todo)
    BY <1>1, <2>2 DEF KnowsAt, At
  <2>4. QED
    BY <1>1, <1>2, <1>3, <1>5, <2>1, <2>3, StepIsOne, WorkerGoes, SynthesisGoes, DeliveryGoes
<1>6. QED BY <1>4, <1>5

-----------------------------------------------------------------------------
(* The others, and the order as a whole.                                   *)

LEMMA NextRecords == ASSUME [Next]_vars PROVE Recording
<1>1. CASE UNCHANGED vars \/ JobLeaseExpires \/ Tick \/ \E w \in Outside : Poll(w)
  BY <1>1 DEF vars, history, JobLeaseExpires, Tick, Poll, Recording
<1>2. CASE \E w \in Worker : Proceed(w)
  <2>1. PICK w \in Worker : Proceed(w)
    BY <1>2
  <2>2. UNCHANGED incidents \/ Record("failure")
    BY <2>1
    DEF Proceed, Lease, LeaseNothing, Prepare, Synthesize, AgentReturns, AgentThrows, AgentIsAborted,
        SkipDelivery, Deliver, DeliveryIsBlocked, DeliveryFails, RetryStep, Update, CheckCanceled,
        ApplyOutcome, history
  <2>3. QED BY <2>2 DEF Recording, Incidents
<1>3. CASE \E w \in Worker : Reserve(w)
  BY <1>3 DEF Reserve, history, Recording
<1>4. CASE \E c \in Callers : RetryRun(c) \/ Mark(c) \/ Discard(c)
  BY <1>4 DEF RetryRun, Mark, Discard, history, Recording
<1>5. CASE \E c \in Callers, r \in Run : Cancel(c, r) \/ AskRetry(c, r) \/ ClearStale(c, r)
  BY <1>5 DEF Cancel, AskRetry, ClearStale, Recording, Incidents
<1>6. CASE TickMaintains \/ ReadMaintains \/ OperatorChangesJob
  BY <1>6 DEF TickMaintains, ReadMaintains, Maintain, OperatorChangesJob, ChangeJob, EditJobs, Loses,
     history, Recording, Incidents
<1>7. CASE \E w \in Outside : OutsideDies(w)
  BY <1>7 DEF OutsideDies, Recording, Incidents
<1>8. CASE \E r \in Run, s \in Step : StepLeaseExpires(r, s) \/ RetryDelayPasses(r, s)
  BY <1>8 DEF StepLeaseExpires, RetryDelayPasses, history, Recording, Incidents
<1>9. CASE GatewayRestarts
  BY <1>9 DEF GatewayRestarts, Recording, Incidents
<1>10. QED BY <1>1, <1>2, <1>3, <1>4, <1>5, <1>6, <1>7, <1>8, <1>9, Steps

\* What has happened stays so.
LEMMA Remembered ==
  ASSUME DInv, [Next]_vars
  PROVE  /\ \A i \in Incidents : Happened(i) => Happened(i)'
         /\ \A i \in Incidents : Record(i) => Happened(i)'
<1>1. incidents \in [Incidents -> Nat]
  BY DEF DInv, JTyped
<1>2. \A i \in Incidents : incidents[i] \in Nat
  BY <1>1
<1>3. CASE UNCHANGED incidents
  BY <1>1, <1>2, <1>3 DEF Happened, Record
<1>4. ASSUME NEW j \in Incidents, Record(j)
      PROVE  \A i \in Incidents : /\ Happened(i) => Happened(i)'
                                  /\ incidents'[i] = incidents[i] \/ (i = j /\ Happened(i)')
  BY <1>1, <1>2, <1>4, Recorded DEF Happened
<1>5. \A i \in Incidents : Record(i) => Happened(i)'
  <2>1. ASSUME NEW i \in Incidents, Record(i) PROVE Happened(i)'
    <3>1. incidents'[i] = incidents[i] + 1
      BY <1>1, <2>1, Recorded
    <3>2. QED BY <1>2, <3>1 DEF Happened
  <2>2. QED BY <2>1
<1>6. \A i \in Incidents : Happened(i) => Happened(i)'
  BY <1>3, <1>4, NextRecords DEF Recording, Happened
<1>7. QED BY <1>5, <1>6

LEMMA OrderlyBefore == ASSUME DInv, [Next]_vars, Orderly' PROVE Orderly
<1>1. "overrun" \in Incidents /\ "retry" \in Incidents
  BY DEF Incidents
<1>2. QED BY <1>1, Remembered DEF Orderly, Quiet

\* Calls, ticks and time leave who is at a step where it is, and the controls of an
\* operator are recorded.
Accounted(v, at) ==
  /\ at = "discard" => Record("cancel")
  /\ at = "mark" => Record("clear") \/ At(v, "retry")
  /\ at = "retry" => Record("retry")
StayIdle(v) ==
  \/ worker'[v] = worker[v]
  \/ worker[v].at \in Idle /\ worker'[v].at \in Idle /\ Accounted(v, worker'[v].at)
LEMMA MovedIsIdle ==
  ASSUME NEW w \in Worker, worker[w].at \in Idle, NEW at \in Idle, NEW run, NEW s, NEW todo,
         Moved(w, at, run, s, todo), Accounted(w, at)
  PROVE  \A v \in Worker : StayIdle(v)
BY DEF Moved, StayIdle

Aside ==
  \/ UNCHANGED vars
  \/ \E w \in Worker : /\ Reserve(w) /\ w \in Gateway
                      /\ worker[w].at \in {"rest", "due"} /\ 0 \in {active, cached}
  \/ \E c \in Callers : RetryRun(c) \/ Mark(c) \/ Discard(c)
  \/ \E c \in Callers, r \in Run : Cancel(c, r) \/ AskRetry(c, r) \/ ClearStale(c, r)
  \/ Tick \/ \E w \in Outside : Poll(w)
  \/ TickMaintains \/ ReadMaintains \/ OperatorChangesJob
  \/ \E r \in Run, s \in Step : StepLeaseExpires(r, s) \/ RetryDelayPasses(r, s)
  \/ JobLeaseExpires

LEMMA AsideMoves == ASSUME DInv, Aside PROVE \A v \in Worker : StayIdle(v)
<1>1. CASE UNCHANGED worker
  BY <1>1 DEF StayIdle
<1>2. ASSUME NEW w \in Worker, NEW r \in Run, NEW at \in Idle \cap Stages, worker[w].at \in Idle,
             Accounted(w, at),
             worker' = [worker EXCEPT ![w] = [Resting EXCEPT !.at = at, !.run = r]]
      PROVE  \A v \in Worker : StayIdle(v)
  <2>1. Moved(w, at, r, "worker", <<>>)
    BY <1>2, Known, StartMoves, Numbers
  <2>2. QED BY <1>2, <2>1, MovedIsIdle
<1>3. ASSUME NEW w \in Worker, worker[w].at \in Idle, Rest(w) PROVE \A v \in Worker : StayIdle(v)
  <2>1. Moved(w, "rest", 0, "worker", <<>>) /\ "rest" \in Idle /\ Accounted(w, "rest")
    BY <1>3, Known, RestMoves DEF Idle, Accounted
  <2>2. QED BY <1>3, <2>1, MovedIsIdle
<1>4. ASSUME NEW w \in Worker, NEW at \in Idle \cap Stages, worker[w].at \in Idle, Go(w, at),
             Accounted(w, at)
      PROVE  \A v \in Worker : StayIdle(v)
  <2>1. PICK run, s, t : run = RunOf(w) /\ s = StepOf(w) /\ t = worker[w].todo
    OBVIOUS
  <2>2. Moved(w, at, run, s, t)
    BY <1>4, <2>1, Known, GoMoves
  <2>3. QED BY <1>4, <2>2, MovedIsIdle
<1>5. /\ {"rest", "due", "loop", "retry", "mark", "discard"} \subseteq Idle \cap Stages
      /\ \A v : Accounted(v, "due") /\ Accounted(v, "loop")
  BY DEF Idle, Stages, Accounted
<1>6. CASE \E w \in Worker : Reserve(w) /\ w \in Gateway /\ worker[w].at \in {"rest", "due"}
  <2>1. PICK w \in Worker : Reserve(w) /\ worker[w].at \in {"rest", "due"}
    BY <1>6
  <2>2. PICK r \in Run : r = NextRun
    BY <2>1, NextRunIsNew DEF Reserve
  <2>3. worker' = [worker EXCEPT ![w] = [Resting EXCEPT !.at = "loop", !.run = r]]
    BY <2>1, <2>2 DEF Reserve
  <2>4. QED BY <1>2, <1>5, <2>1, <2>3
<1>7. CASE \E c \in Callers : RetryRun(c) \/ Mark(c) \/ Discard(c)
  <2>1. PICK c \in Worker : RetryRun(c) \/ Mark(c) \/ Discard(c)
    BY <1>7 DEF Worker
  <2>2. worker[c].at \in Idle
    BY <2>1 DEF RetryRun, Mark, Discard, At, Idle
  <2>3. Rest(c) \/ (Go(c, "mark") /\ Accounted(c, "mark")) \/ Go(c, "loop")
    BY <2>1 DEF RetryRun, Mark, Discard, Accounted
  <2>4. QED BY <1>3, <1>4, <1>5, <2>2, <2>3
<1>8. CASE \E c \in Callers, r \in Run : Cancel(c, r) \/ AskRetry(c, r) \/ ClearStale(c, r)
  <2>1. PICK c \in Worker, r \in Run : Cancel(c, r) \/ AskRetry(c, r) \/ ClearStale(c, r)
    BY <1>8 DEF Worker
  <2>2. worker[c].at \in Idle
    BY <2>1 DEF Cancel, AskRetry, ClearStale, At, Idle
  <2>3. \E at \in {"discard", "retry", "mark"} :
          worker' = [worker EXCEPT ![c] = [Resting EXCEPT !.at = at, !.run = r]] /\ Accounted(c, at)
    BY <2>1 DEF Cancel, AskRetry, ClearStale, Accounted
  <2>4. QED BY <1>2, <1>5, <2>2, <2>3
<1>9. CASE Tick \/ \E w \in Outside : Poll(w)
  <2>1. PICK w \in Worker, at \in {"due", "loop"} : At(w, "rest") /\ Go(w, at)
    BY <1>9 DEF Tick, Poll, Worker
  <2>2. QED BY <1>4, <1>5, <2>1 DEF At, Idle
<1>10. CASE TickMaintains
  <2>1. Timer \in Worker /\ worker[Timer].at \in Idle /\ Rest(Timer)
    BY <1>10 DEF TickMaintains, Worker, At, Idle
  <2>2. QED BY <1>3, <2>1
<1>11. CASE \/ UNCHANGED vars \/ ReadMaintains \/ OperatorChangesJob \/ JobLeaseExpires
            \/ \E r \in Run, s \in Step : StepLeaseExpires(r, s) \/ RetryDelayPasses(r, s)
  <2>1. UNCHANGED worker
    BY <1>11 DEF vars, ReadMaintains, OperatorChangesJob, ChangeJob, EditJobs, JobLeaseExpires,
       StepLeaseExpires, RetryDelayPasses
  <2>2. QED BY <1>1, <2>1
<1>12. QED BY <1>6, <1>7, <1>8, <1>9, <1>10, <1>11 DEF Aside

LEMMA StepsAside ==
  ASSUME [Next]_vars
  PROVE  \/ \E w \in Worker : Proceed(w)
         \/ Aside
         \/ \E w \in Outside : OutsideDies(w)
         \/ GatewayRestarts
BY Steps DEF Aside

\* Who dies, or is started again, is at rest.
LEMMA DeadMove ==
  ASSUME DInv, (\E w \in Outside : OutsideDies(w)) \/ GatewayRestarts
  PROVE  \A v \in Worker : worker'[v] = worker[v] \/ worker'[v] = Resting
<1>1. \A w \in Worker : worker \in [Worker -> WorkerRecord]
  BY Known
<1>2. CASE GatewayRestarts
  BY <1>2 DEF GatewayRestarts
<1>3. CASE \E w \in Outside : OutsideDies(w)
  BY <1>1, <1>3 DEF OutsideDies, Rest, Worker
<1>4. QED BY <1>2, <1>3

\* A worker that proceeds comes to no control of an operator.
LEMMA ProceedMoves ==
  ASSUME DInv, NEW w \in Worker, Proceed(w)
  PROVE  /\ \A v \in Worker : v # w => worker'[v] = worker[v]
         /\ worker'[w].at \in Busy \cup {"rest", "loop"}
<1>1. worker \in [Worker -> WorkerRecord] /\ worker[w] \in WorkerRecord
  BY Known
<1>2. ASSUME NEW at \in Busy \cup {"rest", "loop"}, NEW run, NEW s, NEW todo, Moved(w, at, run, s, todo)
      PROVE  /\ \A v \in Worker : v # w => worker'[v] = worker[v]
             /\ worker'[w].at \in Busy \cup {"rest", "loop"}
  BY <1>2 DEF Moved
<1>3. {"leased", "exec", "failed", "write", "check", "apply", "rest", "loop"}
        \subseteq Stages \cap (Busy \cup {"rest", "loop"})
  BY DEF Stages, Busy
<1>4. ASSUME NEW at \in {"exec", "failed", "apply"}, Go(w, at)
      PROVE  /\ \A v \in Worker : v # w => worker'[v] = worker[v]
             /\ worker'[w].at \in Busy \cup {"rest", "loop"}
  <2>1. PICK run, s, t : run = RunOf(w) /\ s = StepOf(w) /\ t = worker[w].todo
    OBVIOUS
  <2>2. Moved(w, at, run, s, t)
    BY <1>1, <1>3, <1>4, <2>1, GoMoves
  <2>3. QED BY <1>2, <1>3, <1>4, <2>2
<1>5. CASE Rest(w)
  <2>1. Moved(w, "rest", 0, "worker", <<>>)
    BY <1>1, <1>5, RestMoves
  <2>2. QED BY <1>2, <2>1
<1>6. CASE \E t : Write(w, t)
  <2>1. PICK t : worker' = [worker EXCEPT ![w].at = "write", ![w].todo = t]
    BY <1>6 DEF Write
  <2>2. PICK c \in WorkerRecord : c = worker[w]
    BY <1>1
  <2>3. worker'[w] = [c EXCEPT !.at = "write", !.todo = t] /\ \A v \in Worker : v # w => worker'[v] = worker[v]
    BY <1>1, <2>1, <2>2
  <2>4. worker'[w].at = "write"
    BY <2>3 DEF WorkerRecord
  <2>5. QED BY <1>3, <2>3, <2>4
<1>7. CASE Lease(w)
  <2>1. PICK r \in Run, s \in Leased : Leases(w, r, s)
    BY <1>7, LeaseIs
  <2>2. PICK t : t = worker[w].todo
    OBVIOUS
  <2>3. Moved(w, "leased", r, s, t)
    BY <2>1, <2>2 DEF Leases
  <2>4. QED BY <1>2, <1>3, <2>3
<1>8. CASE Prepare(w)
  <2>1. CASE Loop(w)
    <3>1. PICK run : run = LoopRun(w, RunOf(w))
      OBVIOUS
    <3>2. RunOf(w) \in Run
      BY <1>8, Known DEF Prepare, At
    <3>3. Moved(w, "loop", run, "worker", <<>>)
      BY <1>1, <2>1, <3>1, <3>2, LoopMoves DEF Loop
    <3>4. QED BY <1>2, <3>3
  <2>2. QED BY <1>4, <1>8, <2>1 DEF Prepare
<1>9. CASE RetryStep(w)
  <2>1. PICK r, s, run : r = RunOf(w) /\ s = StepOf(w) /\ run = LoopRun(w, r)
    OBVIOUS
  <2>2. PICK again \in BOOLEAN : RetriesStep(w, r, s, again)
    BY <1>9, <2>1, RetryStepIs
  <2>3. \/ Moved(w, "loop", run, "worker", <<>>)
        \/ Moved(w, "write", r, s, IF s = "deliver" THEN DeliveryFailure ELSE Failure)
    BY <2>1, <2>2 DEF RetriesStep
  <2>4. PICK t : t = IF s = "deliver" THEN DeliveryFailure ELSE Failure
    OBVIOUS
  <2>5. QED BY <1>2, <1>3, <2>3, <2>4
<1>10. CASE Update(w)
  <2>1. PICK r, s, run : r = RunOf(w) /\ s = StepOf(w) /\ run = LoopRun(w, r)
    OBVIOUS
  <2>2. PICK u \in Updates, rest \in Seq(Updates) : Updated(w, r, u, rest)
    BY <1>10, <2>1, UpdateIs
  <2>3. \/ Moved(w, "write", r, s, rest) \/ Moved(w, "check", r, "worker", <<>>)
        \/ Moved(w, "loop", run, "worker", <<>>)
    BY <2>1, <2>2 DEF Updated
  <2>4. QED BY <1>2, <1>3, <2>3
<1>11. CASE \/ LeaseNothing(w) \/ Synthesize(w) \/ (\E res \in {"ok", "error"} : AgentReturns(w, res))
            \/ AgentThrows(w) \/ AgentIsAborted(w) \/ SkipDelivery(w) \/ Deliver(w) \/ DeliveryIsBlocked(w)
            \/ (\E out \in {0, 1} : DeliveryFails(w, out)) \/ CheckCanceled(w) \/ ApplyOutcome(w)
  <2>1. Rest(w) \/ (\E t : Write(w, t)) \/ \E at \in {"failed", "apply"} : Go(w, at)
    BY <1>11
    DEF LeaseNothing, Synthesize, AgentReturns, AgentThrows, AgentIsAborted, SkipDelivery, Deliver,
        DeliveryIsBlocked, DeliveryFails, CheckCanceled, ApplyOutcome
  <2>2. QED BY <1>4, <1>5, <1>6, <2>1
<1>12. QED BY <1>7, <1>8, <1>9, <1>10, <1>11 DEF Proceed

LEMMA ControlsNext == ASSUME DInv, Controls, [Next]_vars PROVE Controls'
<1>1. {"cancel", "retry", "clear"} \subseteq Incidents
  BY DEF Incidents
<1>2. ASSUME NEW v \in Worker
      PROVE  /\ At(v, "discard")' => Happened("cancel")'
             /\ At(v, "mark")' => Happened("retry")' \/ Happened("clear")'
             /\ At(v, "retry")' => Happened("retry")'
  <2>1. CASE worker'[v] = worker[v]
    BY <1>1, <2>1, Remembered DEF Controls, At
  <2>2. CASE worker'[v].at \in Busy \cup {"rest", "loop"}
    BY <2>2 DEF At, Busy
  <2>3. CASE Accounted(v, worker'[v].at)
    BY <1>1, <2>3, Remembered DEF Controls, At, Accounted
  <2>4. \/ worker'[v] = worker[v] \/ worker'[v].at \in Busy \cup {"rest", "loop"}
        \/ Accounted(v, worker'[v].at)
    <3>1. CASE \E w \in Worker : Proceed(w)
      BY <3>1, ProceedMoves
    <3>2. CASE Aside
      BY <3>2, AsideMoves DEF StayIdle
    <3>3. CASE (\E w \in Outside : OutsideDies(w)) \/ GatewayRestarts
      BY <3>3, DeadMove, RestingRecord
    <3>4. QED BY <3>1, <3>2, <3>3, StepsAside
  <2>5. QED BY <2>1, <2>2, <2>3, <2>4
<1>3. QED BY <1>2 DEF Controls

\* Rows under the operator, the scan for expired leases and the clock.
LEMMA RecoverKeeps ==
  ASSUME DInv, Good, Tick \/ \E w \in Outside : Poll(w) PROVE Good'
<1>1. RecoverExpiredLeases
  BY DEF Tick, Poll
<1>2. \A r \in Run : EasedRow(r) /\ (status'[r] = "ok" => status[r] = "ok")
  <2>1. TAKE r \in Run
  <2>2. /\ \A s \in Step : EasedStep(step[r][s], step'[r][s])
        /\ Same(r) \/ (status'[r] \in {"queued", "recovered"} /\ canceled'[r] = canceled[r])
    BY <1>1, RecoverSound
  <2>3. QED BY <2>2 DEF EasedRow, Same
<1>3. Aside
  BY DEF Aside
<1>4. QED BY <1>2, <1>3, AsideMoves, IdleKeeps DEF StayIdle

LEMMA CancelKeeps ==
  ASSUME DInv, Good, NEW c \in Callers, NEW q \in Run, Cancel(c, q) PROVE Good'
<1>1. /\ status' = [status EXCEPT ![q] = "canceled"] /\ canceled' = [canceled EXCEPT ![q] = TRUE]
      /\ step' = [step EXCEPT ![q] = EndSteps(q, "canceled")]
  BY DEF Cancel
<1>2. ASSUME NEW r \in Run PROVE EasedRow(r) /\ (status'[r] = "ok" => status[r] = "ok")
  <2>1. CASE r = q
    BY <1>1, <2>1, Row DEF EasedRow
  <2>2. CASE r # q
    BY <1>1, <2>2, Row, SameIsEased DEF Same
  <2>3. QED BY <2>1, <2>2
<1>3. Aside
  BY DEF Aside
<1>4. QED BY <1>2, <1>3, AsideMoves, IdleKeeps DEF StayIdle

LEMMA ClearStaleKeeps ==
  ASSUME DInv, Good, NEW c \in Callers, NEW q \in Run, ClearStale(c, q) PROVE Good'
<1>1. /\ status' = [status EXCEPT ![q] = "queued"] /\ UNCHANGED canceled
      /\ step' = [step EXCEPT ![q] = [s \in Step |-> ClearedStep(q, s)]]
  BY DEF ClearStale, ClearedStep
<1>2. ASSUME NEW r \in Run PROVE EasedRow(r) /\ (status'[r] = "ok" => status[r] = "ok")
  <2>1. CASE r = q
    <3>1. \A s \in Step : EasedStep(step[q][s], step'[q][s])
      <4>1. TAKE s \in Step
      <4>2. step'[q][s] = ClearedStep(q, s)
        BY <1>1, Row
      <4>3. QED BY <4>2, ClearSound
    <3>2. status'[q] = "queued"
      BY <1>1, Row
    <3>3. QED BY <1>1, <2>1, <3>1, <3>2 DEF EasedRow
  <2>2. CASE r # q
    BY <1>1, <2>2, Row, SameIsEased DEF Same
  <2>3. QED BY <2>1, <2>2
<1>3. Aside
  BY DEF Aside
<1>4. QED BY <1>2, <1>3, AsideMoves, IdleKeeps DEF StayIdle

LEMMA ReserveKeeps ==
  ASSUME DInv, Good, NEW w \in Gateway, worker[w].at \in {"rest", "due"}, 0 \in {active, cached},
         Reserve(w)
  PROVE  Good'
<1>1. w \in Worker
  BY DEF Gateway, Worker
<1>2. status' = [status EXCEPT ![NextRun] = "queued"] /\ UNCHANGED <<canceled, step>>
  BY DEF Reserve
<1>3. ASSUME NEW r \in Run PROVE EasedRow(r) /\ (status'[r] = "ok" => status[r] = "ok")
  <2>1. status'[r] = "ok" => status[r] = "ok"
    BY <1>2, Row
  <2>2. QED BY <1>2, <2>1 DEF EasedRow, EasedStep
<1>4. Aside
  BY <1>1 DEF Aside
<1>5. QED BY <1>3, <1>4, AsideMoves, IdleKeeps DEF StayIdle

LEMMA LeaseNothingKeeps == ASSUME DInv, Good, NEW w \in Worker, LeaseNothing(w) PROVE Good'
<1>1. status' = Marked(w, Runs) /\ UNCHANGED <<canceled, step>> /\ Rest(w)
  BY DEF LeaseNothing
<1>2. ASSUME NEW r \in Run PROVE EasedRow(r) /\ (status'[r] = "ok" => status[r] = "ok")
  <2>1. status'[r] = "ok" => status[r] = "ok"
    BY <1>1, Marks
  <2>2. QED BY <1>1, <2>1 DEF EasedRow, EasedStep
<1>3. \A v \in Worker : worker'[v] = worker[v] \/ worker'[v].at \in Idle
  BY <1>1, Known, RestMoves DEF Moved, Idle
<1>4. QED BY <1>2, <1>3, IdleKeeps

LEMMA DelayKeeps ==
  ASSUME DInv, Good, NEW q \in Run, NEW x \in Step, RetryDelayPasses(q, x) PROVE Good'
<1>1. UNCHANGED <<status, canceled, worker>>
  BY DEF RetryDelayPasses
<1>2. PICK y \in StepRecord :
        Changes(q, x, y) /\ y.status = "queued" /\ y.attempt = step[q][x].attempt /\ y.result = step[q][x].result
  BY DelayIs
<1>3. step[q][x].timer = "delay"
  BY DelayIs
<1>4. \A r \in Run : EasedRow(r)
  BY <1>1, <1>2, <1>3 DEF EasedRow, EasedStep, Changes
<1>5. QED BY <1>1, <1>4, IdleKeeps

LEMMA ExpiryKeeps ==
  ASSUME DInv, Good, [Next]_vars, Orderly', NEW q \in Run, NEW x \in Step, StepLeaseExpires(q, x) PROVE Good'
<1>1. UNCHANGED <<status, canceled, worker>> /\ ~Working(q)
  <2>1. Working(q) => Record("overrun")
    BY DEF StepLeaseExpires
  <2>2. ~Happened("overrun")' /\ "overrun" \in Incidents
    BY DEF Orderly, Quiet, Incidents
  <2>3. QED BY <2>1, <2>2, Remembered DEF StepLeaseExpires
<1>2. PICK y \in StepRecord : Changes(q, x, y) /\ y.status = "running"
  BY LeaseExpiryIs
<1>3. step[q][x].status = "running" /\ ~canceled[q]
  BY LeaseExpiryIs
<1>4. \A r \in Run : r # q => Same(r)
  BY <1>1, <1>2 DEF Same, Changes
<1>5. \A v \in Worker : Stays(v)
  BY <1>1, EngagedIsBusy DEF Stays, RunOf
<1>6. ASSUME NEW v \in Worker, Engaged(v)' PROVE worker'[v] = worker[v] /\ EasedRow(RunOf(v))
  <2>1. worker'[v] = worker[v] /\ Engaged(v)
    BY <1>1, <1>6, EngagedIsBusy
  <2>2. RunOf(v) # q /\ RunOf(v) \in Run
    BY <1>1, <2>1, Known DEF Working, Engaged, Executing
  <2>3. QED BY <1>4, <2>1, <2>2, SameIsEased
<1>7. InOrder(q)'
  <2>1. status[q] # "ok"
    BY <1>3 DEF Good, InOrder, Ended
  <2>2. \A s \in Step : (Passed(q, s)' <=> Passed(q, s)) /\ (Ok(q, s)' <=> Ok(q, s))
    BY <1>2, <1>3 DEF Changes, Passed, Ok
  <2>3. Passed(q, "evaluate")' => Ok(q, "worker")' /\ Passed(q, "synthesize")'
    BY <1>3, <2>2, StepNames DEF Good, InOrder
  <2>4. QED BY <1>1, <2>1, <2>3, InOrderIf
<1>8. \A r \in Run : InOrder(r)' \/ (EasedRow(r) /\ (status'[r] = "ok" => status[r] = "ok"))
  BY <1>4, <1>7, SameIsEased
<1>9. QED BY <1>5, <1>6, <1>8, GoodKept

\* Steps that have passed are left to a run that is recovered.
LEMMA EndedPasses ==
  ASSUME DInv, NEW r \in Run, NEW st \in {"canceled", "recovered"}, NEW s \in Step, step'[r] = EndSteps(r, st)
  PROVE  (Passed(r, s)' <=> Passed(r, s)) /\ (Ok(r, s)' <=> Ok(r, s))
<1>1. CASE step[r][s].status \in {"queued", "running"}
  <2>1. PICK c \in StepRecord : c = step[r][s]
    BY Row
  <2>2. step'[r][s] = [c EXCEPT !.status = st, !.timer = "none"]
    BY <1>1, <2>1 DEF EndSteps
  <2>3. step'[r][s].status = st
    BY <2>2 DEF StepRecord
  <2>4. QED BY <1>1, <2>3 DEF Passed, Ok
<1>2. CASE step[r][s].status \notin {"queued", "running"}
  <2>1. step'[r][s] = step[r][s]
    BY <1>2 DEF EndSteps
  <2>2. QED BY <2>1 DEF Passed, Ok
<1>3. QED BY <1>1, <1>2

LEMMA RestartKeeps ==
  ASSUME DInv, Good, [Next]_vars, Orderly', GatewayRestarts PROVE Good'
<1>1. \A v \in Worker : v \in Outside /\ Engaged(v) => RunOf(v) # active
  <2>1. "overrun" \in Incidents /\ ~Happened("overrun")'
    BY DEF Orderly, Quiet, Incidents
  <2>2. ~Record("overrun")
    BY <2>1, Remembered
  <2>3. QED BY <2>2 DEF GatewayRestarts
<1>2. \A v \in Worker : worker'[v] = worker[v] \/ worker'[v] = Resting
  BY DeadMove
<1>3. \A v \in Worker : Engaged(v)' => v \in Outside /\ worker'[v] = worker[v] /\ Engaged(v)
  <2>1. TAKE v \in Worker
  <2>2. HAVE Engaged(v)'
  <2>3. worker'[v] # Resting
    BY <2>2, RestingRecord, EngagedIsBusy DEF Busy
  <2>4. v \notin Gateway
    BY <2>3 DEF GatewayRestarts
  <2>5. QED BY <1>2, <2>2, <2>3, <2>4, EngagedIsBusy DEF Gateway, Worker
<1>4. \A v \in Worker : Stays(v)
  BY <1>3 DEF Stays, RunOf
<1>5. \A r \in Run : IF IsRecovered(r)
                     THEN /\ status'[r] = "recovered" /\ canceled'[r] = canceled[r]
                          /\ step'[r] = EndSteps(r, "recovered")
                     ELSE Same(r)
  BY RestartSound
<1>6. ASSUME NEW v \in Worker, Engaged(v)' PROVE worker'[v] = worker[v] /\ EasedRow(RunOf(v))
  <2>1. worker'[v] = worker[v] /\ Engaged(v) /\ RunOf(v) # active
    BY <1>1, <1>3, <1>6
  <2>2. RunOf(v) \in Run
    BY <2>1, Known DEF Engaged, Executing
  <2>3. ~IsRecovered(RunOf(v))
    BY <2>1 DEF IsRecovered, RecoverUnlessEnded
  <2>4. QED BY <1>5, <2>1, <2>2, <2>3, SameIsEased
<1>7. ASSUME NEW r \in Run PROVE InOrder(r)' \/ (EasedRow(r) /\ (status'[r] = "ok" => status[r] = "ok"))
  <2>1. CASE IsRecovered(r)
    <3>1. status'[r] = "recovered" /\ canceled'[r] = canceled[r] /\ step'[r] = EndSteps(r, "recovered")
      BY <1>5, <2>1
    <3>2. \A s \in Step : (Passed(r, s)' <=> Passed(r, s)) /\ (Ok(r, s)' <=> Ok(r, s))
      BY <3>1, EndedPasses
    <3>3. ~canceled[r] => (Passed(r, "evaluate")' => Ok(r, "worker")' /\ Passed(r, "synthesize")')
      BY <3>2, StepNames DEF Good, InOrder
    <3>4. QED BY <3>1, <3>3 DEF InOrder
  <2>2. CASE ~IsRecovered(r)
    BY <1>5, <2>2, SameIsEased
  <2>3. QED BY <2>1, <2>2
<1>8. QED BY <1>4, <1>6, <1>7, GoodKept

LEMMA ProceedKeeps == ASSUME DInv, Good, NEW w \in Worker, Proceed(w) PROVE Good'
<1>1. CASE Lease(w) \/ LeaseNothing(w)
  BY <1>1, LeaseKeeps, LeaseNothingKeeps
<1>2. CASE RetryStep(w) \/ Update(w)
  BY <1>2, RetryStepKeeps, UpdateKeeps
<1>3. CASE ~(Lease(w) \/ LeaseNothing(w) \/ RetryStep(w) \/ Update(w))
  BY <1>3, StepMovesKeep DEF Proceed
<1>4. QED BY <1>1, <1>2, <1>3

LEMMA AsideKeeps ==
  ASSUME DInv, Controls, Good, [Next]_vars, Orderly', Aside PROVE Good'
<1>1. Orderly /\ "retry" \in Incidents /\ ~Happened("retry")'
  BY OrderlyBefore DEF Orderly, Quiet, Incidents
<1>2. \A v \in Worker : worker'[v] = worker[v] \/ worker'[v].at \in Idle
  BY AsideMoves DEF StayIdle
<1>3. CASE UNCHANGED queueVars
  BY <1>2, <1>3, RestsKeep
<1>4. CASE \E w \in Worker : /\ Reserve(w) /\ w \in Gateway
                            /\ worker[w].at \in {"rest", "due"} /\ 0 \in {active, cached}
  BY <1>4, ReserveKeeps
<1>5. CASE \E c \in Callers : RetryRun(c) \/ Mark(c) \/ Discard(c)
  <2>1. \A c \in Callers : ~RetryRun(c)
    BY <1>1 DEF RetryRun, Controls, Orderly, Quiet, Worker
  <2>2. UNCHANGED queueVars
    BY <1>5, <2>1 DEF Mark, Discard
  <2>3. QED BY <1>3, <2>2
<1>6. CASE \E c \in Callers, r \in Run : Cancel(c, r) \/ AskRetry(c, r) \/ ClearStale(c, r)
  <2>1. \A c \in Callers, r \in Run : ~AskRetry(c, r)
    BY <1>1, Remembered DEF AskRetry
  <2>2. QED BY <1>6, <2>1, CancelKeeps, ClearStaleKeeps
<1>7. CASE Tick \/ \E w \in Outside : Poll(w)
  BY <1>7, RecoverKeeps
<1>8. CASE \E r \in Run, s \in Step : StepLeaseExpires(r, s) \/ RetryDelayPasses(r, s)
  BY <1>8, ExpiryKeeps, DelayKeeps
<1>9. CASE UNCHANGED vars \/ TickMaintains \/ ReadMaintains \/ OperatorChangesJob \/ JobLeaseExpires
  <2>1. UNCHANGED queueVars
    BY <1>9 DEF vars, queueVars, TickMaintains, ReadMaintains, Maintain, OperatorChangesJob,
       ChangeJob, EditJobs, JobLeaseExpires
  <2>2. QED BY <1>3, <2>1
<1>10. QED BY <1>4, <1>5, <1>6, <1>7, <1>8, <1>9 DEF Aside

LEMMA OrderNext == ASSUME DInv, OInv, [Next]_vars PROVE OInv'
<1>1. Controls'
  BY ControlsNext DEF OInv
<1>2. ASSUME Orderly' PROVE Good'
  <2>1. Controls /\ Good
    BY <1>2, OrderlyBefore DEF OInv
  <2>2. CASE \E w \in Worker : Proceed(w)
    BY <2>1, <2>2, ProceedKeeps
  <2>3. CASE Aside
    BY <1>2, <2>1, <2>3, AsideKeeps
  <2>4. CASE \E w \in Outside : OutsideDies(w)
    <3>1. UNCHANGED queueVars
      BY <2>4 DEF OutsideDies
    <3>2. \A v \in Worker : worker'[v] = worker[v] \/ worker'[v].at \in Idle
      BY <2>4, DeadMove, RestingRecord DEF Idle
    <3>3. QED BY <2>1, <3>1, <3>2, RestsKeep
  <2>5. CASE GatewayRestarts
    BY <1>2, <2>1, <2>5, RestartKeeps
  <2>6. QED BY <2>2, <2>3, <2>4, <2>5, StepsAside
<1>3. QED BY <1>1, <1>2 DEF OInv

LEMMA OrderInit == ASSUME Init PROVE OInv
<1>1. \A w \in Worker : worker[w].at = "rest"
  BY DEF Init, Resting
<1>2. \A w \in Worker : ~Engaged(w)
  BY <1>1 DEF Engaged, Executing
<1>3. ASSUME NEW r \in Run PROVE InOrder(r)
  <2>1. status[r] = "none" /\ step[r]["evaluate"].status = "queued"
    BY StepNames DEF Init, NewStep
  <2>2. QED BY <2>1 DEF InOrder, Passed
<1>4. QED BY <1>1, <1>2, <1>3 DEF OInv, Controls, Good, At

\* Until a run is taken from its worker or retried, each worker knows what it has to of
\* the steps of its run and is alone at it, and steps pass in order.
THEOREM OrderInvariant == Spec => [](DInv /\ OInv)
<1>1. Init => DInv /\ OInv
  BY InitD, OrderInit
<1>2. DInv /\ OInv /\ [Next]_vars => DInv' /\ OInv'
  BY NextD, OrderNext
<1>3. QED BY <1>1, <1>2, PTL DEF Spec

-----------------------------------------------------------------------------
(* A run that has ended well stays so.                                     *)

StaysOk(r) == status[r] = "ok" => status'[r] = "ok"

LEMMA OkFacts ==
  ASSUME DInv, Good, NEW r \in Run, status[r] = "ok"
  PROVE  /\ ~canceled[r] /\ Ended(r)
         /\ \A w \in Worker : Engaged(w) /\ RunOf(w) = r => worker[w].at \in {"check", "apply"}
         /\ ~Stale(r) /\ Cleared(r) = {} /\ ~IsRecovered(r)
<1>1. ~canceled[r]
  BY Row DEF Fits, Frozen
<1>2. /\ Ended(r)
      /\ \A w \in Worker : Engaged(w) /\ RunOf(w) = r => worker[w].at \in {"check", "apply"}
  BY <1>1 DEF Good, InOrder
<1>3. \A s \in Step : step[r][s].timer # "expired"
  BY <1>2, Row DEF Ended, Timed
<1>4. QED BY <1>1, <1>2, <1>3 DEF Stale, Cleared, IsExpired, IsRecovered, RecoverUnlessEnded

LEMMA ProceedStaysOk ==
  ASSUME DInv, Good, NEW w \in Worker, Proceed(w), NEW r \in Run PROVE StaysOk(r)
<1>1. SUFFICES ASSUME status[r] = "ok" PROVE status'[r] = "ok"
  BY DEF StaysOk
<1>2. ~canceled[r]
  BY <1>1, OkFacts
<1>3. CASE Lease(w)
  <2>1. PICK q \in Run, s \in Leased : Leases(w, q, s)
    BY <1>3, LeaseIs
  <2>2. q # r
    BY <1>1, <2>1 DEF Leases
  <2>3. QED BY <1>1, <1>2, <2>1, <2>2 DEF Leases
<1>4. CASE LeaseNothing(w)
  BY <1>1, <1>2, <1>4, Marks DEF LeaseNothing
<1>5. CASE RetryStep(w)
  <2>1. PICK q, s : q = RunOf(w) /\ s = StepOf(w)
    OBVIOUS
  <2>2. PICK again \in BOOLEAN : RetriesStep(w, q, s, again)
    BY <1>5, <2>1, RetryStepIs
  <2>3. q # r
    <3>1. At(w, "failed") /\ Engaged(w)
      BY <1>5 DEF RetryStep, At, Engaged, Executing
    <3>2. QED BY <1>1, <2>1, <3>1, OkFacts DEF At
  <2>4. UNCHANGED status \/ \E st : ChangesRun(q, st)
    BY <2>2 DEF RetriesStep
  <2>5. QED BY <1>1, <2>3, <2>4 DEF ChangesRun
<1>6. CASE Update(w)
  <2>1. PICK q : q = RunOf(w)
    OBVIOUS
  <2>2. PICK u \in Updates, rest \in Seq(Updates) : Updated(w, q, u, rest)
    BY <1>6, <2>1, UpdateIs
  <2>3. q # r
    <3>1. At(w, "write") /\ Engaged(w)
      BY <1>6 DEF Update, At, Engaged, Executing
    <3>2. QED BY <1>1, <2>1, <3>1, OkFacts DEF At
  <2>4. UNCHANGED status \/ \E st : ChangesRun(q, st)
    BY <2>2 DEF Updated
  <2>5. QED BY <1>1, <2>3, <2>4 DEF ChangesRun
<1>7. CASE UNCHANGED status
  BY <1>1, <1>7
<1>8. QED
  BY <1>3, <1>4, <1>5, <1>6, <1>7
  DEF Proceed, Prepare, Synthesize, AgentReturns, AgentThrows, AgentIsAborted,
      SkipDelivery, Deliver, DeliveryIsBlocked, DeliveryFails, CheckCanceled, ApplyOutcome, queueVars

LEMMA AsideStaysOk ==
  ASSUME DInv, Good, Controls, Orderly, Aside, NEW r \in Run PROVE StaysOk(r)
<1>1. SUFFICES ASSUME status[r] = "ok" PROVE status'[r] = "ok"
  BY DEF StaysOk
<1>2. status \in [Run -> RunStatus]
  BY Row
<1>3. CASE \E w \in Worker : Reserve(w)
  <2>1. NextRun # r /\ status' = [status EXCEPT ![NextRun] = "queued"]
    BY <1>1, <1>3, NextRunIsNew DEF Reserve
  <2>2. QED BY <1>1, <1>2, <2>1
<1>4. CASE \E c \in Callers : RetryRun(c) \/ Mark(c) \/ Discard(c)
  <2>1. \A c \in Callers : ~RetryRun(c)
    BY DEF RetryRun, Controls, Orderly, Quiet, Worker
  <2>2. QED BY <1>1, <1>4, <2>1 DEF Mark, Discard, queueVars
<1>5. CASE \E c \in Callers, q \in Run : Cancel(c, q) \/ AskRetry(c, q) \/ ClearStale(c, q)
  <2>1. PICK c \in Callers, q \in Run : Cancel(c, q) \/ AskRetry(c, q) \/ ClearStale(c, q)
    BY <1>5
  <2>2. CASE AskRetry(c, q)
    BY <1>1, <2>2 DEF AskRetry, queueVars
  <2>3. CASE Cancel(c, q)
    BY <1>1, <1>2, <2>3 DEF Cancel
  <2>4. CASE ClearStale(c, q)
    <3>1. q # r /\ status' = [status EXCEPT ![q] = "queued"]
      BY <1>1, <2>4, OkFacts DEF ClearStale
    <3>2. QED BY <1>1, <1>2, <3>1
  <2>5. QED BY <2>1, <2>2, <2>3, <2>4
<1>6. CASE Tick \/ \E w \in Outside : Poll(w)
  <2>1. RecoverExpiredLeases /\ ~Stale(r)
    BY <1>1, <1>6, OkFacts DEF Tick, Poll
  <2>2. QED BY <1>1, <2>1 DEF RecoverExpiredLeases
<1>7. CASE UNCHANGED status
  BY <1>1, <1>7
<1>8. QED
  BY <1>3, <1>4, <1>5, <1>6, <1>7
  DEF Aside, vars, queueVars, TickMaintains, ReadMaintains, Maintain, OperatorChangesJob, ChangeJob,
      EditJobs, StepLeaseExpires, RetryDelayPasses, JobLeaseExpires

\* A run that ended well is reopened by nobody, whatever late workers, scans, clocks and
\* starts of the gateway do, unless it was taken from a worker that was at it or an
\* operator asked for a retry.
THEOREM OkStaysOk == Spec => OkIsFinal
<1>1. ASSUME DInv, OInv, [Next]_vars, NEW r \in Run, status[r] = "ok", status'[r] # "ok"
      PROVE  Happened("retry") \/ Happened("overrun")
  <2>1. SUFFICES ASSUME Orderly PROVE FALSE
    BY DEF Orderly, Quiet
  <2>2. Good /\ Controls
    BY <1>1, <2>1 DEF OInv
  <2>3. CASE \E w \in Worker : Proceed(w)
    BY <1>1, <2>2, <2>3, ProceedStaysOk DEF StaysOk
  <2>4. CASE Aside
    BY <1>1, <2>1, <2>2, <2>4, AsideStaysOk DEF StaysOk
  <2>5. CASE \E w \in Outside : OutsideDies(w)
    BY <1>1, <2>5 DEF OutsideDies, queueVars
  <2>6. CASE GatewayRestarts
    BY <1>1, <2>2, <2>6, OkFacts DEF GatewayRestarts
  <2>7. QED BY <1>1, <2>3, <2>4, <2>5, <2>6, StepsAside
<1>2. DInv /\ OInv /\ [Next]_vars =>
        \A r \in Run : status[r] = "ok" /\ status'[r] # "ok" => Happened("retry") \/ Happened("overrun")
  BY <1>1
<1>3. QED BY <1>2, OrderInvariant, PTL DEF Spec, OkIsFinal

-----------------------------------------------------------------------------
(* A result is sent once.                                                  *)

\* A worker has given the result of the run to the channel and is about to record it.
Sent(v, r) == HasSent(v) /\ RunOf(v) = r /\ Head(worker[v].todo) = End("deliver", "ok")
Delivered(r) ==
  /\ Ok(r, "worker") /\ Passed(r, "synthesize") /\ Passed(r, "evaluate")
  /\ Ok(r, "deliver") \/ \E v \in Worker : Sent(v, r)

\* Once sent, nobody is at the delivery of the run, and it is recorded or about to be.
Once(r) ==
  sends[r] # 0 => /\ sends[r] = 1 /\ Sending(r) = {}
                  /\ ~canceled[r] => Delivered(r)
SInv == Orderly /\ ~doubt => \A r \in Run : Once(r)

\* The rows of a run keep what has passed, or it is canceled.
Keeping(r) ==
  canceled'[r] \/ /\ canceled'[r] = canceled[r]
                  /\ \A s \in Step : (Passed(r, s) => Passed(r, s)') /\ (Ok(r, s) => Ok(r, s)')

LEMMA OnceKept ==
  ASSUME NEW r \in Run, Once(r), sends'[r] = sends[r], Keeping(r), Sending(r)' \subseteq Sending(r),
         \A v \in Worker : Sent(v, r) => Sent(v, r)'
  PROVE  Once(r)'
<1>1. SUFFICES ASSUME sends'[r] # 0
               PROVE  sends'[r] = 1 /\ Sending(r)' = {} /\ (~canceled'[r] => Delivered(r)')
  BY DEF Once
<1>2. sends[r] = 1 /\ Sending(r) = {} /\ (~canceled[r] => Delivered(r))
  BY <1>1 DEF Once
<1>3. ASSUME ~canceled'[r] PROVE Delivered(r)'
  <2>1. Delivered(r) /\ \A s \in Step : (Passed(r, s) => Passed(r, s)') /\ (Ok(r, s) => Ok(r, s)')
    BY <1>2, <1>3 DEF Keeping
  <2>2. QED BY <2>1, StepNames DEF Delivered
<1>4. QED BY <1>1, <1>2, <1>3

LEMMA SameIsKeeping == ASSUME NEW r \in Run, Same(r) PROVE Keeping(r)
BY StepStays DEF Same, Keeping
LEMMA EasedIsKeeping == ASSUME DInv, NEW r \in Run, EasedRow(r) PROVE Keeping(r)
BY EasedFacts DEF EasedRow, Keeping

\* Workers that stay where they are, or were not sending and do not begin to.
LEMMA SentStays ==
  ASSUME NEW r, \A v \in Worker : \/ worker'[v] = worker[v]
                                  \/ ~HasSent(v) /\ worker'[v].at \notin {"leased", "exec"}
  PROVE  /\ Sending(r)' \subseteq Sending(r)
         /\ \A v \in Worker : Sent(v, r) => Sent(v, r)'
<1>1. \A v \in Worker : worker'[v] = worker[v] =>
        /\ RunOf(v)' = RunOf(v) /\ StepOf(v)' = StepOf(v) /\ HasSent(v)' = HasSent(v)
  BY DEF RunOf, StepOf, HasSent, At
<1>2. QED BY <1>1 DEF Sending, Sent

LEMMA OnceMoved ==
  ASSUME NEW r \in Run, Once(r), sends'[r] = sends[r], Keeping(r), NEW w \in Worker,
         NEW at, NEW run, NEW s, NEW todo, Moved(w, at, run, s, todo), ~Sent(w, r),
         at \in {"leased", "exec"} => run # r \/ w \in Sending(r) \/ s # "deliver"
  PROVE  Once(r)'
<1>1. \A v \in Worker : v # w => worker'[v] = worker[v]
  BY DEF Moved
<1>2. \A v \in Worker : v # w =>
        RunOf(v)' = RunOf(v) /\ StepOf(v)' = StepOf(v) /\ HasSent(v)' = HasSent(v)
  BY <1>1 DEF RunOf, StepOf, HasSent, At
<1>3. \A v \in Worker : Sent(v, r) => Sent(v, r)'
  BY <1>1, <1>2 DEF Sent
<1>4. RunOf(w)' = run /\ StepOf(w)' = s /\ worker'[w].at = at
  BY DEF Moved, RunOf, StepOf
<1>5. Sending(r)' \subseteq Sending(r)
  BY <1>1, <1>2, <1>4 DEF Sending
<1>6. QED BY <1>3, <1>5, OnceKept

\* Once it is delivered, a run has nothing to lease, and whoever is at it only has the
\* end of the delivery to write.
LEMMA DeliveredIsDone ==
  ASSUME DInv, Good, NEW r \in Run, ~canceled[r], Delivered(r)
  PROVE  /\ RunnableSteps(r) = {}
         /\ \A w \in Worker : Engaged(w) /\ RunOf(w) = r =>
              /\ worker[w].at \in {"write", "check", "apply"}
              /\ At(w, "write") => /\ StepOf(w) = "deliver" /\ WritesDelivery(r, worker[w].todo)
                                   /\ Ok(r, "deliver") \/ Head(worker[w].todo) = End("deliver", "ok")
<1>1. Ok(r, "worker") /\ Passed(r, "synthesize") /\ Passed(r, "evaluate")
  BY DEF Delivered
<1>2. \A s \in Step : /\ Ok(r, s) => Passed(r, s)
                      /\ Passed(r, s) => ~StepIsRunnable(r, s)
                      /\ Leasing(r, s) => ~Passed(r, s)
                      /\ NoMore(r, s) => ~Passed(r, s)
  BY PassedIsOver
<1>3. ASSUME NEW w \in Worker, Engaged(w), RunOf(w) = r
      PROVE  /\ KnowsAt(r, worker[w].at, StepOf(w), worker[w].todo) /\ Alone(w)
             /\ StepOf(w) \in Leased /\ worker[w].at \in Busy
  BY <1>3, KnowsIs, Known, EngagedIsBusy DEF Good
<1>4. CASE \E v \in Worker : Sent(v, r)
  <2>1. PICK v \in Worker : Sent(v, r)
    BY <1>4
  <2>2. /\ At(v, "write") /\ StepOf(v) = "deliver" /\ RunOf(v) = r /\ Engaged(v)
        /\ Head(worker[v].todo) = End("deliver", "ok")
    BY <2>1 DEF Sent, HasSent, At, Engaged, Executing
  <2>3. WritesDelivery(r, worker[v].todo)
    BY <1>3, <2>2 DEF KnowsAt, At
  <2>4. RunnableSteps(r) = {}
    BY <1>3, <2>2, EngagedIsDone
  <2>5. \A w \in Worker : Engaged(w) /\ RunOf(w) = r => w = v
    BY <1>3, <2>2 DEF Alone
  <2>6. QED BY <2>2, <2>3, <2>4, <2>5 DEF At
<1>5. CASE Ok(r, "deliver")
  <2>1. \A s \in Leased : Passed(r, s) /\ s \in Step
    BY <1>1, <1>2, <1>5, StepNames, StepIsOne
  <2>2. RunnableSteps(r) = {}
    BY <1>2, <2>1, RunnableIsLeased DEF RunnableSteps, WorkerStepFirst
  <2>3. ASSUME NEW w \in Worker, Engaged(w), RunOf(w) = r
        PROVE  /\ worker[w].at \in {"write", "check", "apply"}
               /\ At(w, "write") => StepOf(w) = "deliver" /\ WritesDelivery(r, worker[w].todo)
    <3>1. KnowsAt(r, worker[w].at, StepOf(w), worker[w].todo) /\ StepOf(w) \in Leased /\ worker[w].at \in Busy
      BY <1>3, <2>3
    <3>2. ~AtStep(r, StepOf(w))
      BY <1>2, <2>1, <3>1 DEF AtStep
    <3>3. worker[w].at \in {"write", "check", "apply"}
      BY <3>1, <3>2 DEF KnowsAt, Busy
    <3>4. ~Leasing(r, "worker") /\ ~NoMore(r, "worker")
      BY <1>1, <1>2, StepNames
    <3>5. \A t : ~WritesWorker(r, t) /\ ~WritesSynthesis(r, t)
      BY <1>1, <3>4 DEF WritesWorker, WritesSynthesis
    <3>6. At(w, "write") => StepOf(w) = "deliver" /\ WritesDelivery(r, worker[w].todo)
      BY <3>1, <3>5, StepIsOne DEF KnowsAt, At
    <3>7. QED BY <3>3, <3>6
  <2>4. QED BY <1>5, <2>2, <2>3
<1>6. QED BY <1>4, <1>5 DEF Delivered

\* A worker that is not at a delivery of the run, or only goes on with it.
LEMMA LeaseOnce ==
  ASSUME DInv, Good, NEW w \in Worker, Lease(w), NEW r \in Run, Once(r) PROVE Once(r)'
<1>1. PICK q \in Run, s \in Leased : Leases(w, q, s)
  BY LeaseIs
<1>2. PICK t : t = worker[w].todo
  OBVIOUS
<1>3. /\ Moved(w, "leased", q, s, t) /\ UNCHANGED <<canceled, sends>>
      /\ s \in RunnableSteps(q) /\ ~canceled[q]
  BY <1>1, <1>2 DEF Leases, history
<1>4. ~Sent(w, r)
  BY DEF Lease, Sent, HasSent, At
<1>5. CASE r # q
  <2>1. Keeping(r)
    <3>1. step'[r] = step[r]
      BY <1>1, <1>5 DEF Leases
    <3>2. QED BY <1>3, <3>1, StepStays DEF Keeping
  <2>2. QED BY <1>3, <1>4, <1>5, <2>1, OnceMoved
<1>6. CASE r = q
  <2>1. sends[r] = 0
    BY <1>3, <1>6, DeliveredIsDone DEF Once
  <2>2. QED BY <1>3, <2>1 DEF Once
<1>7. QED BY <1>5, <1>6

LEMMA LeaseNothingOnce ==
  ASSUME DInv, NEW w \in Worker, LeaseNothing(w), NEW r \in Run, Once(r) PROVE Once(r)'
<1>1. UNCHANGED <<canceled, step, sends>> /\ Rest(w) /\ ~Sent(w, r)
  BY DEF LeaseNothing, history, Sent, HasSent, At
<1>2. Moved(w, "rest", 0, "worker", <<>>)
  BY <1>1, Known, RestMoves
<1>3. Keeping(r)
  BY <1>1, StepStays DEF Keeping
<1>4. QED BY <1>1, <1>2, <1>3, OnceMoved

LEMMA RetryStepOnce ==
  ASSUME DInv, Good, NEW w \in Worker, RetryStep(w), NEW r \in Run, Once(r) PROVE Once(r)'
<1>1. At(w, "failed") /\ Engaged(w) /\ ~Sent(w, r) /\ UNCHANGED <<canceled, sends>>
  BY DEF RetryStep, At, Engaged, Executing, Sent, HasSent, history
<1>2. PICK q \in Run, s \in Leased : q = RunOf(w) /\ s = StepOf(w)
  BY <1>1, Known DEF At
<1>3. PICK again \in BOOLEAN : RetriesStep(w, q, s, again)
  BY <1>2, RetryStepIs
<1>4. PICK run : run = LoopRun(w, q)
  OBVIOUS
<1>5. PICK t : t = IF s = "deliver" THEN DeliveryFailure ELSE Failure
  OBVIOUS
<1>6. Moved(w, "loop", run, "worker", <<>>) \/ Moved(w, "write", q, s, t)
  BY <1>3, <1>4, <1>5 DEF RetriesStep
<1>7. CASE Keeping(r)
  BY <1>1, <1>6, <1>7, OnceMoved
<1>8. CASE r = q /\ ~canceled[r]
  <2>1. sends[r] = 0
    BY <1>1, <1>2, <1>8, DeliveredIsDone DEF Once, At
  <2>2. QED BY <1>1, <2>1 DEF Once
<1>9. CASE canceled[r] \/ r # q
  <2>1. CASE canceled[r]
    BY <1>1, <1>7, <2>1 DEF Keeping
  <2>2. CASE r # q
    <3>1. s \in Step
      BY StepNames
    <3>2. UNCHANGED step \/ \E x \in Step, y \in StepRecord : Changes(q, x, y)
      BY <1>3, <3>1 DEF RetriesStep
    <3>3. step'[r] = step[r]
      BY <2>2, <3>2 DEF Changes
    <3>4. Keeping(r)
      BY <1>1, <3>3, StepStays DEF Keeping
    <3>5. QED BY <1>7, <3>4
  <2>3. QED BY <1>9, <2>1, <2>2
<1>10. QED BY <1>8, <1>9

\* The end of a delivery is written.
LEMMA UpdateOnce ==
  ASSUME DInv, Good, NEW w \in Worker, Update(w), NEW r \in Run, Once(r) PROVE Once(r)'
<1>1. At(w, "write") /\ Engaged(w) /\ UNCHANGED <<canceled, sends>>
  BY DEF Update, At, Engaged, Executing, history
<1>2. PICK q \in Run, s \in Leased : q = RunOf(w) /\ s = StepOf(w)
  BY <1>1, Known DEF At
<1>3. PICK u \in Updates, rest \in Seq(Updates) : Updated(w, q, u, rest)
  BY <1>2, UpdateIs
<1>4. PICK run : run = LoopRun(w, q)
  OBVIOUS
<1>5. \E at, p, x, z : at \in {"write", "check", "loop"} /\ Moved(w, at, p, x, z)
  <2>1. \/ Moved(w, "write", q, s, rest) \/ Moved(w, "check", q, "worker", <<>>)
        \/ Moved(w, "loop", run, "worker", <<>>)
    BY <1>2, <1>3, <1>4 DEF Updated
  <2>2. QED BY <2>1
<1>6. PICK at, p, x, z : at \in {"write", "check", "loop"} /\ Moved(w, at, p, x, z)
  BY <1>5
<1>7. Sending(r)' \subseteq Sending(r)
  BY <1>6 DEF Moved, Sending, RunOf, StepOf
<1>8. CASE sends[r] = 0
  BY <1>1, <1>8 DEF Once
<1>9. CASE sends[r] # 0 /\ canceled[r]
  BY <1>1, <1>7, <1>9 DEF Once
<1>10. CASE sends[r] # 0 /\ ~canceled[r] /\ r # q
  <2>1. ~Sent(w, r)
    BY <1>2, <1>10 DEF Sent
  <2>2. Keeping(r)
    <3>1. step'[r] = step[r]
      <4>1. UNCHANGED step \/ \E i \in Step, y \in StepRecord : Changes(q, i, y)
        BY <1>3 DEF Updated
      <4>2. QED BY <1>10, <4>1 DEF Changes
    <3>2. QED BY <1>1, <3>1, StepStays DEF Keeping
  <2>3. QED BY <1>1, <1>6, <2>1, <2>2, OnceMoved
<1>11. CASE sends[r] # 0 /\ ~canceled[r] /\ r = q
  <2>1. Delivered(r) /\ Ok(r, "worker") /\ Passed(r, "synthesize") /\ Passed(r, "evaluate")
    BY <1>11 DEF Once, Delivered
  <2>2. /\ s = "deliver" /\ WritesDelivery(r, worker[w].todo)
        /\ Ok(r, "deliver") \/ Head(worker[w].todo) = End("deliver", "ok")
    BY <1>1, <1>2, <1>11, <2>1, DeliveredIsDone
  <2>3. u = Head(worker[w].todo)
    BY <1>3 DEF Updated
  <2>4. CASE u = End("deliver", "ok")
    <3>1. u.op = "end" /\ u.step = "deliver" /\ u.status = "ok"
      BY <2>4 DEF End
    <3>2. /\ \A i \in Step : i # "deliver" => step'[r][i] = step[r][i]
          /\ step'[r]["deliver"].status = "ok"
      BY <1>3, <1>11, <3>1, UpdateRows
    <3>3. Delivered(r)'
      BY <2>1, <3>2, StepNames DEF Delivered, Ok, Passed
    <3>4. QED BY <1>1, <1>7, <3>3 DEF Once
  <2>5. CASE u # End("deliver", "ok")
    <3>1. Ok(r, "deliver")
      BY <2>2, <2>3, <2>5
    <3>2. ~Leasing(r, "deliver") /\ ~NoMore(r, "deliver")
      BY <3>1 DEF Ok, Leasing, NoMore
    <3>3. PICK res \in {"ok", "error"} : worker[w].todo = <<Close(res)>>
      BY <2>2, <3>2 DEF WritesDelivery
    <3>4. u = Close(res)
      BY <2>3, <3>3, Tuples
    <3>5. u.op = "close"
      BY <3>4 DEF Close
    <3>6. \A i \in Step : step'[r][i] = step[r][i]
      BY <1>3, <1>11, <3>5, UpdateRows
    <3>7. Delivered(r)'
      BY <2>1, <3>1, <3>6, StepNames DEF Delivered, Ok, Passed
    <3>8. QED BY <1>1, <1>7, <3>7 DEF Once
  <2>6. QED BY <2>4, <2>5
<1>12. QED BY <1>8, <1>9, <1>10, <1>11

\* The result is given to the channel: nobody had given it, and the worker is alone.
LEMMA DeliverOnce ==
  ASSUME DInv, Good, NEW w \in Worker, Deliver(w), NEW r \in Run, Once(r) PROVE Once(r)'
<1>1. /\ At(w, "exec") /\ StepOf(w) = "deliver" /\ Engaged(w) /\ UNCHANGED <<status, canceled, step>>
      /\ sends' = [sends EXCEPT ![RunOf(w)] = @ + 1]
      /\ Write(w, <<End("deliver", "ok"), Close("ok")>>)
  BY DEF Deliver, Delivering, At, Engaged, Executing, queueVars
<1>2. PICK q \in Run, z \in Seq(Updates) : q = RunOf(w) /\ z = <<End("deliver", "ok"), Close("ok")>>
  BY <1>1, Known, Todos DEF At
<1>3. Moved(w, "write", q, "deliver", z)
  BY <1>1, <1>2, Known, WriteMoves
<1>4. sends \in [Run -> Nat] /\ ~Sent(w, r) /\ Keeping(r)
  BY <1>1, StepStays DEF DInv, JTyped, Sent, HasSent, At, Keeping
<1>5. CASE r # q
  <2>1. sends'[r] = sends[r]
    BY <1>1, <1>2, <1>4, <1>5
  <2>2. QED BY <1>3, <1>4, <2>1, OnceMoved
<1>6. CASE r = q
  <2>1. w \in Sending(r)
    BY <1>1, <1>2, <1>6 DEF Sending, At
  <2>2. sends[r] = 0
    BY <2>1 DEF Once
  <2>3. sends'[r] = 1
    BY <1>1, <1>2, <1>4, <1>6, <2>2
  <2>4. Sending(r)' = {}
    <3>1. SUFFICES ASSUME NEW v \in Worker, worker'[v].at \in {"leased", "exec"}, RunOf(v)' = r PROVE FALSE
      BY DEF Sending
    <3>2. v # w /\ worker'[v] = worker[v]
      BY <1>3, <3>1 DEF Moved
    <3>3. Engaged(v) /\ RunOf(v) = r
      BY <3>1, <3>2 DEF Engaged, Executing, RunOf
    <3>4. Alone(w)
      BY <1>1 DEF Good
    <3>5. QED BY <1>2, <1>6, <3>2, <3>3, <3>4 DEF Alone
  <2>5. ~canceled'[r] => Delivered(r)'
    <3>1. SUFFICES ASSUME ~canceled[r] PROVE Delivered(r)'
      BY <1>1
    <3>2. AtStep(r, "deliver")
      <4>1. KnowsAt(r, worker[w].at, StepOf(w), worker[w].todo)
        BY <1>1, <1>2, <1>6, <3>1, KnowsIs DEF Good
      <4>2. QED BY <1>1, <4>1 DEF KnowsAt, At
    <3>3. Ok(r, "worker")' /\ Passed(r, "synthesize")' /\ Passed(r, "evaluate")'
      BY <1>1, <3>2, StepStays DEF AtStep
    <3>4. Head(z) = End("deliver", "ok")
      BY <1>2, Tuples
    <3>5. Sent(w, r)'
      BY <1>3, <1>6, <3>4 DEF Moved, Sent, HasSent, At, RunOf, StepOf
    <3>6. QED BY <3>3, <3>5 DEF Delivered
  <2>6. QED BY <2>3, <2>4, <2>5 DEF Once
<1>7. QED BY <1>5, <1>6

LEMMA StepMovesOnce ==
  ASSUME DInv, NEW w \in Worker,
         \/ Prepare(w) \/ Synthesize(w) \/ (\E res \in {"ok", "error"} : AgentReturns(w, res))
         \/ AgentThrows(w) \/ AgentIsAborted(w) \/ SkipDelivery(w) \/ DeliveryIsBlocked(w)
         \/ CheckCanceled(w) \/ ApplyOutcome(w),
         NEW r \in Run, Once(r)
  PROVE  Once(r)'
<1>1. worker[w].at \in {"leased", "exec", "check", "apply"} /\ UNCHANGED <<queueVars, sends>>
  BY DEF Prepare, Synthesize, AgentReturns, AgentThrows, AgentIsAborted, SkipDelivery,
         DeliveryIsBlocked, CheckCanceled, ApplyOutcome, Delivering, At, history
<1>2. ~HasSent(w) /\ Keeping(r) /\ sends'[r] = sends[r]
  BY <1>1, StepStays DEF HasSent, At, Keeping, queueVars
<1>3. CASE \A v \in Worker : worker'[v] = worker[v] \/ (v = w /\ worker'[v].at \notin {"leased", "exec"})
  BY <1>2, <1>3, SentStays, OnceKept
<1>4. CASE Prepare(w) /\ Go(w, "exec")
  <2>1. PICK q, s, t : q = RunOf(w) /\ s = StepOf(w) /\ t = worker[w].todo
    OBVIOUS
  <2>2. Moved(w, "exec", q, s, t)
    BY <1>4, <2>1, Known, GoMoves DEF Stages
  <2>3. q # r \/ w \in Sending(r) \/ s # "deliver"
    BY <1>4, <2>1 DEF Prepare, At, Sending
  <2>4. ~Sent(w, r)
    BY <1>2 DEF Sent
  <2>5. QED BY <1>2, <2>2, <2>3, <2>4, OnceMoved
<1>5. CASE ~(Prepare(w) /\ Go(w, "exec"))
  <2>1. \/ Rest(w) \/ (\E t : Write(w, t)) \/ (\E at \in {"failed", "apply"} : Go(w, at))
        \/ (Loop(w) /\ Prepare(w))
    BY <1>5
    DEF Prepare, Synthesize, AgentReturns, AgentThrows, AgentIsAborted, SkipDelivery,
        DeliveryIsBlocked, CheckCanceled, ApplyOutcome
  <2>2. Proceed(w)
    BY DEF Proceed
  <2>3. /\ \A v \in Worker : v # w => worker'[v] = worker[v]
        /\ worker \in [Worker -> WorkerRecord]
    BY <2>2, ProceedMoves, Known
  <2>4. PICK c \in WorkerRecord : c = worker[w]
    BY <2>3
  <2>5. worker'[w].at \notin {"leased", "exec"}
    <3>1. CASE Rest(w)
      BY <2>3, <3>1 DEF Rest, Resting
    <3>2. CASE \E t : Write(w, t)
      <4>1. PICK t : worker' = [worker EXCEPT ![w].at = "write", ![w].todo = t]
        BY <3>2 DEF Write
      <4>2. worker'[w] = [c EXCEPT !.at = "write", !.todo = t]
        BY <2>3, <2>4, <4>1
      <4>3. QED BY <4>2 DEF WorkerRecord
    <3>3. CASE \E at \in {"failed", "apply"} : Go(w, at)
      <4>1. PICK at \in {"failed", "apply"} : worker' = [worker EXCEPT ![w].at = at]
        BY <3>3 DEF Go
      <4>2. worker'[w] = [c EXCEPT !.at = at]
        BY <2>3, <2>4, <4>1
      <4>3. QED BY <4>2 DEF WorkerRecord
    <3>4. CASE Loop(w) /\ Prepare(w)
      <4>1. PICK run : run = LoopRun(w, RunOf(w))
        OBVIOUS
      <4>2. RunOf(w) \in Run
        BY <3>4, Known DEF Prepare, At
      <4>3. Moved(w, "loop", run, "worker", <<>>)
        BY <2>3, <3>4, <4>1, <4>2, LoopMoves DEF Loop
      <4>4. QED BY <4>3 DEF Moved
    <3>5. QED BY <2>1, <3>1, <3>2, <3>3, <3>4
  <2>6. QED BY <1>3, <2>3, <2>5
<1>6. QED BY <1>4, <1>5

LEMMA ProceedOnce ==
  ASSUME DInv, Good, NEW w \in Worker, Proceed(w), ~doubt', NEW r \in Run, Once(r) PROVE Once(r)'
<1>1. CASE Lease(w) \/ LeaseNothing(w)
  BY <1>1, LeaseOnce, LeaseNothingOnce
<1>2. CASE RetryStep(w) \/ Update(w) \/ Deliver(w)
  BY <1>2, RetryStepOnce, UpdateOnce, DeliverOnce
<1>3. \A out \in {0, 1} : ~DeliveryFails(w, out)
  BY DEF DeliveryFails
<1>4. CASE ~(Lease(w) \/ LeaseNothing(w) \/ RetryStep(w) \/ Update(w) \/ Deliver(w))
  BY <1>3, <1>4, StepMovesOnce DEF Proceed
<1>5. QED BY <1>1, <1>2, <1>4

\* Rows under the operator, the scans and the clock, while no run is taken and none is
\* retried.
LEMMA AsideKeeping ==
  ASSUME DInv, Controls, Orderly, [Next]_vars, Orderly', Aside, NEW r \in Run PROVE Keeping(r)
<1>1. "retry" \in Incidents /\ ~Happened("retry")' /\ ~Happened("retry")
  BY DEF Orderly, Quiet, Incidents
<1>2. CASE UNCHANGED <<canceled, step>>
  BY <1>2, StepStays DEF Keeping
<1>3. CASE \E c \in Callers : RetryRun(c) \/ Mark(c) \/ Discard(c)
  <2>1. \A c \in Callers : ~RetryRun(c)
    BY <1>1 DEF RetryRun, Controls, Worker
  <2>2. QED BY <1>2, <1>3, <2>1 DEF Mark, Discard, queueVars
<1>4. CASE \E c \in Callers, q \in Run : Cancel(c, q) \/ AskRetry(c, q) \/ ClearStale(c, q)
  <2>1. PICK c \in Callers, q \in Run : Cancel(c, q) \/ ClearStale(c, q)
    BY <1>1, <1>4, Remembered DEF AskRetry
  <2>2. CASE Cancel(c, q)
    <3>1. canceled' = [canceled EXCEPT ![q] = TRUE] /\ step' = [step EXCEPT ![q] = EndSteps(q, "canceled")]
      BY <2>2 DEF Cancel
    <3>2. canceled'[r] \/ (canceled'[r] = canceled[r] /\ step'[r] = step[r])
      BY <3>1, Row
    <3>3. QED BY <3>2, StepStays DEF Keeping
  <2>3. CASE ClearStale(c, q)
    <3>1. UNCHANGED canceled /\ step' = [step EXCEPT ![q] = [s \in Step |-> ClearedStep(q, s)]]
      BY <2>3 DEF ClearStale, ClearedStep
    <3>2. \A s \in Step : EasedStep(step[r][s], step'[r][s])
      <4>1. CASE r # q
        BY <3>1, <4>1, Row DEF EasedStep
      <4>2. CASE r = q
        <5>1. ASSUME NEW s \in Step PROVE EasedStep(step[r][s], step'[r][s])
          <6>1. step'[r][s] = ClearedStep(r, s)
            BY <3>1, <4>2, Row
          <6>2. EasedStep(step[r][s], ClearedStep(r, s))
            BY <2>3, <4>2, ClearSound
          <6>3. QED BY <6>1, <6>2
        <5>2. QED BY <5>1
      <4>3. QED BY <4>1, <4>2
    <3>3. QED BY <3>1, <3>2, EasedIsKeeping DEF EasedRow
  <2>4. QED BY <2>1, <2>2, <2>3
<1>5. CASE Tick \/ \E w \in Outside : Poll(w)
  <2>1. RecoverExpiredLeases
    BY <1>5 DEF Tick, Poll
  <2>2. /\ \A s \in Step : EasedStep(step[r][s], step'[r][s])
        /\ Same(r) \/ canceled'[r] = canceled[r]
    BY <2>1, RecoverSound
  <2>3. QED BY <2>2, EasedIsKeeping DEF EasedRow, Same
<1>6. CASE \E q \in Run, s \in Step : StepLeaseExpires(q, s) \/ RetryDelayPasses(q, s)
  <2>1. PICK q \in Run, s \in Step : StepLeaseExpires(q, s) \/ RetryDelayPasses(q, s)
    BY <1>6
  <2>2. UNCHANGED canceled
    BY <2>1 DEF StepLeaseExpires, RetryDelayPasses
  <2>3. PICK y \in StepRecord : Changes(q, s, y) /\ step[q][s].status \in {"running", "queued"}
    <3>1. CASE StepLeaseExpires(q, s)
      BY <3>1, LeaseExpiryIs
    <3>2. CASE RetryDelayPasses(q, s)
      <4>1. step[q][s].status = "queued"
        BY <3>2, Row DEF RetryDelayPasses, Timed
      <4>2. QED BY <3>2, <4>1, DelayIs
    <3>3. QED BY <2>1, <3>1, <3>2
  <2>4. \A x \in Step : r # q \/ x # s => step'[r][x] = step[r][x]
    BY <2>3 DEF Changes
  <2>5. ~Passed(q, s) /\ ~Ok(q, s)
    BY <2>3 DEF Passed, Ok
  <2>6. QED BY <2>2, <2>4, <2>5, StepStays DEF Keeping
<1>7. QED
  BY <1>2, <1>3, <1>4, <1>5, <1>6
  DEF Aside, vars, queueVars, Reserve, TickMaintains, ReadMaintains, Maintain, OperatorChangesJob,
      ChangeJob, EditJobs, JobLeaseExpires

LEMMA AsideOnce ==
  ASSUME DInv, Controls, Orderly, [Next]_vars, Orderly', Aside, NEW r \in Run, Once(r) PROVE Once(r)'
<1>1. Keeping(r)
  BY AsideKeeping
<1>2. \A v \in Worker : worker'[v] = worker[v] \/ (~HasSent(v) /\ worker'[v].at \notin {"leased", "exec"})
  BY AsideMoves DEF StayIdle, HasSent, At, Idle
<1>3. sends'[r] = sends[r]
  BY DEF Aside, vars, history, Reserve, RetryRun, Mark, Discard, Cancel, AskRetry, ClearStale, Tick, Poll,
         TickMaintains, ReadMaintains, Maintain, OperatorChangesJob, ChangeJob, EditJobs,
         StepLeaseExpires, RetryDelayPasses, JobLeaseExpires
<1>4. QED BY <1>1, <1>2, <1>3, SentStays, OnceKept

\* Nobody dies between the send of a result and its record.
LEMMA DeathOnce ==
  ASSUME DInv, (\E w \in Outside : OutsideDies(w)) \/ GatewayRestarts, ~doubt', NEW r \in Run, Once(r)
  PROVE  Once(r)'
<1>1. sends'[r] = sends[r]
  BY DEF OutsideDies, GatewayRestarts
<1>2. \A v \in Worker : worker'[v] = worker[v] \/ (~HasSent(v) /\ worker'[v].at \notin {"leased", "exec"})
  <2>1. CASE GatewayRestarts
    <3>1. \A v \in Gateway : ~HasSent(v)
      BY <2>1 DEF GatewayRestarts, Doubt
    <3>2. QED BY <2>1, <3>1, RestingRecord DEF GatewayRestarts
  <2>2. CASE \E w \in Outside : OutsideDies(w)
    <3>1. PICK w \in Outside : OutsideDies(w)
      BY <2>2
    <3>2. ~HasSent(w) /\ Rest(w) /\ w \in Worker
      BY <3>1 DEF OutsideDies, Doubt, Worker
    <3>3. Moved(w, "rest", 0, "worker", <<>>)
      BY <3>2, Known, RestMoves
    <3>4. QED BY <3>2, <3>3 DEF Moved
  <2>3. QED BY <2>1, <2>2
<1>3. Keeping(r)
  <2>1. CASE GatewayRestarts
    <3>1. IF IsRecovered(r) THEN canceled'[r] = canceled[r] /\ step'[r] = EndSteps(r, "recovered") ELSE Same(r)
      BY <2>1, RestartSound
    <3>2. CASE IsRecovered(r)
      BY <3>1, <3>2, EndedPasses DEF Keeping
    <3>3. QED BY <3>1, <3>2, SameIsKeeping
  <2>2. CASE \E w \in Outside : OutsideDies(w)
    BY <2>2, StepStays DEF OutsideDies, queueVars, Keeping
  <2>3. QED BY <2>1, <2>2
<1>4. QED BY <1>1, <1>2, <1>3, SentStays, OnceKept

LEMMA DoubtStays == ASSUME [Next]_vars, doubt PROVE doubt'
<1>1. CASE \E w \in Worker : Proceed(w)
  BY <1>1
  DEF Proceed, Lease, LeaseNothing, Prepare, Synthesize, AgentReturns, AgentThrows, AgentIsAborted,
      SkipDelivery, Deliver, DeliveryIsBlocked, DeliveryFails, RetryStep, Update, CheckCanceled,
      ApplyOutcome, history
<1>2. CASE Aside
  BY <1>2
  DEF Aside, vars, history, Reserve, RetryRun, Mark, Discard, Cancel, AskRetry, ClearStale, Tick, Poll,
      TickMaintains, ReadMaintains, Maintain, OperatorChangesJob, ChangeJob, EditJobs,
      StepLeaseExpires, RetryDelayPasses, JobLeaseExpires
<1>3. CASE (\E w \in Outside : OutsideDies(w)) \/ GatewayRestarts
  BY <1>3 DEF OutsideDies, GatewayRestarts, Doubt
<1>4. QED BY <1>1, <1>2, <1>3, StepsAside

LEMMA SentNext == ASSUME DInv, OInv, SInv, [Next]_vars PROVE SInv'
<1>1. SUFFICES ASSUME Orderly', ~doubt', NEW r \in Run PROVE Once(r)'
  BY DEF SInv
<1>2. Orderly /\ Controls /\ Good /\ Once(r)
  BY <1>1, OrderlyBefore, DoubtStays DEF OInv, SInv
<1>3. CASE \E w \in Worker : Proceed(w)
  BY <1>1, <1>2, <1>3, ProceedOnce
<1>4. CASE Aside
  BY <1>1, <1>2, <1>4, AsideOnce
<1>5. CASE (\E w \in Outside : OutsideDies(w)) \/ GatewayRestarts
  BY <1>1, <1>2, <1>5, DeathOnce
<1>6. QED BY <1>3, <1>4, <1>5, StepsAside

\* The channel gets the result of a run twice only if its answer was an error or the
\* sender died before recording it, if the run was taken from a worker that was at it,
\* or if an operator asked for a retry: not through the workers that share the queue.
THEOREM SentOnceUnlessCaused == Spec => []SentAgainForCause
<1>1. Init => SInv
  BY DEF Init, SInv, Once
<1>2. DInv /\ OInv /\ SInv /\ [Next]_vars => SInv'
  BY SentNext
<1>3. DInv /\ SInv => SentAgainForCause
  BY DEF SInv, Once, Orderly, Quiet, SentAgainForCause
<1>4. QED BY <1>1, <1>2, <1>3, OrderInvariant, PTL DEF Spec

-----------------------------------------------------------------------------
(* A job is executed by one run.                                           *)

\* No run was taken from a worker, no job with a worker at it was disabled or removed,
\* and no operator has interfered.
Calm == Quiet({"overrun", "discard", "cancel", "retry", "clear"})
\* A worker past the check that the job is its run's, until it is done with the job.
Holding(w) == Executing(w) \/ worker[w].at \in {"check", "apply"}
HInv == Calm => \A w \in Worker : Holding(w) => active = RunOf(w)

LEMMA CalmBefore == ASSUME DInv, [Next]_vars, Calm' PROVE Calm
<1>1. {"overrun", "discard", "cancel", "retry", "clear"} \subseteq Incidents
  BY DEF Incidents
<1>2. QED BY <1>1, Remembered DEF Calm, Quiet

LEMMA CalmIsOrderly == Calm => Orderly /\ ~Happened("cancel") /\ ~Happened("clear") /\ ~Happened("retry")
BY DEF Calm, Orderly, Quiet

LEMMA HoldingIs ==
  ASSUME DInv, NEW w \in Worker
  PROVE  /\ Holding(w) <=> worker[w].at \in Busy \ {"leased"}
         /\ Holding(w)' <=> worker'[w].at \in Busy \ {"leased"}
         /\ Holding(w) => Engaged(w) /\ RunOf(w) \in Run
<1>1. /\ Holding(w) <=> worker[w].at \in Busy \ {"leased"}
      /\ Holding(w)' <=> worker'[w].at \in Busy \ {"leased"}
  BY DEF Holding, Executing, Busy
<1>2. Holding(w) => Engaged(w) /\ RunOf(w) \in Run
  BY <1>1, EngagedIsBusy, Known DEF Busy
<1>3. QED BY <1>1, <1>2

\* Who stays as it is keeps the job, if the job is left to its run.
LEMMA HoldKept ==
  ASSUME DInv, \A w \in Worker : Holding(w) => active = RunOf(w),
         \A w \in Worker : Holding(w)' => worker'[w] = worker[w],
         (\E w \in Worker : Holding(w) /\ Holding(w)' /\ RunOf(w) = active) => active' = active
  PROVE  \A w \in Worker : Holding(w)' => active' = RunOf(w)'
<1>1. SUFFICES ASSUME NEW w \in Worker, Holding(w)' PROVE active' = RunOf(w)'
  OBVIOUS
<1>2. worker'[w] = worker[w] /\ Holding(w)
  BY <1>1, HoldingIs
<1>3. QED BY <1>1, <1>2 DEF RunOf

LEMMA ProceedHolds ==
  ASSUME DInv, Good, NEW w \in Worker, Proceed(w), \A v \in Worker : Holding(v) => active = RunOf(v)
  PROVE  \A v \in Worker : Holding(v)' => active' = RunOf(v)'
<1>1. \A v \in Worker : v # w => worker'[v] = worker[v]
  BY ProceedMoves
<1>2. worker \in [Worker -> WorkerRecord]
  BY Known
<1>3. ASSUME NEW v \in Worker, v # w, Holding(v)'
      PROVE  Holding(v) /\ active = RunOf(v) /\ RunOf(v)' = RunOf(v)
  BY <1>1, <1>3, HoldingIs DEF RunOf
<1>4. CASE ApplyOutcome(w)
  <2>1. Rest(w) /\ At(w, "apply")
    BY <1>4 DEF ApplyOutcome
  <2>2. Holding(w) /\ Engaged(w) /\ active = RunOf(w)
    BY <2>1 DEF Holding, At, Engaged
  <2>3. ~Holding(w)'
    <3>1. worker'[w].at = "rest"
      BY <1>2, <2>1, RestMoves DEF Moved
    <3>2. QED BY <3>1, HoldingIs DEF Busy
  <2>4. \A v \in Worker : v # w => ~Holding(v)'
    <3>1. SUFFICES ASSUME NEW v \in Worker, v # w, Holding(v)' PROVE FALSE
      OBVIOUS
    <3>2. Holding(v) /\ RunOf(v) = RunOf(w) /\ Engaged(v)
      BY <1>3, <2>2, <3>1, HoldingIs
    <3>3. QED BY <2>2, <3>1, <3>2 DEF Good, Alone
  <2>5. QED BY <2>3, <2>4
<1>5. CASE ~ApplyOutcome(w)
  <2>1. active' = active
    BY <1>5
    DEF Proceed, Lease, LeaseNothing, Prepare, Synthesize, AgentReturns, AgentThrows, AgentIsAborted,
        SkipDelivery, Deliver, DeliveryIsBlocked, DeliveryFails, RetryStep, Update, CheckCanceled, jobVars
  <2>2. Holding(w)' => RunOf(w)' = RunOf(w) /\ (Holding(w) \/ active = RunOf(w))
    <3>1. CASE Lease(w)
      <4>1. PICK r \in Run, s \in Leased : Leases(w, r, s)
        BY <3>1, LeaseIs
      <4>2. PICK t : t = worker[w].todo
        OBVIOUS
      <4>3. worker'[w].at = "leased"
        BY <4>1, <4>2 DEF Leases, Moved
      <4>4. QED BY <4>3, HoldingIs
    <3>2. CASE Update(w)
      <4>1. PICK r, s : r \in Run /\ r = RunOf(w) /\ s = StepOf(w)
        BY <3>2, Known DEF Update, At
      <4>2. PICK u \in Updates, rest \in Seq(Updates) : Updated(w, r, u, rest)
        BY <3>2, <4>1, UpdateIs
      <4>3. PICK run : run = LoopRun(w, r)
        OBVIOUS
      <4>4. \/ Moved(w, "write", r, s, rest) \/ Moved(w, "check", r, "worker", <<>>)
            \/ Moved(w, "loop", run, "worker", <<>>)
        BY <4>1, <4>2, <4>3 DEF Updated
      <4>5. Holding(w)
        BY <3>2 DEF Update, Holding, Executing, At
      <4>6. worker'[w].at = "loop" \/ RunOf(w)' = r
        BY <4>4 DEF Moved, RunOf
      <4>7. QED BY <4>1, <4>5, <4>6, HoldingIs DEF Busy
    <3>3. CASE RetryStep(w)
      <4>1. PICK r, s : r = RunOf(w) /\ s = StepOf(w)
        OBVIOUS
      <4>2. PICK again \in BOOLEAN : RetriesStep(w, r, s, again)
        BY <3>3, <4>1, RetryStepIs
      <4>3. PICK run : run = LoopRun(w, r)
        OBVIOUS
      <4>4. PICK t : t = IF s = "deliver" THEN DeliveryFailure ELSE Failure
        OBVIOUS
      <4>5. Moved(w, "loop", run, "worker", <<>>) \/ Moved(w, "write", r, s, t)
        BY <4>2, <4>3, <4>4 DEF RetriesStep
      <4>6. Holding(w)
        BY <3>3 DEF RetryStep, Holding, Executing, At
      <4>7. worker'[w].at = "loop" \/ RunOf(w)' = r
        BY <4>5 DEF Moved, RunOf
      <4>8. QED BY <4>1, <4>6, <4>7, HoldingIs DEF Busy
    <3>4. CASE Prepare(w)
      <4>1. CASE HoldsJob(w)
        <5>1. PICK r, s, t : r = RunOf(w) /\ s = StepOf(w) /\ t = worker[w].todo
          OBVIOUS
        <5>2. Moved(w, "exec", r, s, t)
          BY <1>2, <3>4, <4>1, <5>1, GoMoves DEF Prepare, Stages
        <5>3. QED BY <4>1, <5>1, <5>2 DEF Moved, RunOf, HoldsJob, MarkedForRun
      <4>2. CASE ~HoldsJob(w)
        <5>1. PICK run : run = LoopRun(w, RunOf(w))
          OBVIOUS
        <5>2. RunOf(w) \in Run /\ Loop(w)
          BY <3>4, <4>2, Known DEF Prepare, At
        <5>3. Moved(w, "loop", run, "worker", <<>>)
          BY <1>2, <5>1, <5>2, LoopMoves DEF Loop
        <5>4. worker'[w].at = "loop"
          BY <5>3 DEF Moved
        <5>5. QED BY <5>4, HoldingIs DEF Busy
      <4>3. QED BY <4>1, <4>2
    <3>5. CASE LeaseNothing(w) \/ (CheckCanceled(w) /\ Rest(w))
      <4>1. Moved(w, "rest", 0, "worker", <<>>)
        BY <1>2, <3>5, RestMoves DEF LeaseNothing
      <4>2. worker'[w].at = "rest"
        BY <4>1 DEF Moved
      <4>3. QED BY <4>2, HoldingIs DEF Busy
    <3>6. CASE ~(\/ Lease(w) \/ Update(w) \/ RetryStep(w) \/ Prepare(w) \/ LeaseNothing(w)
                 \/ (CheckCanceled(w) /\ Rest(w)))
      <4>1. worker[w].at \in {"exec", "check"}
            /\ ((\E t : Write(w, t)) \/ \E at \in {"failed", "apply"} : Go(w, at))
        BY <1>5, <3>6
        DEF Proceed, Synthesize, AgentReturns, AgentThrows, AgentIsAborted, SkipDelivery, Deliver,
            DeliveryIsBlocked, DeliveryFails, CheckCanceled, Delivering, At
      <4>2. PICK c \in WorkerRecord : c = worker[w]
        BY <1>2
      <4>3. worker'[w].run = c.run
        <5>1. CASE \E t : Write(w, t)
          <6>1. PICK t : worker' = [worker EXCEPT ![w].at = "write", ![w].todo = t]
            BY <5>1 DEF Write
          <6>2. worker'[w] = [c EXCEPT !.at = "write", !.todo = t]
            BY <1>2, <4>2, <6>1
          <6>3. QED BY <6>2 DEF WorkerRecord
        <5>2. CASE \E at \in {"failed", "apply"} : Go(w, at)
          <6>1. PICK at \in {"failed", "apply"} : worker' = [worker EXCEPT ![w].at = at]
            BY <5>2 DEF Go
          <6>2. worker'[w] = [c EXCEPT !.at = at]
            BY <1>2, <4>2, <6>1
          <6>3. QED BY <6>2 DEF WorkerRecord
        <5>3. QED BY <4>1, <5>1, <5>2
      <4>4. Holding(w)
        BY <4>1 DEF Holding, Executing
      <4>5. QED BY <4>2, <4>3, <4>4 DEF RunOf
    <3>7. QED BY <3>1, <3>2, <3>3, <3>4, <3>5, <3>6
  <2>3. QED BY <1>3, <2>1, <2>2
<1>6. QED BY <1>4, <1>5

LEMMA AsideHolds ==
  ASSUME DInv, Controls, Calm, [Next]_vars, Calm', Aside, \A v \in Worker : Holding(v) => active = RunOf(v)
  PROVE  \A v \in Worker : Holding(v)' => active' = RunOf(v)'
<1>1. \A v \in Worker : Holding(v)' => worker'[v] = worker[v]
  BY AsideMoves, HoldingIs, EngagedIsBusy DEF StayIdle
<1>2. ASSUME NEW v \in Worker, Holding(v), RunOf(v) = active PROVE active' = active
  <2>1. active # 0 /\ cached = active /\ Working(active)
    <3>1. active # 0 /\ Engaged(v)
      BY <1>2, HoldingIs, Numbers
    <3>2. QED BY <1>2, <3>1 DEF Working, DInv, JTyped, JobSound
  <2>2. ~(0 \in {active, cached}) /\ ~Loses("overrun") /\ ~Loses("discard")
    <3>1. ~Record("overrun") /\ ~Record("discard")
      <4>1. /\ {"overrun", "discard"} \subseteq Incidents
            /\ ~Happened("overrun")' /\ ~Happened("discard")'
        BY DEF Incidents, Calm, Quiet
      <4>2. QED BY <4>1, Remembered
    <3>2. QED BY <2>1, <3>1 DEF Loses
  <2>3. CASE TickMaintains \/ ReadMaintains
    <3>1. Maintain(active)
      BY <2>1, <2>3 DEF TickMaintains, ReadMaintains
    <3>2. ~overdue /\ job # "disabled"
      BY <2>2, <3>1 DEF Maintain
    <3>3. QED BY <3>1, <3>2 DEF Maintain, Save, Freed, FreedIfDue
  <2>4. CASE \E c \in Callers : RetryRun(c) \/ Mark(c) \/ Discard(c)
    <3>1. \A c \in Callers : ~Mark(c) /\ ~Discard(c)
      BY CalmIsOrderly DEF Controls, Mark, Discard, Worker
    <3>2. QED BY <2>4, <3>1 DEF RetryRun, jobVars
  <2>5. CASE \/ UNCHANGED vars \/ JobLeaseExpires \/ Tick \/ \E w \in Outside : Poll(w)
             \/ \E c \in Callers, r \in Run : Cancel(c, r) \/ AskRetry(c, r) \/ ClearStale(c, r)
             \/ \E r \in Run, s \in Step : StepLeaseExpires(r, s) \/ RetryDelayPasses(r, s)
    BY <2>1, <2>5
    DEF vars, jobVars, JobLeaseExpires, Tick, Poll, Cancel, AskRetry, ClearStale, StepLeaseExpires,
        RetryDelayPasses
  <2>6. CASE OperatorChangesJob
    <3>1. \A to \in JobChanges : ChangeJob(to) => Save(cached)
      BY <2>2 DEF ChangeJob
    <3>2. Save(cached)
      BY <2>6, <3>1 DEF OperatorChangesJob, EditJobs
    <3>3. QED BY <2>1, <3>2 DEF Save
  <2>7. QED BY <2>2, <2>3, <2>4, <2>5, <2>6 DEF Aside
<1>3. QED BY <1>1, <1>2, HoldKept

LEMMA DeathHolds ==
  ASSUME DInv, Calm, [Next]_vars, Calm', (\E w \in Outside : OutsideDies(w)) \/ GatewayRestarts,
         \A v \in Worker : Holding(v) => active = RunOf(v)
  PROVE  \A v \in Worker : Holding(v)' => active' = RunOf(v)'
<1>1. \A v \in Worker : Holding(v)' => worker'[v] = worker[v]
  BY DeadMove, HoldingIs, RestingRecord DEF Busy
<1>2. ASSUME NEW v \in Worker, Holding(v), Holding(v)', RunOf(v) = active PROVE active' = active
  <2>1. CASE GatewayRestarts
    <3>1. v \notin Gateway
      <4>1. worker'[v] # Resting
        BY <1>2, HoldingIs, RestingRecord DEF Busy
      <4>2. QED BY <2>1, <4>1 DEF GatewayRestarts
    <3>2. v \in Outside /\ Engaged(v)
      BY <1>2, <3>1, HoldingIs DEF Gateway, Worker
    <3>3. Record("overrun")
      BY <1>2, <2>1, <3>2 DEF GatewayRestarts
    <3>4. "overrun" \in Incidents /\ ~Happened("overrun")'
      BY DEF Incidents, Calm, Quiet
    <3>5. QED BY <3>3, <3>4, Remembered
  <2>2. CASE \E w \in Outside : OutsideDies(w)
    BY <2>2 DEF OutsideDies, jobVars
  <2>3. QED BY <2>1, <2>2
<1>3. QED BY <1>1, <1>2, HoldKept

LEMMA HoldNext == ASSUME DInv, OInv, HInv, [Next]_vars PROVE HInv'
<1>1. SUFFICES ASSUME Calm' PROVE (\A w \in Worker : Holding(w) => active = RunOf(w))'
  BY DEF HInv
<1>2. Calm /\ Controls /\ Good /\ \A w \in Worker : Holding(w) => active = RunOf(w)
  BY <1>1, CalmBefore, CalmIsOrderly DEF OInv, HInv
<1>3. CASE \E w \in Worker : Proceed(w)
  BY <1>2, <1>3, ProceedHolds
<1>4. CASE Aside
  BY <1>1, <1>2, <1>4, AsideHolds
<1>5. CASE (\E w \in Outside : OutsideDies(w)) \/ GatewayRestarts
  BY <1>1, <1>2, <1>5, DeathHolds
<1>6. QED BY <1>3, <1>4, <1>5, StepsAside

\* Whoever executes a step of a run does so for a job that is still the run's, and so
\* the job has one executor, unless the run was taken from a worker, its job was disabled
\* or removed while a worker was at it, or an operator has interfered with the run.
THEOREM OneRunHolds == Spec => []OneRunExecutes
<1>1. Init => HInv
  <2>1. SUFFICES ASSUME Init PROVE \A w \in Worker : ~Holding(w)
    BY DEF HInv
  <2>2. QED BY <2>1 DEF Init, Resting, Holding, Executing
<1>2. DInv /\ OInv /\ HInv /\ [Next]_vars => HInv'
  BY HoldNext
<1>3. HInv => OneRunExecutes
  BY DEF HInv, Calm, Holding, OneRunExecutes
<1>4. QED BY <1>1, <1>2, <1>3, OrderInvariant, PTL DEF Spec
=============================================================================
