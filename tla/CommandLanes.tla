---------------------------- MODULE CommandLanes ----------------------------
(***************************************************************************)
(* The command lanes of the gateway (src/src/process/command-queue.ts) and *)
(* the run loop that drains and restarts them                              *)
(* (src/src/cli/gateway-cli/run-loop.ts), in one Node process.             *)
(*                                                                         *)
(* JavaScript runs one call at a time: `calls` is the call stack, and an   *)
(* event (a task that settles, a signal, a timer) is taken only when it is *)
(* empty.  The part of a task before its first await runs inside the pump  *)
(* that started it and may enqueue or clear again, so pumps nest.          *)
(***************************************************************************)
EXTENDS Integers, Sequences, FiniteSets

CONSTANTS Lane,         \* the lanes in use
          Entry,        \* the commands callers enqueue
          LaneOf,       \* the lane each command is enqueued in
          MaxLimit,     \* the largest maxConcurrent a configuration sets
          MaxRestarts,  \* bound on the restarts asked of one process
          NoEntry       \* a call that is not the start of a task

ASSUME LanesAssumption ==
  /\ LaneOf \in [Entry -> Lane]
  /\ NoEntry \notin Entry
  /\ MaxLimit \in Nat \ {0}
  /\ MaxRestarts \in Nat

VARIABLES queue,       \* LaneState.queue
          active,      \* LaneState.activeTaskIds
          limit,       \* LaneState.maxConcurrent
          pumping,     \* LaneState.draining
          generation,  \* LaneState.generation: every lane is bumped at once
          startedIn,   \* taskGeneration of a started entry
          fate,        \* what became of the promise of an entry
          calls,       \* the call stack, innermost call last
          toDrain,     \* lanes resetAllLanes has still to drain
          refusing,    \* gatewayDraining
          loop,        \* runGatewayLoop: starting a server or awaiting a restart
          shutdown,    \* where the handler of a signal is
          action,      \* GatewayRunSignalAction
          drained,     \* the answer of waitForAllTasks
          exit         \* the exit code, or "alive"

laneVars == <<queue, active, limit, pumping, startedIn, fate, calls>>
loopVars == <<loop, shutdown, action, drained, exit>>
vars == <<laneVars, generation, toDrain, refusing, loopVars>>

Settled == {"resolved", "rejected", "cleared", "refused"}
Running == {"sync", "running"}
Call == [lane : Lane, task : Entry \cup {NoEntry}]

Init ==
  /\ queue = [l \in Lane |-> <<>>]
  /\ active = [l \in Lane |-> {}]
  /\ limit = [l \in Lane |-> 1]
  /\ pumping = [l \in Lane |-> FALSE]
  /\ generation = 0
  /\ startedIn = [e \in Entry |-> 0]
  /\ fate = [e \in Entry |-> "new"]
  /\ calls = <<>>
  /\ toDrain = {}
  /\ refusing = FALSE
  /\ loop = "starting"
  /\ shutdown = "idle"
  /\ action = "stop"
  /\ drained = FALSE
  /\ exit = "alive"

-----------------------------------------------------------------------------
(* The call stack.                                                         *)

Top == calls[Len(calls)]
Callers == SubSeq(calls, 1, Len(calls) - 1)
Pump(l) == [lane |-> l, task |-> NoEntry]

\* The event loop may take the next event.
Idle == exit = "alive" /\ calls = <<>> /\ toDrain = {}

\* The code that may call into the queue: an event, or the first part of a task.
Calling == Idle \/ (calls # <<>> /\ Top.task # NoEntry)

InPump(l) == calls # <<>> /\ Top = Pump(l)

\* A lane takes another task: the condition of the pump's loop.
HasRoomForOneMore(l) == Cardinality(active[l]) <= limit[l] /\ queue[l] # <<>>
HasRoom(l) == Cardinality(active[l]) < limit[l] /\ queue[l] # <<>>

\* drainLane on a stack of calls: one pump at a time is admitted per lane.
DrainLane(l, stack) ==
  IF pumping[l]
  THEN calls' = stack /\ UNCHANGED pumping
  ELSE calls' = Append(stack, Pump(l)) /\ pumping' = [pumping EXCEPT ![l] = TRUE]

-----------------------------------------------------------------------------
(* Operations of the queue.                                                *)

Refuse(e) ==
  /\ fate' = [fate EXCEPT ![e] = "refused"]
  /\ UNCHANGED <<queue, calls, pumping>>

Accept(e) ==
  /\ queue' = [queue EXCEPT ![LaneOf[e]] = Append(@, e)]
  /\ fate' = [fate EXCEPT ![e] = "queued"]
  /\ DrainLane(LaneOf[e], calls)

AdmitInDrain(e) == Accept(e)
Admit(e) == IF refusing THEN Refuse(e) ELSE Accept(e)

Enqueue(e) ==
  /\ Calling /\ fate[e] = "new"
  /\ Admit(e)
  /\ UNCHANGED <<active, limit, startedIn, generation, toDrain, refusing, loopVars>>

AsConfigured(n) == n
AtLeastOne(n) == IF n < 1 THEN 1 ELSE n
Effective(n) == AtLeastOne(n)

\* Called by the gateway when it starts and when its configuration is reloaded.
SetCommandLaneConcurrency(l, n) ==
  /\ Idle
  /\ limit' = [limit EXCEPT ![l] = Effective(n)]
  /\ DrainLane(l, calls)
  /\ UNCHANGED <<queue, active, startedIn, fate, generation, toDrain, refusing, loopVars>>

EntriesLeft(l) == queue
EntriesSpliced(l) == [queue EXCEPT ![l] = <<>>]
AfterClear(l) == EntriesSpliced(l)

ClearCommandLane(l) ==
  /\ Calling /\ queue[l] # <<>>
  /\ queue' = AfterClear(l)
  /\ fate' = [e \in Entry |-> IF \E i \in 1..Len(queue[l]) : queue[l][i] = e
                              THEN "cleared" ELSE fate[e]]
  /\ UNCHANGED <<active, limit, pumping, startedIn, calls,
                 generation, toDrain, refusing, loopVars>>

-----------------------------------------------------------------------------
(* The pump: one turn of its loop, and its return, which takes the lane's  *)
(* draining mark down even when an outer pump of the lane still runs.      *)

StartTask(l) ==
  /\ InPump(l) /\ HasRoom(l)
  /\ LET e == Head(queue[l]) IN
       /\ queue' = [queue EXCEPT ![l] = Tail(@)]
       /\ active' = [active EXCEPT ![l] = @ \cup {e}]
       /\ startedIn' = [startedIn EXCEPT ![e] = generation]
       /\ fate' = [fate EXCEPT ![e] = "sync"]
       /\ calls' = Append(calls, [lane |-> l, task |-> e])
  /\ UNCHANGED <<limit, pumping, generation, toDrain, refusing, loopVars>>

PumpReturns(l) ==
  /\ InPump(l) /\ ~HasRoom(l)
  /\ pumping' = [pumping EXCEPT ![l] = FALSE]
  /\ calls' = Callers
  /\ UNCHANGED <<queue, active, limit, startedIn, fate, generation, toDrain, refusing, loopVars>>

\* The task reaches its first await: the pump that started it goes on.
TaskAwaits(e) ==
  /\ calls # <<>> /\ Top.task = e
  /\ fate' = [fate EXCEPT ![e] = "running"]
  /\ calls' = Callers
  /\ UNCHANGED <<queue, active, limit, pumping, startedIn,
                 generation, toDrain, refusing, loopVars>>

\* completeTask and the pump that follows it, the draining mark left as it is:
\* only a task of this generation is counted and pumps.
NoPumpAfter(e, stack) == calls' = stack
PumpOnce(e, stack) == calls' = Append(stack, Pump(LaneOf[e]))
PumpAfter(e, stack) == PumpOnce(e, stack)
Complete(e, outcome, stack) ==
  /\ fate' = [fate EXCEPT ![e] = outcome]
  /\ IF startedIn[e] = generation
     THEN /\ active' = [active EXCEPT ![LaneOf[e]] = @ \ {e}]
          /\ PumpAfter(e, stack)
     ELSE calls' = stack /\ UNCHANGED active
  /\ UNCHANGED <<queue, limit, pumping, startedIn, generation, toDrain, refusing, loopVars>>

TaskThrows(e) == calls # <<>> /\ Top.task = e /\ Complete(e, "rejected", Callers)

Settle(e) ==
  /\ Idle /\ fate[e] = "running"
  /\ \E outcome \in {"resolved", "rejected"} : Complete(e, outcome, calls)

-----------------------------------------------------------------------------
(* The run loop.                                                           *)

\* A server comes up: the loop arms restartResolver and waits.
ServerStarted ==
  /\ Idle /\ loop = "starting"
  /\ loop' = "waiting"
  /\ UNCHANGED <<laneVars, generation, toDrain, refusing, shutdown, action, drained, exit>>

ServerFailsToStart ==
  /\ Idle /\ loop = "starting"
  /\ exit' = "failed"
  /\ UNCHANGED <<laneVars, generation, toDrain, refusing, loop, shutdown, action, drained>>

\* request: a signal during a shutdown is ignored.
Signal(a) ==
  /\ Idle /\ shutdown = "idle"
  /\ a = "restart" => generation < MaxRestarts
  /\ shutdown' = "draining" /\ action' = a /\ drained' = FALSE
  /\ refusing' = TRUE
  /\ UNCHANGED <<laneVars, generation, toDrain, loop, exit>>

TotalQueueIsEmpty == \A l \in Lane : queue[l] = <<>> /\ active[l] = {}

\* A server still being started is not closed: `server` is null.
CloseServer == shutdown' = IF loop = "waiting" THEN "closing" ELSE "closed"

WaitAnswers ==
  /\ Idle /\ shutdown = "draining" /\ TotalQueueIsEmpty
  /\ drained' = TRUE
  /\ CloseServer
  /\ UNCHANGED <<laneVars, generation, toDrain, refusing, loop, action, exit>>

\* The deadline of the wait: a restart goes on, a stop fails without a checkpoint.
WaitTimesOut ==
  /\ Idle /\ shutdown = "draining" /\ ~TotalQueueIsEmpty
  /\ IF action = "restart"
     THEN CloseServer /\ UNCHANGED exit
     ELSE exit' = "failed" /\ UNCHANGED shutdown
  /\ UNCHANGED <<laneVars, generation, toDrain, refusing, loop, action, drained>>

ServerClosed ==
  /\ Idle /\ shutdown = "closing"
  /\ \/ shutdown' = "closed" /\ UNCHANGED exit
     \/ exit' = "failed" /\ UNCHANGED shutdown
  /\ UNCHANGED <<laneVars, generation, toDrain, refusing, loop, action, drained>>

\* The timer of 35 seconds, which only a server that hangs in close meets.
TimerFires ==
  /\ Idle /\ shutdown = "closing"
  /\ exit' = "failed"
  /\ UNCHANGED <<laneVars, generation, toDrain, refusing, loop, shutdown, action, drained>>
NoTimer == FALSE
ForceExit == TimerFires

\* A stop exits; so does a restart that a fresh process or the supervisor takes
\* over, or that cannot take the gateway's lock again.
Exit ==
  /\ Idle /\ shutdown = "closed"
  /\ exit' \in IF action = "stop" THEN {"ok"} ELSE {"ok", "failed"}
  /\ UNCHANGED <<laneVars, generation, toDrain, refusing, loop, shutdown, action, drained>>

\* resetAllLanes, run by the loop's next iteration.
KeepActive == UNCHANGED active
ForgetActive == active' = [l \in Lane |-> {}]
ResetActive == ForgetActive
DropQueued == queue' = [l \in Lane |-> <<>>]
KeepQueued == UNCHANGED queue
ResetQueue == KeepQueued
NoLanes == {}
LanesWithEntries == {l \in Lane : queue[l] # <<>>}
LanesToDrain == LanesWithEntries

ResetAllLanes ==
  /\ refusing' = FALSE
  /\ generation' = generation + 1
  /\ ResetActive
  /\ ResetQueue
  /\ pumping' = [l \in Lane |-> FALSE]
  /\ toDrain' = LanesToDrain
  /\ UNCHANGED <<limit, startedIn, fate, calls>>

\* The restart in the same process: it wakes the loop only if the loop is waiting.
RestartInProcess ==
  /\ Idle /\ shutdown = "closed" /\ action = "restart"
  /\ shutdown' = "idle"
  /\ IF loop = "waiting"
     THEN loop' = "starting" /\ ResetAllLanes
     ELSE UNCHANGED <<laneVars, generation, toDrain, refusing, loop>>
  /\ UNCHANGED <<action, drained, exit>>

DrainAfterReset(l) ==
  /\ exit = "alive" /\ calls = <<>> /\ l \in toDrain
  /\ toDrain' = toDrain \ {l}
  /\ DrainLane(l, calls)
  /\ UNCHANGED <<queue, active, limit, startedIn, fate, generation, refusing, loopVars>>

-----------------------------------------------------------------------------
PumpStep ==
  \/ \E l \in Lane : StartTask(l) \/ PumpReturns(l) \/ DrainAfterReset(l)
  \/ \E e \in Entry : TaskAwaits(e) \/ TaskThrows(e)
WaitEnds == WaitAnswers \/ WaitTimesOut
AfterClose == Exit \/ RestartInProcess

Next ==
  \/ \E e \in Entry : Enqueue(e) \/ Settle(e)
  \/ \E l \in Lane : ClearCommandLane(l) \/ \E n \in 0..MaxLimit : SetCommandLaneConcurrency(l, n)
  \/ PumpStep
  \/ ServerStarted \/ ServerFailsToStart
  \/ \E a \in {"stop", "restart"} : Signal(a)
  \/ WaitEnds \/ ServerClosed \/ ForceExit \/ AfterClose

Spec == Init /\ [][Next]_vars

\* The engine runs the call in progress and its event queue starves no event:
\* timers fire and tasks settle.  server.close may hang.
FairSpec ==
  /\ Spec
  /\ WF_vars(PumpStep)
  /\ SF_vars(\E e \in Entry : Settle(e))
  /\ SF_vars(WaitEnds \/ ForceExit \/ AfterClose)

-----------------------------------------------------------------------------
TypeOK ==
  /\ queue \in [Lane -> Seq(Entry)]
  /\ active \in [Lane -> SUBSET Entry]
  /\ limit \in [Lane -> 1..MaxLimit]
  /\ pumping \in [Lane -> BOOLEAN]
  /\ generation \in Nat
  /\ startedIn \in [Entry -> Nat]
  /\ fate \in [Entry -> {"new", "queued"} \cup Running \cup Settled]
  /\ calls \in Seq(Call)
  /\ toDrain \subseteq Lane
  /\ refusing \in BOOLEAN
  /\ loop \in {"starting", "waiting"}
  /\ shutdown \in {"idle", "draining", "closing", "closed"}
  /\ action \in {"stop", "restart"}
  /\ drained \in BOOLEAN
  /\ exit \in {"alive", "ok", "failed"}

\* A lane with work and room for it is never left waiting for the next enqueue:
\* when no call is in progress, every lane with queued entries is full
\* (drainLane, the pump after each completion, the drain after a reset).
NoIdleLane == Idle => \A l \in Lane : ~HasRoom(l)

\* The task ids a lane counts against its limit are exactly the tasks of this
\* generation that have not settled, whatever settles late after a reset: a
\* leftover id would hold a slot for ever, a lost one would exceed the limit
\* (completeTask, resetAllLanes).
ActiveIsRunning ==
  \A l \in Lane : active[l] = {e \in Entry : /\ LaneOf[e] = l /\ fate[e] \in Running
                                            /\ startedIn[e] = generation}

\* An accepted entry is in its lane's queue exactly once until it is started or
\* cleared, also across a reset (drain, clearCommandLane, resetAllLanes).
QueuedOnce ==
  \A l \in Lane :
    /\ {queue[l][i] : i \in 1..Len(queue[l])} = {e \in Entry : LaneOf[e] = l /\ fate[e] = "queued"}
    /\ \A i, j \in 1..Len(queue[l]) : queue[l][i] = queue[l][j] => i = j

\* After the drain was answered, and in every stop that goes on to close the
\* server, no entry of this generation is queued or running, and none is
\* accepted until the process ends or the loop restarts (waitForAllTasks).
CheckpointIsQuiescent ==
  shutdown \in {"closing", "closed"} /\ (drained \/ action = "stop") => TotalQueueIsEmpty

\* A promise given to a caller is settled at most once and never revived.
SettledOnce == [][\A e \in Entry : fate[e] \in Settled => fate'[e] = fate[e]]_vars

\* Every accepted command is settled, or the process ends (the pump, resetAllLanes).
EveryEntrySettles ==
  \A e \in Entry : fate[e] = "queued" ~> (fate[e] \in Settled \/ exit # "alive")

\* A stop or restart once begun ends: the process exits or the loop goes on
\* (the drain deadline and the force-exit timer of request).
ShutdownEnds == (shutdown # "idle") ~> (shutdown = "idle" \/ exit # "alive")

\* The lanes implement LaneContract: a lane executes the tasks of this generation, and those
\* of an earlier one are what a restart left behind.
Executed(l) ==
  {e \in Entry : LaneOf[e] = l /\ fate[e] \in Running /\ startedIn[e] = generation}
LeftBehind == {e \in Entry : fate[e] \in Running /\ startedIn[e] # generation}

Contract == INSTANCE LaneContract WITH
  line <- queue,
  running <- [l \in Lane |-> Executed(l)],
  left <- LeftBehind,
  settled <- {e \in Entry : fate[e] \in Settled},
  allowed <- limit,
  open <- ~refusing

\* Whatever pumps nest, tasks throw, limits change or resets come between: the commands of a
\* lane start in the order of their arrival, never more at a time than the lane allows, and
\* every promise is settled once (drainLane, completeTask, clearCommandLane, resetAllLanes).
KeepsLaneContract == Contract!Spec
=============================================================================
