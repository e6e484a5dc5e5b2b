----------------------------- MODULE LanesProofs -----------------------------
(***************************************************************************)
(* What the command lanes keep for any number of commands, lanes, limits   *)
(* and restarts: no lane idles over work, what is counted is what runs, an *)
(* accepted command is in one place and is settled once, and a checkpoint  *)
(* finds nothing running.                                                  *)
(***************************************************************************)
EXTENDS CommandLanes, TLAPS

\* The tasks on a stack of calls are in their first part, each once.
TasksOf(s) ==
  \A i \in 1..Len(s) : s[i].task # NoEntry =>
    /\ fate[s[i].task] = "sync"
    /\ \A j \in 1..Len(s) : s[j].task = s[i].task => i = j

OnStack(l, s) == \E i \in 1..Len(s) : s[i] = Pump(l)

\* A lane that has work and room, or is marked, has a pump on the stack that will look at it.
Pumped(l) ==
  /\ pumping[l] => OnStack(l, calls)
  /\ HasRoom(l) => OnStack(l, calls) \/ l \in toDrain

\* What the lane counts, and in what order it has the rest.
Counted(l) ==
  active[l] = {e \in Entry : LaneOf[e] = l /\ fate[e] \in Running /\ startedIn[e] = generation}

Holds(q, E) ==
  /\ {q[i] : i \in 1..Len(q)} = E
  /\ \A i, j \in 1..Len(q) : q[i] = q[j] => i = j
Waiting(l) == {e \in Entry : LaneOf[e] = l /\ fate[e] = "queued"}

\* A shutdown refuses commands, and takes the answer of its own drain.
Refusing ==
  /\ shutdown # "idle" => refusing
  /\ shutdown = "draining" => ~drained

IInv ==
  /\ TypeOK
  /\ TasksOf(calls)
  /\ \A l \in Lane : Pumped(l) /\ Counted(l) /\ Holds(queue[l], Waiting(l))
  /\ \A e \in Entry : startedIn[e] <= generation
  /\ Refusing
  /\ CheckpointIsQuiescent
-----------------------------------------------------------------------------
(* Queues and stacks.                                                      *)

LEMMA HoldsNone == Holds(<<>>, {})
BY DEF Holds

LEMMA HoldsAppended ==
  ASSUME NEW q \in Seq(Entry), NEW E, Holds(q, E), NEW e \in Entry, e \notin E
  PROVE  Append(q, e) \in Seq(Entry) /\ Holds(Append(q, e), E \cup {e})
<1> DEFINE p == Append(q, e)
<1>1. /\ p \in Seq(Entry) /\ Len(p) = Len(q) + 1 /\ Len(q) \in Nat /\ p[Len(q) + 1] = e
      /\ \A i \in 1..Len(q) : p[i] = q[i]
  OBVIOUS
<1> HIDE DEF p
<1>2. {p[i] : i \in 1..Len(p)} = E \cup {e}
  BY <1>1 DEF Holds
<1>3. \A i, j \in 1..Len(p) : p[i] = p[j] => i = j
  BY <1>1 DEF Holds
<1>4. QED BY <1>1, <1>2, <1>3 DEF Holds, p

LEMMA HoldsTailed ==
  ASSUME NEW q \in Seq(Entry), NEW E, Holds(q, E), q # <<>>
  PROVE  Head(q) \in E /\ Tail(q) \in Seq(Entry) /\ Holds(Tail(q), E \ {Head(q)})
<1> DEFINE p == Tail(q)
<1>1. /\ p \in Seq(Entry) /\ Len(p) = Len(q) - 1 /\ Len(q) \in Nat \ {0} /\ q[1] = Head(q)
      /\ \A i \in 1..Len(p) : p[i] = q[i + 1]
  OBVIOUS
<1>2. Head(q) \in E
  BY <1>1 DEF Holds
<1> HIDE DEF p
<1>3. ASSUME NEW i \in 1..Len(p) PROVE p[i] \in E \ {Head(q)}
  BY <1>1, <1>3 DEF Holds
<1>4. ASSUME NEW e \in E \ {Head(q)} PROVE \E i \in 1..Len(p) : p[i] = e
  <2>1. PICK j \in 1..Len(q) : q[j] = e
    BY <1>4 DEF Holds
  <2>2. j # 1 /\ j - 1 \in 1..Len(p)
    BY <2>1, <1>1, <1>4
  <2>3. p[j - 1] = q[j]
    BY <2>2, <1>1
  <2>4. QED BY <2>1, <2>2, <2>3
<1>5. \A i, j \in 1..Len(p) : p[i] = p[j] => i = j
  BY <1>1 DEF Holds
<1>6. {p[i] : i \in 1..Len(p)} = E \ {Head(q)}
  BY <1>3, <1>4
<1>7. QED BY <1>1, <1>2, <1>5, <1>6 DEF Holds, p

LEMMA PumpIsACall ==
  ASSUME NEW l \in Lane
  PROVE  /\ Pump(l) \in Call /\ Pump(l).task = NoEntry
         /\ \A m \in Lane : Pump(m) = Pump(l) => m = l
BY DEF Pump, Call

LEMMA Pushed ==
  ASSUME NEW s \in Seq(Call), NEW c \in Call
  PROVE  /\ Append(s, c) \in Seq(Call) /\ Len(Append(s, c)) = Len(s) + 1 /\ Len(s) \in Nat
         /\ Append(s, c)[Len(s) + 1] = c
         /\ \A i \in 1..Len(s) : Append(s, c)[i] = s[i]
         /\ \A m \in Lane : OnStack(m, s) \/ c = Pump(m) => OnStack(m, Append(s, c))
<1>1. /\ Append(s, c) \in Seq(Call) /\ Len(Append(s, c)) = Len(s) + 1 /\ Len(s) \in Nat
      /\ Append(s, c)[Len(s) + 1] = c
      /\ \A i \in 1..Len(s) : Append(s, c)[i] = s[i]
  OBVIOUS
<1>2. QED BY <1>1 DEF OnStack

LEMMA Popped ==
  ASSUME calls \in Seq(Call), calls # <<>>
  PROVE  /\ Callers \in Seq(Call) /\ Len(Callers) = Len(calls) - 1 /\ Len(calls) \in Nat \ {0}
         /\ Top \in Call /\ Top = calls[Len(calls)]
         /\ \A i \in 1..Len(Callers) : Callers[i] = calls[i]
         /\ \A m \in Lane : OnStack(m, calls) /\ Top # Pump(m) => OnStack(m, Callers)
<1>1. /\ Callers \in Seq(Call) /\ Len(Callers) = Len(calls) - 1 /\ Len(calls) \in Nat \ {0}
      /\ Top \in Call /\ Top = calls[Len(calls)]
      /\ \A i \in 1..Len(Callers) : Callers[i] = calls[i]
  BY DEF Callers, Top
<1>2. QED BY <1>1 DEF OnStack

(* The tasks on a stack, after a call is made on it and some fates have changed. *)
LEMMA TasksPushed ==
  ASSUME NEW s \in Seq(Call), NEW c \in Call, calls' = Append(s, c), TasksOf(s),
         \A i \in 1..Len(s) : s[i].task # NoEntry => fate'[s[i].task] = "sync",
         c.task # NoEntry => /\ fate'[c.task] = "sync"
                             /\ \A i \in 1..Len(s) : s[i].task # c.task
  PROVE  TasksOf(calls)'
<1>1. /\ Len(calls') = Len(s) + 1 /\ Len(s) \in Nat /\ calls'[Len(s) + 1] = c
      /\ \A i \in 1..Len(s) : calls'[i] = s[i]
  BY Pushed
<1>2. ASSUME NEW i \in 1..Len(calls'), calls'[i].task # NoEntry
      PROVE  /\ fate'[calls'[i].task] = "sync"
             /\ \A j \in 1..Len(calls') : calls'[j].task = calls'[i].task => i = j
  <2>1. CASE i = Len(s) + 1
    BY <2>1, <1>1, <1>2
  <2>2. CASE i \in 1..Len(s)
    <3>1. calls'[i] = s[i] /\ s[i].task # NoEntry /\ fate'[s[i].task] = "sync"
      BY <2>2, <1>1, <1>2
    <3>2. ASSUME NEW j \in 1..Len(calls'), calls'[j].task = s[i].task PROVE i = j
      <4>1. CASE j \in 1..Len(s)
        BY <4>1, <3>1, <3>2, <2>2, <1>1 DEF TasksOf
      <4>2. CASE j = Len(s) + 1
        BY <4>2, <3>1, <3>2, <2>2, <1>1
      <4>3. QED BY <4>1, <4>2, <1>1
    <3>3. QED BY <3>1, <3>2
  <2>3. QED BY <2>1, <2>2, <1>1
<1>3. QED BY <1>2 DEF TasksOf

LEMMA TasksLeft ==
  ASSUME NEW s \in Seq(Call), calls' = s, TasksOf(s),
         \A i \in 1..Len(s) : s[i].task # NoEntry => fate'[s[i].task] = "sync"
  PROVE  TasksOf(calls)'
BY DEF TasksOf

LEMMA TasksOfCallers ==
  ASSUME calls \in Seq(Call), calls # <<>>, TasksOf(calls)
  PROVE  /\ TasksOf(Callers)
         /\ Top.task # NoEntry => /\ fate[Top.task] = "sync"
                                  /\ \A i \in 1..Len(Callers) : Callers[i].task # Top.task
BY Popped DEF TasksOf

(* drainLane leaves a pump of the lane on the stack. *)
LEMMA Drained ==
  ASSUME NEW l \in Lane, NEW s \in Seq(Call), DrainLane(l, s), pumping \in [Lane -> BOOLEAN],
         pumping[l] => OnStack(l, s)
  PROVE  /\ calls' \in Seq(Call) /\ pumping' \in [Lane -> BOOLEAN]
         /\ OnStack(l, calls') /\ \A m \in Lane : OnStack(m, s) => OnStack(m, calls')
         /\ \A m \in Lane : m # l => pumping'[m] = pumping[m]
         /\ calls' = s \/ calls' = Append(s, Pump(l))
<1>1. CASE pumping[l]
  BY <1>1 DEF DrainLane
<1>2. CASE ~pumping[l]
  <2>1. calls' = Append(s, Pump(l)) /\ pumping' = [pumping EXCEPT ![l] = TRUE] /\ Pump(l) \in Call
    BY <1>2, PumpIsACall DEF DrainLane
  <2>2. calls' \in Seq(Call) /\ \A m \in Lane : OnStack(m, s) \/ m = l => OnStack(m, calls')
    BY <2>1, Pushed
  <2>3. QED BY <2>1, <2>2
<1>3. QED BY <1>1, <1>2
-----------------------------------------------------------------------------
(* The initial state, and what each step keeps of the lanes.                *)

LEMMA InitSound == Init => IInv
<1> SUFFICES ASSUME Init PROVE IInv
  OBVIOUS
<1> USE LanesAssumption DEF Init
<1>1. 1 \in 1..MaxLimit
  OBVIOUS
<1>2. TypeOK
  <2>1. <<>> \in Seq(Entry) /\ <<>> \in Seq(Call) /\ 0 \in Nat
    OBVIOUS
  <2>2. /\ queue \in [Lane -> Seq(Entry)] /\ active \in [Lane -> SUBSET Entry]
        /\ limit \in [Lane -> 1..MaxLimit] /\ pumping \in [Lane -> BOOLEAN]
        /\ startedIn \in [Entry -> Nat]
        /\ fate \in [Entry -> {"new", "queued"} \cup Running \cup Settled]
    BY <1>1, <2>1
  <2>3. QED BY <2>1, <2>2 DEF TypeOK
<1>3. TasksOf(calls)
  BY DEF TasksOf
<1>4. ASSUME NEW l \in Lane PROVE Pumped(l) /\ Counted(l) /\ Holds(queue[l], Waiting(l))
  <2>1. Waiting(l) = {}
    BY DEF Waiting
  <2>2. QED BY <2>1, HoldsNone DEF Pumped, Counted, HasRoom, Running
<1>5. Refusing /\ CheckpointIsQuiescent
  BY DEF Refusing, CheckpointIsQuiescent
<1>6. QED BY <1>2, <1>3, <1>4, <1>5 DEF IInv

\* What the shutdown relies on, of a step of the lanes.
LoopRests == UNCHANGED <<refusing, loopVars>> /\ (refusing /\ TotalQueueIsEmpty => TotalQueueIsEmpty')

LEMMA LoopRestsSound ==
  ASSUME IInv, LoopRests
  PROVE  Refusing' /\ CheckpointIsQuiescent'
BY DEF IInv, LoopRests, Refusing, CheckpointIsQuiescent, loopVars

LEMMA SameRoom ==
  ASSUME NEW l \in Lane, queue'[l] = queue[l], active'[l] = active[l], limit'[l] = limit[l]
  PROVE  HasRoom(l)' <=> HasRoom(l)
BY DEF HasRoom

LEMMA EnqueueSound == ASSUME IInv, NEW e \in Entry, Enqueue(e) PROVE IInv'
<1> DEFINE l == LaneOf[e]
<1>1. l \in Lane /\ fate[e] = "new" /\ e # NoEntry
  BY LanesAssumption DEF Enqueue
<1>2. /\ UNCHANGED <<active, limit, startedIn, generation, toDrain, refusing, loopVars>>
      /\ Refuse(e) \/ (~refusing /\ Accept(e))
  BY DEF Enqueue, Admit
<1>3. PICK st \in {"refused", "queued"} :
        /\ fate' = [fate EXCEPT ![e] = st]
        /\ st = "refused" => Refuse(e)
        /\ st = "queued" => (~refusing /\ Accept(e))
  BY <1>2 DEF Refuse, Accept
<1>4. /\ fate' \in [Entry -> {"new", "queued"} \cup Running \cup Settled]
      /\ fate'[e] = st /\ \A f \in Entry : f # e => fate'[f] = fate[f]
      /\ \A i \in 1..Len(calls) : calls[i].task # NoEntry =>
            calls[i].task \in Entry /\ fate'[calls[i].task] = "sync"
  <2>1. fate' \in [Entry -> {"new", "queued"} \cup Running \cup Settled]
        /\ fate'[e] = st /\ \A f \in Entry : f # e => fate'[f] = fate[f]
    BY <1>3 DEF IInv, TypeOK, Settled
  <2>2. \A i \in 1..Len(calls) : calls[i] \in Call
    BY DEF IInv, TypeOK
  <2>3. ASSUME NEW i \in 1..Len(calls), calls[i].task # NoEntry
        PROVE  calls[i].task \in Entry /\ fate'[calls[i].task] = "sync"
    BY <2>1, <2>2, <2>3, <1>1 DEF IInv, TasksOf, Call
  <2>4. QED BY <2>1, <2>3
<1>5. \A m \in Lane : Counted(m)'
  BY <1>1, <1>2, <1>3, <1>4 DEF IInv, Counted, Running
<1>6. \A f \in Entry : (startedIn[f] <= generation)'
  BY <1>2 DEF IInv
<1>7. CASE Refuse(e)
  <2>1. UNCHANGED <<queue, calls, pumping>> /\ fate'[e] = "refused"
    BY <1>7, <1>4 DEF Refuse, IInv, TypeOK
  <2>2. TypeOK'
    BY <2>1, <1>2, <1>4 DEF IInv, TypeOK, loopVars
  <2>3. TasksOf(calls)'
    BY <2>1, <1>4 DEF IInv, TasksOf
  <2>4. ASSUME NEW m \in Lane PROVE Pumped(m)' /\ Holds(queue[m], Waiting(m))'
    <3>1. Waiting(m)' = Waiting(m)
      BY <2>1, <1>1, <1>4 DEF Waiting
    <3>2. Holds(queue[m], Waiting(m))'
      BY <3>1, <2>1 DEF IInv
    <3>3. Pumped(m)'
      BY <2>1, <1>2 DEF IInv, Pumped, HasRoom
    <3>4. QED BY <3>2, <3>3
  <2>5. Refusing' /\ CheckpointIsQuiescent'
    BY <2>1, <1>2, LoopRestsSound DEF LoopRests, TotalQueueIsEmpty
  <2>6. QED BY <2>2, <2>3, <2>4, <2>5, <1>5, <1>6 DEF IInv
<1>8. CASE ~refusing /\ Accept(e)
  <2>1. /\ queue' = [queue EXCEPT ![l] = Append(@, e)] /\ fate'[e] = "queued"
        /\ DrainLane(l, calls)
    BY <1>8, <1>4 DEF Accept, IInv, TypeOK
  <2>2. /\ queue \in [Lane -> Seq(Entry)] /\ calls \in Seq(Call) /\ pumping \in [Lane -> BOOLEAN]
        /\ \A m \in Lane : Pumped(m) /\ Holds(queue[m], Waiting(m))
        /\ TasksOf(calls)
    BY DEF IInv, TypeOK
  <2>3. /\ calls' \in Seq(Call) /\ pumping' \in [Lane -> BOOLEAN]
        /\ OnStack(l, calls') /\ \A m \in Lane : OnStack(m, calls) => OnStack(m, calls')
        /\ \A m \in Lane : m # l => pumping'[m] = pumping[m]
        /\ calls' = calls \/ calls' = Append(calls, Pump(l))
    BY <2>1, <2>2, <1>1, Drained DEF Pumped
  <2>4. /\ queue'[l] = Append(queue[l], e) /\ \A m \in Lane : m # l => queue'[m] = queue[m]
    BY <2>1, <2>2, <1>1
  <2>5. ASSUME NEW m \in Lane PROVE Holds(queue[m], Waiting(m))' /\ queue'[m] \in Seq(Entry)
    <3>1. CASE m = l
      <4>1. Waiting(l)' = Waiting(l) \cup {e} /\ e \notin Waiting(l)
        BY <2>1, <1>1, <1>4 DEF Waiting
      <4>2. Append(queue[l], e) \in Seq(Entry) /\ Holds(Append(queue[l], e), Waiting(l) \cup {e})
        BY <4>1, <2>2, <1>1, HoldsAppended
      <4>3. QED BY <3>1, <4>1, <4>2, <2>4
    <3>2. CASE m # l
      <4>1. Waiting(m)' = Waiting(m) /\ queue'[m] = queue[m]
        BY <3>2, <2>4, <1>1, <1>4 DEF Waiting
      <4>2. QED BY <4>1, <2>2
    <3>3. QED BY <3>1, <3>2
  <2>6. queue' \in [Lane -> Seq(Entry)]
    BY <2>1, <2>2, <2>5
  <2>7. TypeOK'
    BY <2>3, <2>6, <1>2, <1>4 DEF IInv, TypeOK, loopVars
  <2>8. TasksOf(calls)'
    <3>1. CASE calls' = calls
      BY <3>1, <2>2, <1>4, TasksLeft
    <3>2. CASE calls' = Append(calls, Pump(l))
      BY <3>2, <2>2, <1>1, <1>4, PumpIsACall, TasksPushed
    <3>3. QED BY <2>3, <3>1, <3>2
  <2>9. ASSUME NEW m \in Lane PROVE Pumped(m)'
    <3>1. CASE m = l
      BY <3>1, <2>3 DEF Pumped
    <3>2. CASE m # l
      <4>1. HasRoom(m)' <=> HasRoom(m)
        BY <3>2, <2>4, <1>2, SameRoom
      <4>2. QED BY <4>1, <3>2, <2>2, <2>3, <1>2 DEF Pumped
    <3>3. QED BY <3>1, <3>2
  <2>10. Refusing' /\ CheckpointIsQuiescent'
    BY <1>2, <1>8, LoopRestsSound DEF LoopRests
  <2>11. QED BY <2>5, <2>7, <2>8, <2>9, <2>10, <1>5, <1>6 DEF IInv
<1>9. QED BY <1>2, <1>7, <1>8

LEMMA ClearSound == ASSUME IInv, NEW l \in Lane, ClearCommandLane(l) PROVE IInv'
<1>1. /\ queue[l] # <<>> /\ queue' = [queue EXCEPT ![l] = <<>>]
      /\ UNCHANGED <<active, limit, pumping, startedIn, calls, generation, toDrain, refusing, loopVars>>
  BY DEF ClearCommandLane, AfterClear, EntriesSpliced
<1>2. /\ queue \in [Lane -> Seq(Entry)] /\ <<>> \in Seq(Entry)
      /\ fate \in [Entry -> {"new", "queued"} \cup Running \cup Settled]
      /\ \A i \in 1..Len(calls) : calls[i] \in Call
  BY DEF IInv, TypeOK
<1>3. {queue[l][i] : i \in 1..Len(queue[l])} = Waiting(l)
  BY DEF IInv, Holds
<1>4. fate' = [e \in Entry |-> IF e \in Waiting(l) THEN "cleared" ELSE fate[e]]
  BY <1>3 DEF ClearCommandLane
<1>5. \A e \in Entry : fate[e] # "queued" => fate'[e] = fate[e]
  BY <1>4 DEF Waiting
<1>6. TypeOK'
  <2>1. fate' \in [Entry -> {"new", "queued"} \cup Running \cup Settled]
    BY <1>2, <1>4 DEF Settled
  <2>2. QED BY <2>1, <1>1, <1>2 DEF IInv, TypeOK, loopVars
<1>7. TasksOf(calls)'
  <2>1. \A i \in 1..Len(calls) : calls[i].task # NoEntry =>
           calls[i].task \in Entry /\ fate[calls[i].task] = "sync"
    BY <1>2 DEF IInv, TasksOf, Call
  <2>2. QED BY <2>1, <1>1, <1>5 DEF IInv, TasksOf
<1>8. ASSUME NEW m \in Lane PROVE Pumped(m)' /\ Counted(m)' /\ Holds(queue[m], Waiting(m))'
  <2>1. Counted(m)'
    BY <1>1, <1>2, <1>4 DEF IInv, Counted, Running, Waiting
  <2>2. CASE m = l
    <3>1. queue'[l] = <<>> /\ Waiting(l)' = {}
      BY <1>1, <1>2, <1>4 DEF Waiting
    <3>2. Pumped(l)'
      BY <3>1, <1>1 DEF IInv, Pumped, HasRoom
    <3>3. QED BY <2>1, <2>2, <3>1, <3>2, HoldsNone
  <2>3. CASE m # l
    <3>1. queue'[m] = queue[m] /\ Waiting(m)' = Waiting(m)
      BY <2>3, <1>1, <1>2, <1>4 DEF Waiting
    <3>2. HasRoom(m)' <=> HasRoom(m)
      BY <3>1, <1>1, SameRoom
    <3>3. QED BY <2>1, <3>1, <3>2, <1>1 DEF IInv, Pumped
  <2>4. QED BY <2>2, <2>3
<1>9. LoopRests
  BY <1>1 DEF LoopRests, TotalQueueIsEmpty
<1>10. QED BY <1>1, <1>6, <1>7, <1>8, <1>9, LoopRestsSound DEF IInv

(* A lane is drained with no call in progress: after a change of its limit or a reset. *)
LEMMA DrainSound ==
  ASSUME IInv, NEW l \in Lane, calls = <<>>, DrainLane(l, calls), limit' \in [Lane -> 1..MaxLimit],
         \A m \in Lane : m # l => limit'[m] = limit[m] /\ (m \in toDrain => m \in toDrain'),
         toDrain' \subseteq Lane,
         UNCHANGED <<queue, active, startedIn, fate, generation, refusing, loopVars>>
  PROVE  IInv'
<1>1. calls \in Seq(Call) /\ pumping \in [Lane -> BOOLEAN] /\ Pumped(l) /\ TasksOf(calls)
  BY DEF IInv, TypeOK
<1>2. /\ calls' \in Seq(Call) /\ pumping' \in [Lane -> BOOLEAN]
      /\ OnStack(l, calls') /\ \A m \in Lane : OnStack(m, calls) => OnStack(m, calls')
      /\ \A m \in Lane : m # l => pumping'[m] = pumping[m]
      /\ calls' = calls \/ calls' = Append(calls, Pump(l))
  BY <1>1, Drained DEF Pumped
<1>3. TypeOK'
  BY <1>2 DEF IInv, TypeOK, loopVars
<1>4. TasksOf(calls)'
  <2>1. \A i \in 1..Len(calls) : calls[i].task # NoEntry => fate'[calls[i].task] = "sync"
    BY <1>1 DEF TasksOf
  <2>2. CASE calls' = calls
    BY <2>1, <2>2, <1>1, TasksLeft
  <2>3. CASE calls' = Append(calls, Pump(l))
    BY <2>1, <2>3, <1>1, PumpIsACall, TasksPushed
  <2>4. QED BY <2>2, <2>3, <1>2
<1>5. ASSUME NEW m \in Lane PROVE Pumped(m)' /\ Counted(m)' /\ Holds(queue[m], Waiting(m))'
  <2>1. Counted(m)' /\ Holds(queue[m], Waiting(m))'
    BY DEF IInv, Counted, Waiting
  <2>2. CASE m = l
    BY <2>1, <2>2, <1>2 DEF Pumped
  <2>3. CASE m # l
    <3>1. HasRoom(m)' <=> HasRoom(m)
      BY <2>3, SameRoom
    <3>2. QED BY <2>1, <2>3, <3>1, <1>2 DEF IInv, Pumped
  <2>4. QED BY <2>2, <2>3
<1>6. LoopRests
  BY DEF LoopRests, TotalQueueIsEmpty
<1>7. \A e \in Entry : (startedIn[e] <= generation)'
  BY DEF IInv
<1>8. QED BY <1>3, <1>4, <1>5, <1>6, <1>7, LoopRestsSound DEF IInv

LEMMA SetConcurrencySound ==
  ASSUME IInv, NEW l \in Lane, NEW n \in 0..MaxLimit, SetCommandLaneConcurrency(l, n)
  PROVE  IInv'
<1>1. Effective(n) \in 1..MaxLimit
  BY LanesAssumption DEF Effective, AtLeastOne
<1>2. /\ calls = <<>> /\ limit' = [limit EXCEPT ![l] = Effective(n)] /\ DrainLane(l, calls)
      /\ UNCHANGED <<queue, active, startedIn, fate, generation, toDrain, refusing, loopVars>>
  BY DEF SetCommandLaneConcurrency, Idle
<1>3. limit' \in [Lane -> 1..MaxLimit] /\ \A m \in Lane : m # l => limit'[m] = limit[m]
  BY <1>1, <1>2 DEF IInv, TypeOK
<1>4. toDrain \subseteq Lane
  BY DEF IInv, TypeOK
<1>5. QED BY <1>2, <1>3, <1>4, DrainSound

LEMMA DrainAfterResetSound == ASSUME IInv, NEW l \in Lane, DrainAfterReset(l) PROVE IInv'
<1>1. /\ calls = <<>> /\ DrainLane(l, calls) /\ toDrain' = toDrain \ {l} /\ UNCHANGED limit
      /\ UNCHANGED <<queue, active, startedIn, fate, generation, refusing, loopVars>>
  BY DEF DrainAfterReset
<1>2. limit \in [Lane -> 1..MaxLimit] /\ toDrain \subseteq Lane
  BY DEF IInv, TypeOK
<1>3. QED BY <1>1, <1>2, DrainSound

-----------------------------------------------------------------------------
(* The pump and its tasks.                                                 *)

LEMMA StartTaskSound == ASSUME IInv, NEW l \in Lane, StartTask(l) PROVE IInv'
<1> DEFINE e == Head(queue[l])
           c == [lane |-> l, task |-> e]
<1>1. /\ calls # <<>> /\ Top = Pump(l) /\ queue[l] # <<>>
      /\ queue' = [queue EXCEPT ![l] = Tail(@)]
      /\ active' = [active EXCEPT ![l] = @ \cup {e}]
      /\ startedIn' = [startedIn EXCEPT ![e] = generation]
      /\ fate' = [fate EXCEPT ![e] = "sync"]
      /\ calls' = Append(calls, c)
      /\ UNCHANGED <<limit, pumping, generation, toDrain, refusing, loopVars>>
  BY DEF StartTask, InPump, HasRoom
<1>2. /\ queue \in [Lane -> Seq(Entry)] /\ active \in [Lane -> SUBSET Entry]
      /\ startedIn \in [Entry -> Nat] /\ generation \in Nat
      /\ fate \in [Entry -> {"new", "queued"} \cup Running \cup Settled] /\ calls \in Seq(Call)
      /\ Holds(queue[l], Waiting(l)) /\ TasksOf(calls)
  BY DEF IInv, TypeOK
<1>3. e \in Waiting(l) /\ Tail(queue[l]) \in Seq(Entry) /\ Holds(Tail(queue[l]), Waiting(l) \ {e})
  BY <1>1, <1>2, HoldsTailed
<1>4. e \in Entry /\ LaneOf[e] = l /\ fate[e] = "queued" /\ e # NoEntry /\ c \in Call /\ c.task = e
  BY <1>3, LanesAssumption DEF Waiting, Call
<1> HIDE DEF e, c
<1>5. /\ queue'[l] = Tail(queue[l]) /\ \A m \in Lane : m # l => queue'[m] = queue[m]
      /\ active'[l] = active[l] \cup {e} /\ \A m \in Lane : m # l => active'[m] = active[m]
      /\ startedIn'[e] = generation /\ fate'[e] = "sync"
      /\ \A f \in Entry : f # e => startedIn'[f] = startedIn[f] /\ fate'[f] = fate[f]
      /\ queue' \in [Lane -> Seq(Entry)] /\ active' \in [Lane -> SUBSET Entry]
      /\ startedIn' \in [Entry -> Nat]
  BY <1>1, <1>2, <1>3, <1>4
<1>6. fate' \in [Entry -> {"new", "queued"} \cup Running \cup Settled]
  BY <1>1, <1>2 DEF Running
<1>7. /\ calls' \in Seq(Call) /\ \A m \in Lane : OnStack(m, calls) => OnStack(m, calls')
      /\ OnStack(l, calls)
  BY <1>1, <1>2, <1>4, Pushed, Popped DEF OnStack
<1>8. TypeOK'
  BY <1>1, <1>5, <1>6, <1>7 DEF IInv, TypeOK, loopVars
<1>9. TasksOf(calls)'
  <2>1. ASSUME NEW i \in 1..Len(calls), calls[i].task # NoEntry
        PROVE  calls[i].task # e /\ fate'[calls[i].task] = "sync"
    <3>1. calls[i] \in Call
      BY <1>2
    <3>2. calls[i].task \in Entry /\ fate[calls[i].task] = "sync"
      BY <3>1, <2>1, <1>2 DEF TasksOf, Call
    <3>3. QED BY <3>2, <1>4, <1>5
  <2>2. \A i \in 1..Len(calls) : calls[i].task # e
    BY <2>1, <1>4
  <2>3. calls' = Append(calls, c) /\ (c.task # NoEntry => fate'[c.task] = "sync")
    BY <1>1, <1>4, <1>5
  <2>4. QED BY <2>1, <2>2, <2>3, <1>2, <1>4, TasksPushed
<1>10. ASSUME NEW m \in Lane PROVE Pumped(m)' /\ Counted(m)' /\ Holds(queue[m], Waiting(m))'
  <2>1. Counted(m)'
    <3>1. Counted(m) /\ generation' = generation
      BY <1>1 DEF IInv
    <3>2. CASE m = l
      <4>1. active[l] = {f \in Entry : /\ LaneOf[f] = l /\ fate[f] \in Running
                                       /\ startedIn[f] = generation}
        BY <3>1, <3>2 DEF Counted
      <4>2. \A f \in Entry :
               fate'[f] \in Running /\ startedIn'[f] = generation'
                 <=> f = e \/ (fate[f] \in Running /\ startedIn[f] = generation)
        BY <3>1, <1>5 DEF Running
      <4>3. active'[l] = active[l] \cup {e}
        BY <1>5
      <4>4. active'[l] = {f \in Entry : /\ LaneOf[f] = l /\ fate'[f] \in Running
                                        /\ startedIn'[f] = generation'}
        BY <4>1, <4>2, <4>3, <1>4
      <4>5. QED BY <4>4, <3>2 DEF Counted
    <3>3. CASE m # l
      <4>1. active'[m] = active[m] /\ \A f \in Entry : LaneOf[f] = m => f # e
        BY <3>3, <1>4, <1>5
      <4>2. QED BY <4>1, <3>1, <1>5 DEF Counted
    <3>4. QED BY <3>2, <3>3
  <2>2. CASE m = l
    <3>1. Waiting(l)' = Waiting(l) \ {e}
      BY <1>4, <1>5 DEF Waiting
    <3>2. Pumped(l)'
      BY <1>1, <1>7 DEF Pumped
    <3>3. QED BY <2>1, <2>2, <3>1, <3>2, <1>3, <1>5
  <2>3. CASE m # l
    <3>1. Waiting(m)' = Waiting(m) /\ queue'[m] = queue[m]
      <4>1. \A f \in Entry : LaneOf[f] = m => fate'[f] = fate[f]
        BY <2>3, <1>4, <1>5
      <4>2. Waiting(m)' = Waiting(m)
        BY <4>1, Zenon DEF Waiting
      <4>3. QED BY <4>2, <2>3, <1>5
    <3>2. HasRoom(m)' <=> HasRoom(m)
      BY <2>3, <1>1, <1>5, SameRoom
    <3>3. QED BY <2>1, <3>1, <3>2, <1>1, <1>7 DEF IInv, Pumped
  <2>4. QED BY <2>2, <2>3
<1>11. LoopRests
  BY <1>1 DEF LoopRests, TotalQueueIsEmpty
<1>12. \A f \in Entry : (startedIn[f] <= generation)'
  BY <1>1, <1>2, <1>5 DEF IInv
<1>13. QED BY <1>8, <1>9, <1>10, <1>11, <1>12, LoopRestsSound DEF IInv

LEMMA PumpReturnsSound == ASSUME IInv, NEW l \in Lane, PumpReturns(l) PROVE IInv'
<1>1. /\ calls # <<>> /\ Top = Pump(l) /\ ~HasRoom(l) /\ calls' = Callers
      /\ pumping' = [pumping EXCEPT ![l] = FALSE]
      /\ UNCHANGED <<queue, active, limit, startedIn, fate, generation, toDrain, refusing, loopVars>>
  BY DEF PumpReturns, InPump
<1>2. calls \in Seq(Call) /\ pumping \in [Lane -> BOOLEAN] /\ TasksOf(calls)
  BY DEF IInv, TypeOK
<1>3. Callers \in Seq(Call) /\ TasksOf(Callers)
  BY <1>1, <1>2, Popped, TasksOfCallers
<1>4. \A m \in Lane : m # l => (OnStack(m, calls) => OnStack(m, Callers)) /\ pumping'[m] = pumping[m]
  BY <1>1, <1>2, Popped, PumpIsACall
<1>5. TypeOK'
  BY <1>1, <1>2, <1>3 DEF IInv, TypeOK, loopVars
<1>6. TasksOf(calls)'
  <2>1. \A i \in 1..Len(Callers) : Callers[i].task # NoEntry => fate'[Callers[i].task] = "sync"
    BY <1>1, <1>3 DEF TasksOf
  <2>2. QED BY <2>1, <1>1, <1>3, TasksLeft
<1>7. ASSUME NEW m \in Lane PROVE Pumped(m)' /\ Counted(m)' /\ Holds(queue[m], Waiting(m))'
  <2>1. Counted(m)' /\ Holds(queue[m], Waiting(m))'
    BY <1>1 DEF IInv, Counted, Waiting
  <2>2. HasRoom(m)' <=> HasRoom(m)
    BY <1>1, SameRoom
  <2>3. Pumped(m)'
    BY <2>2, <1>1, <1>2, <1>4 DEF IInv, Pumped
  <2>4. QED BY <2>1, <2>3
<1>8. LoopRests
  BY <1>1 DEF LoopRests, TotalQueueIsEmpty
<1>9. \A f \in Entry : (startedIn[f] <= generation)'
  BY <1>1 DEF IInv
<1>10. QED BY <1>5, <1>6, <1>7, <1>8, <1>9, LoopRestsSound DEF IInv

\* The first part of a task ends, at its first await.
LEMMA TaskAwaitsSound == ASSUME IInv, NEW e \in Entry, TaskAwaits(e) PROVE IInv'
<1>1. /\ calls # <<>> /\ Top.task = e /\ calls' = Callers
      /\ fate' = [fate EXCEPT ![e] = "running"]
      /\ UNCHANGED <<queue, active, limit, pumping, startedIn, generation, toDrain, refusing, loopVars>>
  BY DEF TaskAwaits
<1>2. /\ calls \in Seq(Call) /\ TasksOf(calls) /\ e # NoEntry
      /\ fate \in [Entry -> {"new", "queued"} \cup Running \cup Settled]
  BY LanesAssumption DEF IInv, TypeOK
<1>3. /\ Callers \in Seq(Call) /\ TasksOf(Callers) /\ fate[e] = "sync"
      /\ \A i \in 1..Len(Callers) : Callers[i].task # e
  BY <1>1, <1>2, Popped, TasksOfCallers
<1>4. \A m \in Lane : OnStack(m, calls) => OnStack(m, Callers)
  BY <1>1, <1>2, Popped, PumpIsACall
<1>5. /\ fate' \in [Entry -> {"new", "queued"} \cup Running \cup Settled]
      /\ fate'[e] = "running" /\ \A f \in Entry : f # e => fate'[f] = fate[f]
  BY <1>1, <1>2 DEF Running
<1>6. TypeOK'
  BY <1>1, <1>3, <1>5 DEF IInv, TypeOK, loopVars
<1>7. TasksOf(calls)'
  <2>1. ASSUME NEW i \in 1..Len(Callers), Callers[i].task # NoEntry
        PROVE  fate'[Callers[i].task] = "sync"
    <3>1. Callers[i] \in Call
      BY <1>3
    <3>2. Callers[i].task \in Entry /\ fate[Callers[i].task] = "sync"
      BY <3>1, <2>1, <1>3 DEF TasksOf, Call
    <3>3. QED BY <3>2, <1>3, <1>5
  <2>2. QED BY <2>1, <1>1, <1>3, TasksLeft
<1>8. ASSUME NEW m \in Lane PROVE Pumped(m)' /\ Counted(m)' /\ Holds(queue[m], Waiting(m))'
  <2>1. Counted(m)'
    BY <1>1, <1>3, <1>5 DEF IInv, Counted, Running
  <2>2. Waiting(m)' = Waiting(m)
    BY <1>3, <1>5 DEF Waiting
  <2>3. HasRoom(m)' <=> HasRoom(m)
    BY <1>1, SameRoom
  <2>4. QED BY <2>1, <2>2, <2>3, <1>1, <1>4 DEF IInv, Pumped
<1>9. LoopRests
  BY <1>1 DEF LoopRests, TotalQueueIsEmpty
<1>10. \A f \in Entry : (startedIn[f] <= generation)'
  BY <1>1 DEF IInv
<1>11. QED BY <1>6, <1>7, <1>8, <1>9, <1>10, LoopRestsSound DEF IInv

\* A task ends, on the stack that stays when it is off: its slot is given back
\* and a pump follows, when it is a task of this generation.
LEMMA CompleteSound ==
  ASSUME IInv, NEW e \in Entry, NEW outcome \in {"resolved", "rejected"}, NEW s \in Seq(Call),
         fate[e] \in Running, TasksOf(s), \A i \in 1..Len(s) : s[i].task # e,
         \A m \in Lane : OnStack(m, calls) => OnStack(m, s),
         Complete(e, outcome, s)
  PROVE  IInv'
<1> DEFINE l == LaneOf[e]
<1>1. /\ l \in Lane
      /\ fate' = [fate EXCEPT ![e] = outcome]
      /\ \/ /\ startedIn[e] = generation /\ active' = [active EXCEPT ![l] = @ \ {e}]
            /\ calls' = Append(s, Pump(l))
         \/ startedIn[e] # generation /\ calls' = s /\ UNCHANGED active
      /\ UNCHANGED <<queue, limit, pumping, startedIn, generation, toDrain, refusing, loopVars>>
  BY LanesAssumption DEF Complete, PumpAfter, PumpOnce
<1>2. /\ fate \in [Entry -> {"new", "queued"} \cup Running \cup Settled]
      /\ active \in [Lane -> SUBSET Entry]
  BY DEF IInv, TypeOK
<1>3. /\ fate' \in [Entry -> {"new", "queued"} \cup Running \cup Settled]
      /\ fate'[e] = outcome /\ \A f \in Entry : f # e => fate'[f] = fate[f]
  BY <1>1, <1>2 DEF Settled
<1>4. /\ calls' \in Seq(Call)
      /\ \A m \in Lane : OnStack(m, calls) => OnStack(m, calls')
      /\ startedIn[e] = generation => OnStack(l, calls')
  <2>1. CASE calls' = s /\ startedIn[e] # generation
    BY <2>1
  <2>2. CASE calls' = Append(s, Pump(l))
    <3>1. Pump(l) \in Call
      BY <1>1, PumpIsACall
    <3>2. /\ Append(s, Pump(l)) \in Seq(Call)
          /\ \A m \in Lane : OnStack(m, s) \/ Pump(l) = Pump(m) => OnStack(m, Append(s, Pump(l)))
      BY <3>1, Pushed
    <3>3. QED BY <3>2, <2>2, <1>1
  <2>3. QED BY <2>1, <2>2, <1>1
<1>5. /\ active' \in [Lane -> SUBSET Entry]
      /\ \A m \in Lane : active'[m] = active[m] \/ (m = l /\ startedIn[e] = generation)
      /\ \A m \in Lane : active'[m] \subseteq active[m]
      /\ startedIn[e] = generation => active'[l] = active[l] \ {e}
  BY <1>1, <1>2
<1>6. TypeOK'
  BY <1>1, <1>3, <1>4, <1>5 DEF IInv, TypeOK, loopVars
<1>7. TasksOf(calls)'
  <2>1. ASSUME NEW i \in 1..Len(s), s[i].task # NoEntry PROVE fate'[s[i].task] = "sync"
    <3>1. s[i] \in Call
      OBVIOUS
    <3>2. s[i].task \in Entry /\ fate[s[i].task] = "sync"
      BY <3>1, <2>1 DEF TasksOf, Call
    <3>3. QED BY <3>2, <1>3
  <2>2. CASE calls' = s
    BY <2>1, <2>2, TasksLeft
  <2>3. CASE calls' = Append(s, Pump(l))
    BY <2>1, <2>3, <1>1, PumpIsACall, TasksPushed
  <2>4. QED BY <2>2, <2>3, <1>1
<1>8. ASSUME NEW m \in Lane PROVE Pumped(m)' /\ Counted(m)' /\ Holds(queue[m], Waiting(m))'
  <2>1. Counted(m)'
    <3>1. Counted(m)
      BY DEF IInv
    <3>2. CASE startedIn[e] = generation /\ m = l
      BY <3>1, <3>2, <1>1, <1>3, <1>5 DEF Counted, Running
    <3>3. CASE ~(startedIn[e] = generation /\ m = l)
      BY <3>1, <3>3, <1>1, <1>3, <1>5 DEF Counted, Running
    <3>4. QED BY <3>2, <3>3
  <2>2. Waiting(m)' = Waiting(m)
    BY <1>3 DEF Waiting, Running
  <2>3. Pumped(m)'
    <3>1. CASE m = l /\ startedIn[e] = generation
      BY <3>1, <1>4 DEF Pumped
    <3>2. CASE ~(m = l /\ startedIn[e] = generation)
      <4>1. HasRoom(m)' <=> HasRoom(m)
        BY <3>2, <1>1, <1>5, SameRoom
      <4>2. QED BY <4>1, <1>1, <1>4 DEF IInv, Pumped
    <3>3. QED BY <3>1, <3>2
  <2>4. QED BY <2>1, <2>2, <2>3, <1>1 DEF IInv
<1>9. LoopRests
  <2>1. TotalQueueIsEmpty => TotalQueueIsEmpty'
    BY <1>1, <1>5 DEF TotalQueueIsEmpty
  <2>2. QED BY <2>1, <1>1 DEF LoopRests
<1>10. \A f \in Entry : (startedIn[f] <= generation)'
  BY <1>1 DEF IInv
<1>11. QED BY <1>6, <1>7, <1>8, <1>9, <1>10, LoopRestsSound DEF IInv

LEMMA TaskThrowsSound == ASSUME IInv, NEW e \in Entry, TaskThrows(e) PROVE IInv'
<1>1. calls # <<>> /\ Top.task = e /\ Complete(e, "rejected", Callers)
  BY DEF TaskThrows
<1>2. calls \in Seq(Call) /\ TasksOf(calls) /\ e # NoEntry
  BY LanesAssumption DEF IInv, TypeOK
<1>3. /\ Callers \in Seq(Call) /\ TasksOf(Callers) /\ fate[e] \in Running
      /\ \A i \in 1..Len(Callers) : Callers[i].task # e
  BY <1>1, <1>2, Popped, TasksOfCallers DEF Running
<1>4. \A m \in Lane : OnStack(m, calls) => OnStack(m, Callers)
  BY <1>1, <1>2, Popped, PumpIsACall
<1>5. QED BY <1>1, <1>3, <1>4, CompleteSound

LEMMA SettleSound == ASSUME IInv, NEW e \in Entry, Settle(e) PROVE IInv'
<1>1. PICK outcome \in {"resolved", "rejected"} : Complete(e, outcome, calls)
  BY DEF Settle
<1>2. calls = <<>> /\ fate[e] \in Running
  BY DEF Settle, Idle, Running
<1>3. calls \in Seq(Call) /\ TasksOf(calls) /\ \A i \in 1..Len(calls) : calls[i].task # e
  BY <1>2 DEF IInv, TypeOK
<1>4. QED BY <1>1, <1>2, <1>3, CompleteSound
-----------------------------------------------------------------------------
(* The run loop: what it does of itself leaves the lanes alone.             *)

LEMMA LanesRest ==
  ASSUME IInv, UNCHANGED <<laneVars, generation, toDrain>>, TypeOK', Refusing', CheckpointIsQuiescent'
  PROVE  IInv'
BY DEF IInv, laneVars, TasksOf, Pumped, OnStack, HasRoom, Counted, Holds, Waiting

LoopStep ==
  \/ ServerStarted \/ ServerFailsToStart \/ \E a \in {"stop", "restart"} : Signal(a)
  \/ WaitEnds \/ ServerClosed \/ ForceExit \/ Exit

LEMMA LoopStepSound == ASSUME IInv, LoopStep PROVE IInv'
<1>1. UNCHANGED <<laneVars, generation, toDrain>>
  BY DEF LoopStep, ServerStarted, ServerFailsToStart, Signal, WaitEnds, WaitAnswers, WaitTimesOut,
         ServerClosed, ForceExit, TimerFires, Exit
<1>2. /\ loop' \in {"starting", "waiting"} /\ refusing' \in BOOLEAN /\ drained' \in BOOLEAN
      /\ shutdown' \in {"idle", "draining", "closing", "closed"} /\ action' \in {"stop", "restart"}
      /\ exit' \in {"alive", "ok", "failed"}
  BY DEF IInv, TypeOK, LoopStep, ServerStarted, ServerFailsToStart, Signal, WaitEnds, WaitAnswers,
         WaitTimesOut, CloseServer, ServerClosed, ForceExit, TimerFires, Exit
<1>3. TypeOK'
  BY <1>1, <1>2 DEF IInv, TypeOK, laneVars
<1>4. TotalQueueIsEmpty' <=> TotalQueueIsEmpty
  BY <1>1 DEF TotalQueueIsEmpty, laneVars
<1>5. Refusing'
  BY DEF IInv, Refusing, LoopStep, ServerStarted, ServerFailsToStart, Signal, WaitEnds, WaitAnswers,
         WaitTimesOut, CloseServer, ServerClosed, ForceExit, TimerFires, Exit
<1>6. CheckpointIsQuiescent'
  BY <1>4 DEF IInv, Refusing, CheckpointIsQuiescent, LoopStep, ServerStarted, ServerFailsToStart,
     Signal, WaitEnds, WaitAnswers, WaitTimesOut, CloseServer, ServerClosed, ForceExit, TimerFires,
     Exit
<1>7. QED BY <1>1, <1>3, <1>5, <1>6, LanesRest

\* A reset forgets what runs and marks every lane with entries for a drain.
LEMMA RestartSound == ASSUME IInv, RestartInProcess PROVE IInv'
<1>1. /\ calls = <<>> /\ toDrain = {} /\ shutdown' = "idle" /\ UNCHANGED <<action, drained, exit>>
      /\ \/ loop' = "starting" /\ ResetAllLanes
         \/ UNCHANGED <<laneVars, generation, toDrain, refusing, loop>>
  BY DEF RestartInProcess, Idle
<1>2. Refusing' /\ CheckpointIsQuiescent'
  BY <1>1 DEF Refusing, CheckpointIsQuiescent
<1>3. CASE UNCHANGED <<laneVars, generation, toDrain, refusing, loop>>
  <2>1. TypeOK'
    BY <1>1, <1>3 DEF IInv, TypeOK, laneVars
  <2>2. QED BY <2>1, <1>2, <1>3, LanesRest
<1>4. CASE loop' = "starting" /\ ResetAllLanes
  <2>1. /\ refusing' = FALSE /\ generation' = generation + 1
        /\ active' = [l \in Lane |-> {}] /\ pumping' = [l \in Lane |-> FALSE]
        /\ toDrain' = {l \in Lane : queue[l] # <<>>}
        /\ UNCHANGED <<queue, limit, startedIn, fate, calls>>
    BY <1>4 DEF ResetAllLanes, ResetActive, ForgetActive, ResetQueue, KeepQueued, LanesToDrain,
                LanesWithEntries
  <2>2. generation \in Nat /\ startedIn \in [Entry -> Nat]
    BY DEF IInv, TypeOK
  <2>3. \A e \in Entry : startedIn[e] <= generation
    BY DEF IInv
  <2>4. \A e \in Entry : (startedIn[e] <= generation)' /\ startedIn'[e] # generation'
    BY <2>1, <2>2, <2>3
  <2>5. TypeOK'
    <3>1. active' \in [Lane -> SUBSET Entry] /\ pumping' \in [Lane -> BOOLEAN]
      BY <2>1
    <3>2. generation' \in Nat /\ refusing' \in BOOLEAN
      <4>1. generation \in Nat /\ generation' = generation + 1
        BY <2>1, <2>2
      <4>2. refusing' = FALSE
        BY <2>1
      <4>3. generation' \in Nat
        BY <4>1
      <4>4. QED BY <4>2, <4>3
    <3>3. toDrain' \subseteq Lane
      <4>1. toDrain' = {l \in Lane : queue[l] # <<>>}
        BY <2>1
      <4>2. QED BY <4>1
    <3>4. loop' \in {"starting", "waiting"} /\ shutdown' \in {"idle", "draining", "closing", "closed"}
      BY <1>1, <1>4
    <3>5. UNCHANGED <<queue, limit, startedIn, fate, calls, action, drained, exit>>
      BY <2>1, <1>1
    <3>6. TypeOK
      BY DEF IInv
    <3>7. QED BY <3>1, <3>2, <3>3, <3>4, <3>5, <3>6 DEF TypeOK
  <2>6. TasksOf(calls)'
    BY <2>1 DEF IInv, TasksOf
  <2>7. ASSUME NEW l \in Lane PROVE Pumped(l)' /\ Counted(l)' /\ Holds(queue[l], Waiting(l))'
    <3>1. Counted(l)'
      BY <2>1, <2>4 DEF Counted
    <3>2. Holds(queue[l], Waiting(l))'
      BY <2>1 DEF IInv, Waiting
    <3>3. Pumped(l)'
      BY <2>1 DEF Pumped, HasRoom
    <3>4. QED BY <3>1, <3>2, <3>3
  <2>8. QED BY <1>2, <2>4, <2>5, <2>6, <2>7 DEF IInv
<1>5. QED BY <1>1, <1>3, <1>4
-----------------------------------------------------------------------------
(* Every step, and the theorems.                                           *)

LEMMA StepSound == IInv /\ [Next]_vars => IInv'
<1> SUFFICES ASSUME IInv, [Next]_vars PROVE IInv'
  OBVIOUS
<1>1. ASSUME NEW e \in Entry, Enqueue(e) \/ Settle(e) PROVE IInv'
  BY <1>1, EnqueueSound, SettleSound
<1>2. ASSUME NEW l \in Lane,
             ClearCommandLane(l) \/ \E n \in 0..MaxLimit : SetCommandLaneConcurrency(l, n)
      PROVE  IInv'
  BY <1>2, ClearSound, SetConcurrencySound
<1>3. CASE PumpStep
  <2>1. ASSUME NEW l \in Lane, StartTask(l) \/ PumpReturns(l) \/ DrainAfterReset(l) PROVE IInv'
    BY <2>1, StartTaskSound, PumpReturnsSound, DrainAfterResetSound
  <2>2. ASSUME NEW e \in Entry, TaskAwaits(e) \/ TaskThrows(e) PROVE IInv'
    BY <2>2, TaskAwaitsSound, TaskThrowsSound
  <2>3. QED BY <1>3, <2>1, <2>2 DEF PumpStep
<1>4. CASE LoopStep
  BY <1>4, LoopStepSound
<1>5. CASE RestartInProcess
  BY <1>5, RestartSound
<1>6. CASE UNCHANGED vars
  <2>1. /\ UNCHANGED <<laneVars, generation, toDrain>>
        /\ UNCHANGED <<refusing, loop, shutdown, action, drained, exit>>
    BY <1>6 DEF vars, loopVars
  <2>2. TypeOK' /\ Refusing' /\ CheckpointIsQuiescent'
    BY <2>1 DEF IInv, TypeOK, Refusing, CheckpointIsQuiescent, TotalQueueIsEmpty, laneVars
  <2>3. QED BY <2>1, <2>2, LanesRest
<1>7. QED BY <1>1, <1>2, <1>3, <1>4, <1>5, <1>6 DEF Next, LoopStep, AfterClose

\* The invariant the others follow from (command-queue.ts, run-loop.ts).
THEOREM LanesAreSound == Spec => []IInv
<1>1. QED BY InitSound, StepSound, PTL DEF Spec

\* Every variable keeps its type, whatever a task does in its first part.
THEOREM TypeCorrect == Spec => []TypeOK
<1>1. IInv => TypeOK
  BY DEF IInv
<1>2. QED BY <1>1, LanesAreSound, PTL

\* No lane waits for the next enqueue with work and room for it: its pump is on
\* the stack or its drain is due, and between two events neither exists
\* (drainLane, completeTask, resetAllLanes).
THEOREM NoLaneIdlesOverWork == Spec => []NoIdleLane
<1>1. IInv => NoIdleLane
  <2> SUFFICES ASSUME IInv, Idle, NEW l \in Lane PROVE ~HasRoom(l)
    BY DEF NoIdleLane
  <2>1. calls = <<>> /\ toDrain = {} /\ Pumped(l)
    BY DEF Idle, IInv
  <2>2. ~OnStack(l, calls)
    BY <2>1 DEF OnStack
  <2>3. QED BY <2>1, <2>2 DEF Pumped
<1>2. QED BY <1>1, LanesAreSound, PTL

\* The ids a lane counts are the running tasks of its generation, also when a
\* task of an earlier one settles late (completeTask).
THEOREM CountedIsRunning == Spec => []ActiveIsRunning
<1>1. IInv => ActiveIsRunning
  BY DEF IInv, Counted, ActiveIsRunning
<1>2. QED BY <1>1, LanesAreSound, PTL

\* An accepted command is in one queue, once, until it is started or cleared.
THEOREM NoCommandIsLostOrDoubled == Spec => []QueuedOnce
<1>1. IInv => QueuedOnce
  BY DEF IInv, Holds, Waiting, QueuedOnce
<1>2. QED BY <1>1, LanesAreSound, PTL

\* A checkpoint of a drained gateway finds no command queued or running
\* (waitForAllTasks, the gate of gatewayDraining).
THEOREM CheckpointsAreQuiescent == Spec => []CheckpointIsQuiescent
<1>1. IInv => CheckpointIsQuiescent
  BY DEF IInv
<1>2. QED BY <1>1, LanesAreSound, PTL

\* A promise settles once: no step touches the fate of a settled command
\* (the pump, completeTask, clearCommandLane).
Final(e) == fate[e] \in Settled => fate'[e] = fate[e]

LEMMA StepSettlesOnce == IInv /\ [Next]_vars => \A e \in Entry : Final(e)
<1> SUFFICES ASSUME IInv, [Next]_vars PROVE \A e \in Entry : Final(e)
  OBVIOUS
<1>1. /\ fate \in [Entry -> {"new", "queued"} \cup Running \cup Settled] /\ calls \in Seq(Call)
      /\ TasksOf(calls) /\ NoEntry \notin Entry
  BY LanesAssumption DEF IInv, TypeOK
<1>2. ASSUME NEW e \in Entry, fate[e] \notin Settled, NEW f, fate' = [fate EXCEPT ![e] = f]
      PROVE  \A d \in Entry : Final(d)
  BY <1>2, <1>1 DEF Final
<1>3. CASE UNCHANGED fate
  BY <1>3 DEF Final
<1>4. ASSUME NEW e \in Entry, Enqueue(e) PROVE \A d \in Entry : Final(d)
  <2>1. fate[e] = "new" /\ \E f : fate' = [fate EXCEPT ![e] = f]
    BY <1>4 DEF Enqueue, Admit, Refuse, Accept
  <2>2. QED BY <2>1, <1>2 DEF Settled
<1>5. ASSUME NEW e \in Entry, TaskAwaits(e) \/ TaskThrows(e) PROVE \A d \in Entry : Final(d)
  <2>1. calls # <<>> /\ Top.task = e /\ \E f : fate' = [fate EXCEPT ![e] = f]
    BY <1>5 DEF TaskAwaits, TaskThrows, Complete
  <2>2. fate[e] = "sync"
    BY <2>1, <1>1, TasksOfCallers
  <2>3. QED BY <2>1, <2>2, <1>2 DEF Settled
<1>6. ASSUME NEW e \in Entry, Settle(e) PROVE \A d \in Entry : Final(d)
  <2>1. fate[e] = "running" /\ \E f : fate' = [fate EXCEPT ![e] = f]
    BY <1>6 DEF Settle, Complete
  <2>2. QED BY <2>1, <1>2 DEF Settled
<1>7. ASSUME NEW l \in Lane, StartTask(l) PROVE \A d \in Entry : Final(d)
  <2>1. queue[l] # <<>> /\ fate' = [fate EXCEPT ![Head(queue[l])] = "sync"]
    BY <1>7 DEF StartTask, HasRoom
  <2>2. queue[l] \in Seq(Entry) /\ Holds(queue[l], Waiting(l))
    BY DEF IInv, TypeOK
  <2>3. Head(queue[l]) \in Waiting(l)
    BY <2>1, <2>2, HoldsTailed
  <2>4. Head(queue[l]) \in Entry /\ fate[Head(queue[l])] \notin Settled
    BY <2>3 DEF Waiting, Settled
  <2>5. QED BY <2>1, <2>4, <1>2
<1>8. ASSUME NEW l \in Lane, ClearCommandLane(l) PROVE \A d \in Entry : Final(d)
  <2>1. {queue[l][i] : i \in 1..Len(queue[l])} = Waiting(l)
    BY DEF IInv, Holds
  <2>2. fate' = [e \in Entry |-> IF e \in Waiting(l) THEN "cleared" ELSE fate[e]]
    BY <1>8, <2>1 DEF ClearCommandLane
  <2>3. QED BY <2>2 DEF Waiting, Settled, Final
<1>9. ASSUME NEW l \in Lane,
             \/ PumpReturns(l) \/ DrainAfterReset(l)
             \/ \E n \in 0..MaxLimit : SetCommandLaneConcurrency(l, n)
      PROVE  UNCHANGED fate
  BY <1>9 DEF PumpReturns, DrainAfterReset, SetCommandLaneConcurrency
<1>10. CASE LoopStep \/ RestartInProcess \/ UNCHANGED vars
  BY <1>10, <1>3 DEF LoopStep, ServerStarted, ServerFailsToStart, Signal, WaitEnds, WaitAnswers,
     WaitTimesOut, ServerClosed, ForceExit, TimerFires, Exit, RestartInProcess, ResetAllLanes,
     vars, laneVars
<1>11. QED BY <1>3, <1>4, <1>5, <1>6, <1>7, <1>8, <1>9, <1>10
           DEF Next, PumpStep, LoopStep, AfterClose

THEOREM NothingSettlesTwice == Spec => SettledOnce
<1>1. IInv /\ [Next]_vars => [\A e \in Entry : fate[e] \in Settled => fate'[e] = fate[e]]_vars
  BY StepSettlesOnce DEF Final
<1>2. QED BY <1>1, LanesAreSound, PTL DEF Spec, SettledOnce
-----------------------------------------------------------------------------
(* The lanes implement LaneContract.  A step moves one command from a set   *)
(* of the contract to the next, or all that wait, or all that run.          *)

Answered == {e \in Entry : fate[e] \in Settled}

LEMMA ContractInit == Init => Contract!Init
<1> SUFFICES ASSUME Init PROVE Contract!Init
  OBVIOUS
<1>1. Answered = {} /\ LeftBehind = {} /\ \A l \in Lane : Executed(l) = {}
  BY DEF Init, Answered, LeftBehind, Executed, Settled, Running
<1>2. QED BY <1>1 DEF Init, Contract!Init, Answered

(* Nothing the contract speaks of moves. *)
LEMMA ContractRests ==
  ASSUME UNCHANGED <<queue, limit, startedIn, generation, refusing>>,
         \A e \in Entry : fate'[e] = fate[e] \/ (fate[e] \in Running /\ fate'[e] \in Running)
  PROVE  UNCHANGED Contract!contractVars
<1>1. \A e \in Entry : (fate'[e] \in Settled <=> fate[e] \in Settled)
                       /\ (fate'[e] \in Running <=> fate[e] \in Running)
  BY DEF Running, Settled
<1>2. Answered' = Answered /\ LeftBehind' = LeftBehind
      /\ \A l \in Lane : Executed(l)' = Executed(l)
  BY <1>1 DEF Answered, LeftBehind, Executed
<1>3. [l \in Lane |-> Executed(l)]' = [l \in Lane |-> Executed(l)]
  BY <1>2
<1>4. QED BY <1>2, <1>3 DEF Contract!contractVars, Answered

(* Each entry of a queue waits, and nothing else does. *)
LEMMA InLineWaits ==
  ASSUME IInv, NEW l \in Lane
  PROVE  Contract!InLine(l) = Waiting(l)
BY DEF IInv, Holds, Contract!InLine

LEMMA ContractEnqueue ==
  ASSUME IInv, NEW e \in Entry, Enqueue(e)
  PROVE  Contract!Arrive(e) \/ Contract!Refuse(e)
<1>1. /\ LaneOf[e] \in Lane /\ fate[e] = "new" /\ refusing \in BOOLEAN
      /\ fate \in [Entry -> {"new", "queued"} \cup Running \cup Settled]
  BY LanesAssumption DEF Enqueue, IInv, TypeOK
<1>2. Contract!IsNew(e)
  <2>1. /\ e \notin Contract!InLine(LaneOf[e])
        /\ e \notin Executed(LaneOf[e]) /\ e \notin LeftBehind /\ e \notin Answered
    BY <1>1, InLineWaits DEF Waiting, Executed, LeftBehind, Answered, Running, Settled
  <2>2. QED BY <2>1, <1>1 DEF Contract!IsNew, Answered
<1>3. UNCHANGED <<limit, startedIn, generation, refusing>>
  BY DEF Enqueue
<1>4. CASE refusing
  <2>1. UNCHANGED queue /\ fate' = [fate EXCEPT ![e] = "refused"]
    BY <1>4 DEF Enqueue, Admit, Refuse
  <2>2. Answered' = Answered \cup {e} /\ LeftBehind' = LeftBehind
        /\ \A l \in Lane : Executed(l)' = Executed(l)
    BY <2>1, <1>1, <1>3 DEF Answered, LeftBehind, Executed, Running, Settled
  <2>3. [l \in Lane |-> Executed(l)]' = [l \in Lane |-> Executed(l)]
    BY <2>2
  <2>4. QED BY <2>1, <2>2, <2>3, <1>2, <1>3, <1>4 DEF Contract!Refuse, Answered
<1>5. CASE ~refusing
  <2>1. /\ queue' = [queue EXCEPT ![LaneOf[e]] = Append(@, e)]
        /\ fate' = [fate EXCEPT ![e] = "queued"]
    BY <1>5 DEF Enqueue, Admit, Accept
  <2>2. Answered' = Answered /\ LeftBehind' = LeftBehind
        /\ \A l \in Lane : Executed(l)' = Executed(l)
    BY <2>1, <1>1, <1>3 DEF Answered, LeftBehind, Executed, Running, Settled
  <2>3. [l \in Lane |-> Executed(l)]' = [l \in Lane |-> Executed(l)]
    BY <2>2
  <2>4. QED BY <2>1, <2>2, <2>3, <1>2, <1>3, <1>5 DEF Contract!Arrive, Answered
<1>6. QED BY <1>1, <1>4, <1>5

LEMMA ContractAllows ==
  ASSUME IInv, NEW l \in Lane, NEW n \in 0..MaxLimit, SetCommandLaneConcurrency(l, n)
  PROVE  \E k \in 1..MaxLimit : Contract!Allow(l, k)
<1>1. Effective(n) \in 1..MaxLimit
  BY LanesAssumption DEF Effective, AtLeastOne
<1>2. /\ limit' = [limit EXCEPT ![l] = Effective(n)]
      /\ UNCHANGED <<queue, startedIn, fate, generation, refusing>>
  BY DEF SetCommandLaneConcurrency
<1>3. Answered' = Answered /\ LeftBehind' = LeftBehind
      /\ [m \in Lane |-> Executed(m)]' = [m \in Lane |-> Executed(m)]
  BY <1>2 DEF Answered, LeftBehind, Executed
<1>4. Contract!Allow(l, Effective(n))
  BY <1>2, <1>3 DEF Contract!Allow, Answered
<1>5. QED BY <1>1, <1>4

LEMMA ContractClears == ASSUME IInv, NEW l \in Lane, ClearCommandLane(l) PROVE Contract!Clear(l)
<1>1. /\ queue' = [queue EXCEPT ![l] = <<>>]
      /\ UNCHANGED <<limit, startedIn, generation, refusing>>
  BY DEF ClearCommandLane, AfterClear, EntriesSpliced
<1>2. Contract!InLine(l) = Waiting(l) /\ {queue[l][i] : i \in 1..Len(queue[l])} = Waiting(l)
  BY InLineWaits DEF IInv, Holds
<1>3. fate' = [e \in Entry |-> IF e \in Waiting(l) THEN "cleared" ELSE fate[e]]
  BY <1>2 DEF ClearCommandLane
<1>4. \A e \in Waiting(l) : e \in Entry /\ fate[e] = "queued"
  BY DEF Waiting
<1>5. Answered' = Answered \cup Waiting(l) /\ LeftBehind' = LeftBehind
      /\ \A m \in Lane : Executed(m)' = Executed(m)
  BY <1>1, <1>3, <1>4 DEF Answered, LeftBehind, Executed, Running, Settled
<1>6. [m \in Lane |-> Executed(m)]' = [m \in Lane |-> Executed(m)]
  BY <1>5
<1>7. QED BY <1>1, <1>2, <1>5, <1>6 DEF Contract!Clear, Answered

(* The first in line starts, in a lane whose count is what it executes. *)
LEMMA ContractStarts == ASSUME IInv, NEW l \in Lane, StartTask(l) PROVE Contract!Start(l)
<1> PICK e : e = Head(queue[l])
  OBVIOUS
<1>1. /\ queue[l] # <<>> /\ Cardinality(active[l]) < limit[l]
      /\ queue' = [queue EXCEPT ![l] = Tail(@)]
      /\ startedIn' = [startedIn EXCEPT ![e] = generation]
      /\ fate' = [fate EXCEPT ![e] = "sync"]
      /\ UNCHANGED <<limit, generation, refusing>>
  BY DEF StartTask, HasRoom
<1>2. e \in Waiting(l)
  <2>1. queue[l] \in Seq(Entry) /\ Holds(queue[l], Waiting(l))
    BY DEF IInv, TypeOK
  <2>2. QED BY <2>1, <1>1, HoldsTailed
<1>3. /\ e \in Entry /\ LaneOf[e] = l /\ fate[e] = "queued"
      /\ startedIn \in [Entry -> Nat]
      /\ fate \in [Entry -> {"new", "queued"} \cup Running \cup Settled]
  BY <1>2 DEF Waiting, IInv, TypeOK
<1>4. /\ fate'[e] = "sync" /\ startedIn'[e] = generation
      /\ \A d \in Entry : d # e => fate'[d] = fate[d] /\ startedIn'[d] = startedIn[d]
  BY <1>1, <1>3
<1>5. Answered' = Answered /\ LeftBehind' = LeftBehind
  BY <1>1, <1>3, <1>4 DEF Answered, LeftBehind, Running, Settled
<1>6. Executed(l)' = Executed(l) \cup {e} /\ \A m \in Lane : m # l => Executed(m)' = Executed(m)
  BY <1>1, <1>3, <1>4 DEF Executed, Running
<1>7. [m \in Lane |-> Executed(m)]'
        = [[m \in Lane |-> Executed(m)] EXCEPT ![l] = @ \cup {Head(queue[l])}]
  BY <1>6
<1>8. Contract!Cardinality([m \in Lane |-> Executed(m)][l]) < limit[l]
  <2>1. [m \in Lane |-> Executed(m)][l] = active[l]
    BY DEF IInv, Counted, Executed
  <2>2. Contract!Cardinality(active[l]) = Cardinality(active[l])
    BY Zenon DEF Contract!Cardinality, Cardinality
  <2>3. QED BY <2>1, <2>2, <1>1
<1>9. QED BY <1>1, <1>5, <1>7, <1>8 DEF Contract!Start, Answered

(* A command that ends leaves what its lane executes, or what a restart left behind. *)
LEMMA ContractSettles ==
  ASSUME IInv, NEW e \in Entry, fate[e] \in Running, NEW outcome \in Settled,
         fate' = [fate EXCEPT ![e] = outcome],
         UNCHANGED <<queue, limit, startedIn, generation, refusing>>
  PROVE  Contract!Settle(e)
<1>1. /\ LaneOf[e] \in Lane
      /\ fate \in [Entry -> {"new", "queued"} \cup Running \cup Settled]
  BY LanesAssumption DEF IInv, TypeOK
<1>2. /\ fate'[e] \in Settled /\ fate'[e] \notin Running
      /\ \A d \in Entry : d # e => fate'[d] = fate[d]
  BY <1>1 DEF Running, Settled
<1>3. Answered' = Answered \cup {e}
  BY <1>2 DEF Answered
<1>4. CASE startedIn[e] = generation
  <2>1. e \in Executed(LaneOf[e]) /\ LeftBehind' = LeftBehind
        /\ Executed(LaneOf[e])' = Executed(LaneOf[e]) \ {e}
        /\ \A m \in Lane : m # LaneOf[e] => Executed(m)' = Executed(m)
    BY <1>2, <1>4 DEF Executed, LeftBehind
  <2>2. [m \in Lane |-> Executed(m)]'
          = [[m \in Lane |-> Executed(m)] EXCEPT ![LaneOf[e]] = @ \ {e}]
    BY <2>1
  <2>3. QED BY <1>1, <1>3, <2>1, <2>2 DEF Contract!Settle, Answered
<1>5. CASE startedIn[e] # generation
  <2>1. e \in LeftBehind /\ LeftBehind' = LeftBehind \ {e}
        /\ \A m \in Lane : Executed(m)' = Executed(m)
    BY <1>2, <1>5 DEF Executed, LeftBehind
  <2>2. [m \in Lane |-> Executed(m)]' = [m \in Lane |-> Executed(m)]
    BY <2>1
  <2>3. QED BY <1>3, <2>1, <2>2 DEF Contract!Settle, Answered
<1>6. QED BY <1>4, <1>5

(* A reset makes what runs the task of an earlier generation. *)
LEMMA ContractReopens ==
  ASSUME IInv, RestartInProcess
  PROVE  Contract!Reopen \/ UNCHANGED Contract!contractVars
<1>1. CASE UNCHANGED <<laneVars, generation, toDrain, refusing, loop>>
  BY <1>1, ContractRests DEF laneVars
<1>2. CASE ResetAllLanes
  <2>1. /\ refusing' = FALSE /\ generation' = generation + 1
        /\ UNCHANGED <<queue, limit, startedIn, fate>>
    BY <1>2 DEF ResetAllLanes, ResetQueue, KeepQueued
  <2>2. refusing = TRUE
    BY DEF IInv, Refusing, RestartInProcess, TypeOK
  <2>3. \A e \in Entry : LaneOf[e] \in Lane /\ startedIn'[e] # generation'
    <3>1. \A e \in Entry : startedIn[e] \in Nat /\ startedIn[e] <= generation /\ generation \in Nat
      BY DEF IInv, TypeOK
    <3>2. QED BY <3>1, <2>1, LanesAssumption
  <2>4. Answered' = Answered /\ \A l \in Lane : Executed(l)' = {}
    BY <2>1, <2>3 DEF Answered, Executed
  <2>5. LeftBehind' = LeftBehind \cup UNION {Executed(l) : l \in Lane}
    <3>1. LeftBehind' = {e \in Entry : fate[e] \in Running}
      BY <2>1, <2>3 DEF LeftBehind
    <3>2. \A e : e \in UNION {Executed(l) : l \in Lane}
                 <=> e \in Entry /\ fate[e] \in Running /\ startedIn[e] = generation
      BY <2>3 DEF Executed
    <3>3. QED BY <3>1, <3>2 DEF LeftBehind
  <2>6. [l \in Lane |-> Executed(l)]' = [l \in Lane |-> {}]
    BY <2>4
  <2>7. UNION {[m \in Lane |-> Executed(m)][l] : l \in Lane} = UNION {Executed(l) : l \in Lane}
    OBVIOUS
  <2>8. QED BY <2>1, <2>2, <2>4, <2>5, <2>6, <2>7 DEF Contract!Reopen, Answered
<1>3. QED BY <1>1, <1>2 DEF RestartInProcess

(* The task on top of the stack is in its first part. *)
LEMMA OnTopRuns ==
  ASSUME IInv, NEW e \in Entry, calls # <<>>, Top.task = e
  PROVE  fate[e] \in Running
<1>1. calls \in Seq(Call) /\ TasksOf(calls) /\ e # NoEntry
  BY LanesAssumption DEF IInv, TypeOK
<1>2. fate[e] = "sync"
  BY <1>1, TasksOfCallers
<1>3. QED BY <1>2 DEF Running

LEMMA ContractStep == IInv /\ [Next]_vars => [Contract!Next]_(Contract!contractVars)
<1> SUFFICES ASSUME IInv, [Next]_vars PROVE Contract!Next \/ UNCHANGED Contract!contractVars
  OBVIOUS
<1>1. ASSUME NEW e \in Entry, Enqueue(e) PROVE Contract!Next
  BY <1>1, ContractEnqueue DEF Contract!Next
<1>2. ASSUME NEW e \in Entry, TaskThrows(e) \/ Settle(e) PROVE Contract!Next
  <2>1. PICK outcome, stack :
           outcome \in {"resolved", "rejected"} /\ Complete(e, outcome, stack)
    BY <1>2 DEF TaskThrows, Settle
  <2>2. fate[e] \in Running
    <3>1. CASE calls # <<>> /\ Top.task = e
      BY <3>1, OnTopRuns
    <3>2. CASE fate[e] = "running"
      BY <3>2 DEF Running
    <3>3. QED BY <1>2, <3>1, <3>2 DEF TaskThrows, Settle
  <2>3. outcome \in Settled /\ fate' = [fate EXCEPT ![e] = outcome]
        /\ UNCHANGED <<queue, limit, startedIn, generation, refusing>>
    BY <2>1 DEF Complete, Settled
  <2>4. Contract!Settle(e)
    BY <2>2, <2>3, ContractSettles
  <2>5. QED BY <2>4 DEF Contract!Next
<1>3. ASSUME NEW l \in Lane,
             ClearCommandLane(l) \/ \E n \in 0..MaxLimit : SetCommandLaneConcurrency(l, n)
      PROVE  Contract!Next
  BY <1>3, ContractClears, ContractAllows DEF Contract!Next
<1>4. ASSUME NEW l \in Lane, StartTask(l) PROVE Contract!Next
  BY <1>4, ContractStarts DEF Contract!Next
<1>5. ASSUME NEW l \in Lane, PumpReturns(l) \/ DrainAfterReset(l)
      PROVE  UNCHANGED Contract!contractVars
  BY <1>5, ContractRests DEF PumpReturns, DrainAfterReset
<1>6. ASSUME NEW e \in Entry, TaskAwaits(e) PROVE UNCHANGED Contract!contractVars
  <2>1. fate[e] \in Running /\ fate \in [Entry -> {"new", "queued"} \cup Running \cup Settled]
    BY <1>6, OnTopRuns DEF TaskAwaits, IInv, TypeOK
  <2>2. fate' = [fate EXCEPT ![e] = "running"]
        /\ UNCHANGED <<queue, limit, startedIn, generation, refusing>>
    BY <1>6 DEF TaskAwaits
  <2>3. \A d \in Entry : fate'[d] = fate[d] \/ (fate[d] \in Running /\ fate'[d] \in Running)
    BY <2>1, <2>2 DEF Running
  <2>4. QED BY <2>2, <2>3, ContractRests
<1>7. ASSUME NEW a \in {"stop", "restart"}, Signal(a) PROVE Contract!Next
  <2>1. refusing' = TRUE /\ UNCHANGED <<queue, limit, startedIn, fate, generation>>
    BY <1>7 DEF Signal, laneVars
  <2>2. Answered' = Answered /\ LeftBehind' = LeftBehind
        /\ [m \in Lane |-> Executed(m)]' = [m \in Lane |-> Executed(m)]
    BY <2>1 DEF Answered, LeftBehind, Executed
  <2>3. Contract!Close
    BY <2>1, <2>2 DEF Contract!Close, Answered
  <2>4. QED BY <2>3 DEF Contract!Next
<1>8. ASSUME ServerStarted \/ ServerFailsToStart \/ WaitEnds \/ ServerClosed \/ ForceExit \/ Exit
      PROVE  UNCHANGED Contract!contractVars
  <2>1. UNCHANGED <<laneVars, generation, refusing>>
    BY <1>8 DEF ServerStarted, ServerFailsToStart, WaitEnds, WaitAnswers, WaitTimesOut,
       ServerClosed, ForceExit, TimerFires, Exit
  <2>2. QED BY <2>1, ContractRests DEF laneVars
<1>9. CASE RestartInProcess
  BY <1>9, ContractReopens DEF Contract!Next
<1>10. CASE UNCHANGED vars
  BY <1>10, ContractRests DEF vars, laneVars
<1>11. QED BY <1>1, <1>2, <1>3, <1>4, <1>5, <1>6, <1>7, <1>8, <1>9, <1>10
           DEF Next, PumpStep, AfterClose

\* For any number of commands, lanes, limits and restarts the commands of a lane start in
\* the order of their arrival, within its limit, and are settled once, whatever pumps nest
\* or tasks throw (drainLane, completeTask, clearCommandLane, resetAllLanes).
THEOREM LanesKeepContract == Spec => KeepsLaneContract
<1>1. QED BY ContractInit, ContractStep, LanesAreSound, PTL DEF Spec, KeepsLaneContract, Contract!Spec
=============================================================================
