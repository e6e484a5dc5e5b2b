---------------------------- MODULE DeliveryQueue ----------------------------
(***************************************************************************)
(* The write-ahead queue of outbound deliveries                            *)
(* (src/src/infra/outbound/delivery-queue.ts), the wrapper that sends      *)
(* through it (deliverOutboundPayloads in deliver.ts), and the recovery    *)
(* pass each start of the gateway runs beside the live deliveries          *)
(* (src/src/gateway/server.impl.ts).                                       *)
(*                                                                         *)
(* One worker sends each delivery live.  A recovery pass is a worker too:  *)
(* it replays the entries of the queue directory one after another.  No    *)
(* start waits for the pass of the one before, so that passes overlap      *)
(* after a restart within the process.  A file operation and a send are    *)
(* one step each; between them the other workers run.                      *)
(***************************************************************************)
EXTENDS Integers, FiniteSets

CONSTANTS Deliveries,  \* number of deliveries; they are numbered in enqueue order
          Payloads,    \* payloads of each delivery
          MaxRetries,  \* MAX_RETRIES
          Modes,       \* how callers send: see `mode`
          Passes       \* recovery passes as workers: as many may run at once

ASSUME DeliveryAssumption ==
  /\ Deliveries \in Nat /\ Payloads \in Nat
  /\ MaxRetries \in Nat
  /\ Modes \subseteq {"strict", "reporting", "silent"}
  /\ Passes \cap Nat = {}

Delivery == 1..Deliveries
Worker == Delivery \cup Passes

VARIABLES file,      \* where the entry of a delivery is: no file, the queue (torn: there,
                     \* but not to be parsed), failed/; a copy in the queue hides one in failed/
          retries,   \* retryCount in the file
          tried,     \* lastAttemptAt is in the file
          mode,      \* strict, reporting (bestEffort with onError) or silent (without)
          worker,    \* what each worker is doing
          listed,    \* the pending entries a pass has read and not handled
          up,        \* the gateway's process runs
          kept,      \* history: the entry was written before the first send
          sent,      \* history: payloads the channel took (or a hook withdrew)
          verdicts,  \* history: a live send cut off, by its caller's abort signal or by a
                     \* timeout of the channel; a send refused for good by the channel
          failures,  \* history: failed attempts written to the file, up to MaxRetries
          raced,     \* history: two workers had the entry in hand at once
          crowded    \* history: two passes had it listed or in hand at once

queueVars == <<file, retries, tried>>
history == <<kept, sent, verdicts, failures, raced, crowded>>
vars == <<queueVars, mode, worker, listed, up, history>>

NotListed == [retries |-> 0, tried |-> FALSE, listed |-> FALSE]
NothingListed == [d \in Delivery |-> NotListed]
Resting == [at |-> "rest", job |-> 0, next |-> 1, partial |-> FALSE, seen |-> 0]
Done == [Resting EXCEPT !.at = "done"]
Stages == {"rest", "send", "unlink", "read", "rename", "move", "done"}

Init ==
  /\ file = [d \in Delivery |-> "none"]
  /\ retries = [d \in Delivery |-> 0]
  /\ tried = [d \in Delivery |-> FALSE]
  /\ mode = [d \in Delivery |-> "strict"]
  /\ worker = [w \in Worker |-> Resting]
  /\ listed = [p \in Passes |-> NothingListed]
  /\ up = FALSE
  /\ kept = [d \in Delivery |-> FALSE]
  /\ sent = [d \in Delivery |-> {}]
  /\ verdicts = [d \in Delivery |-> {}]
  /\ failures = [d \in Delivery |-> 0]
  /\ raced = [d \in Delivery |-> FALSE]
  /\ crowded = [d \in Delivery |-> FALSE]

Job(w) == worker[w].job
At(w, stage) == worker[w].at = stage
Go(w, stage) == worker' = [worker EXCEPT ![w].at = stage]

\* A live delivery is over; a recovery pass looks for its next entry.
Finish(w) == worker' = [worker EXCEPT ![w] = IF w \in Passes THEN Resting ELSE Done]

\* The entry was persisted, so that the worker has a file to update at the end.
HasEntry(w) == w \in Passes \/ kept[Job(w)]

-----------------------------------------------------------------------------
(* A live delivery.                                                        *)

\* enqueueDelivery, whose failure is swallowed, and the start of the send.
Enqueue(d, m) ==
  /\ up /\ At(d, "rest") /\ \A e \in 1..(d - 1) : ~At(e, "rest")
  /\ mode' = [mode EXCEPT ![d] = m]
  /\ \E written \in BOOLEAN :
       /\ kept' = [kept EXCEPT ![d] = written]
       /\ file' = [file EXCEPT ![d] = IF written THEN "queue" ELSE "none"]
  /\ worker' = [worker EXCEPT ![d] = [Resting EXCEPT !.at = "send", !.job = d]]
  /\ UNCHANGED <<retries, tried, listed, up, sent, verdicts, failures, raced, crowded>>

-----------------------------------------------------------------------------
(* The send of the payloads, in order.                                     *)

Sending(w) == At(w, "send") /\ worker[w].next <= Payloads

SendPayload(w) ==
  /\ Sending(w)
  /\ sent' = [sent EXCEPT ![Job(w)] = @ \cup {worker[w].next}]
  /\ worker' = [worker EXCEPT ![w].next = @ + 1]
  /\ UNCHANGED <<queueVars, mode, listed, up, kept, verdicts, failures, raced, crowded>>

\* A best-effort send goes on after an error, and only a caller's onError lets the
\* wrapper notice it; a replay has none.
ErrorIsNoticed(w) == w \notin Passes /\ mode[Job(w)] = "reporting"

SendFailsSoftly(w) ==
  /\ Sending(w) /\ mode[Job(w)] # "strict"
  /\ worker' = [worker EXCEPT ![w].next = @ + 1, ![w].partial = @ \/ ErrorIsNoticed(w)]
  /\ UNCHANGED <<queueVars, mode, listed, up, history>>

Acknowledge == "unlink"
RecordFailure == "read"
AfterError == RecordFailure

\* A strict send throws at any payload.  Any send throws before the first one, when the
\* channel has no handler, and after the last one, when the transcript cannot be appended.
CanThrow(w) ==
  /\ At(w, "send")
  /\ mode[Job(w)] # "strict" =>
       worker[w].next = 1 \/ (worker[w].next > Payloads /\ sent[Job(w)] # {})

\* Only a recovery pass tells permanent errors apart; a failing append is none.
SendThrows(w, permanent) ==
  /\ CanThrow(w)
  /\ permanent => worker[w].next <= Payloads
  /\ IF permanent /\ w \in Passes
     THEN /\ Go(w, "move")
          /\ verdicts' = [verdicts EXCEPT ![Job(w)] = @ \cup {"permanent"}]
     ELSE /\ IF HasEntry(w) THEN Go(w, AfterError) ELSE Finish(w)
          /\ UNCHANGED verdicts
  /\ UNCHANGED <<queueVars, mode, listed, up, kept, sent, failures, raced, crowded>>

\* A live strict send ends with an error named AbortError.  The wrapper removes the entry
\* for that name alone, be it the caller's signal or a timeout of the channel's own
\* (fetchWithTimeout); in a replay it is an error like any other.
CutOff(d) ==
  /\ Sending(d) /\ mode[d] = "strict"
  /\ verdicts' = [verdicts EXCEPT ![d] = @ \cup {"cut"}]
  /\ IF HasEntry(d) THEN Go(d, "unlink") ELSE Finish(d)
  /\ UNCHANGED <<queueVars, mode, listed, up, kept, sent, failures, raced, crowded>>

AfterSend(w) == IF worker[w].partial THEN "read" ELSE "unlink"

SendReturns(w) ==
  /\ At(w, "send") /\ worker[w].next > Payloads
  /\ IF HasEntry(w) THEN Go(w, AfterSend(w)) ELSE Finish(w)
  /\ UNCHANGED <<queueVars, mode, listed, up, history>>

-----------------------------------------------------------------------------
(* The operations on the entry's file.                                     *)

InQueue(d) == file[d] \in {"queue", "torn"}

\* ackDelivery: a missing file is no error.  When the file cannot be removed, a
\* live delivery leaves it and a recovery pass counts a failed attempt.
AckDelivery(w) ==
  /\ At(w, "unlink")
  /\ file' = [file EXCEPT ![Job(w)] = IF InQueue(Job(w)) THEN "none" ELSE @]
  /\ Finish(w)
  /\ UNCHANGED <<retries, tried, mode, listed, up, history>>

AckFails(w) ==
  /\ At(w, "unlink") /\ InQueue(Job(w))
  /\ IF w \in Passes THEN Go(w, "read") ELSE Finish(w)
  /\ UNCHANGED <<queueVars, mode, listed, up, history>>

FromMemory(w) == TRUE
FromFile(w) == file[Job(w)] = "queue"
Readable(w) == FromFile(w)

\* failDelivery, first the read of the file ...
ReadEntry(w) ==
  /\ At(w, "read") /\ Readable(w)
  /\ worker' = [worker EXCEPT ![w].at = "rename", ![w].seen = retries[Job(w)]]
  /\ UNCHANGED <<queueVars, mode, listed, up, history>>

OneLess(n) == n - 1
SameCount(n) == n
OneMore(n) == n + 1
Counted(n) == OneMore(n)

\* ... then the rename of the updated copy over it, whether it is still there or not.
\* The copy's name is the same for all workers of the process: a rename may put another
\* one's whole copy in place (as if that one had written it and this update failed) ...
WriteEntry(w) ==
  /\ At(w, "rename")
  /\ file' = [file EXCEPT ![Job(w)] = "queue"]
  /\ retries' = [retries EXCEPT ![Job(w)] = Counted(worker[w].seen)]
  /\ tried' = [tried EXCEPT ![Job(w)] = TRUE]
  /\ failures' = [failures EXCEPT ![Job(w)] = IF @ < MaxRetries THEN @ + 1 ELSE @]
  /\ Finish(w)
  /\ UNCHANGED <<mode, listed, up, kept, sent, verdicts, raced, crowded>>

\* ... or a copy another one has begun to write, which it may still complete.
TearEntry(w) ==
  /\ At(w, "rename") /\ \E v \in Worker \ {w} : At(v, "rename") /\ Job(v) = Job(w)
  /\ file' = [file EXCEPT ![Job(w)] = "torn"]
  /\ Finish(w)
  /\ UNCHANGED <<retries, tried, mode, listed, up, history>>

MoveToFailed(w) ==
  /\ At(w, "move") /\ InQueue(Job(w))
  /\ file' = [file EXCEPT ![Job(w)] = "failed"]
  /\ Finish(w)
  /\ UNCHANGED <<retries, tried, mode, listed, up, history>>

\* An update that fails, for one because the file is gone, is dropped.
UpdateFails(w) ==
  /\ worker[w].at \in {"read", "rename", "move"}
  /\ Finish(w)
  /\ UNCHANGED <<queueVars, mode, listed, up, history>>

-----------------------------------------------------------------------------
(* The recovery pass.                                                      *)

Idle(p) == At(p, "rest") /\ \A d \in Delivery : ~listed[p][d].listed

AnotherPassHas(p, d) == \E q \in Passes \ {p} : listed[q][d].listed \/ Job(q) = d

\* loadPendingDeliveries, at a start of the gateway: after a crash, or in the same
\* process beside the live deliveries and the passes of the starts before.
StartGateway(p) ==
  /\ Idle(p)
  /\ listed' = [listed EXCEPT ![p] =
                  [d \in Delivery |->
                     IF file[d] = "queue"
                     THEN [retries |-> retries[d], tried |-> tried[d], listed |-> TRUE]
                     ELSE NotListed]]
  /\ crowded' = [d \in Delivery |-> crowded[d] \/ (file[d] = "queue" /\ AnotherPassHas(p, d))]
  /\ up' = TRUE
  /\ UNCHANGED <<queueVars, mode, worker, kept, sent, verdicts, failures, raced>>

Oldest(p, d) == listed[p][d].listed /\ \A e \in 1..(d - 1) : ~listed[p][e].listed

NeverGiveUp(count) == FALSE
GiveUpBeforeMax(count) == count + 1 >= MaxRetries
GiveUpAtMax(count) == count >= MaxRetries
TooManyRetries(count) == GiveUpAtMax(count)

\* The first replay of an entry no attempt has been recorded for waits for nothing.
EligibleAtOnce(p, d) == listed[p][d].retries = 0 /\ ~listed[p][d].tried

Take(p, d, stage) ==
  /\ Oldest(p, d) /\ At(p, "rest")
  /\ listed' = [listed EXCEPT ![p][d] = NotListed]
  /\ worker' = [worker EXCEPT ![p] = [Resting EXCEPT !.at = stage, !.job = d]]
  /\ raced' = [raced EXCEPT ![d] = @ \/ \E w \in Worker \ {p} : Job(w) = d]
  /\ UNCHANGED <<queueVars, mode, up, kept, sent, verdicts, failures, crowded>>

Replay(p, d) == ~TooManyRetries(listed[p][d].retries) /\ Take(p, d, "send")
DropEntry(p, d) == TooManyRetries(listed[p][d].retries) /\ Take(p, d, "move")

\* The entry's backoff has not elapsed.
Defer(p, d) ==
  /\ Oldest(p, d) /\ At(p, "rest")
  /\ ~TooManyRetries(listed[p][d].retries) /\ ~EligibleAtOnce(p, d)
  /\ listed' = [listed EXCEPT ![p][d] = NotListed]
  /\ UNCHANGED <<queueVars, mode, worker, up, history>>

\* The time budget of the pass is spent: what is left waits for the next start.
BudgetSpent(p) ==
  /\ At(p, "rest") /\ ~Idle(p)
  /\ listed' = [listed EXCEPT ![p] = NothingListed]
  /\ UNCHANGED <<queueVars, mode, worker, up, history>>

\* The process dies: deliveries in flight are over, the files stay.
Crash ==
  /\ up
  /\ worker' = [w \in Worker |-> IF w \in Passes \/ At(w, "rest") THEN Resting ELSE Done]
  /\ listed' = [p \in Passes |-> NothingListed]
  /\ up' = FALSE
  /\ UNCHANGED <<queueVars, mode, history>>

-----------------------------------------------------------------------------
SendStep(w) ==
  \/ SendPayload(w) \/ SendFailsSoftly(w) \/ SendReturns(w)
  \/ \E permanent \in BOOLEAN : SendThrows(w, permanent)
FileWorks(w) == AckDelivery(w) \/ ReadEntry(w) \/ WriteEntry(w) \/ MoveToFailed(w)
FileStep(w) == FileWorks(w) \/ TearEntry(w) \/ AckFails(w) \/ UpdateFails(w)
PassStep(p) == BudgetSpent(p) \/ \E d \in Delivery : Replay(p, d) \/ DropEntry(p, d) \/ Defer(p, d)

Next ==
  \/ \E d \in Delivery : CutOff(d) \/ \E m \in Modes : Enqueue(d, m)
  \/ \E w \in Worker : SendStep(w) \/ FileStep(w)
  \/ \E p \in Passes : StartGateway(p) \/ PassStep(p)
  \/ Crash

Spec == Init /\ [][Next]_vars

\* Sends and file operations return, those of the recovery passes do not all fail for ever,
\* the gateway is started again and again (entries are replayed at a start only), and an
\* entry's turn comes: its backoff elapses and the budget of some pass reaches it.
FairSpec ==
  /\ Spec
  /\ \A w \in Worker : WF_vars(SendStep(w) \/ FileStep(w))
  /\ SF_vars(\E p \in Passes : StartGateway(p))
  /\ SF_vars(\E p \in Passes : ReadEntry(p))
  /\ SF_vars(\E p \in Passes : AckDelivery(p) \/ WriteEntry(p) \/ MoveToFailed(p))
  /\ \A d \in Delivery : SF_vars(\E p \in Passes : Replay(p, d) \/ DropEntry(p, d))

-----------------------------------------------------------------------------
TypeOK ==
  /\ file \in [Delivery -> {"none", "queue", "torn", "failed"}]
  /\ retries \in [Delivery -> Nat]
  /\ tried \in [Delivery -> BOOLEAN]
  /\ mode \in [Delivery -> Modes \cup {"strict"}]
  /\ worker \in [Worker -> [at : Stages, job : Delivery \cup {0}, next : Nat,
                            partial : BOOLEAN, seen : Nat]]
  /\ listed \in [Passes -> [Delivery -> [retries : Nat, tried : BOOLEAN, listed : BOOLEAN]]]
  /\ up \in BOOLEAN
  /\ kept \in [Delivery -> BOOLEAN]
  /\ sent \in [Delivery -> SUBSET (1..Payloads)]
  /\ verdicts \in [Delivery -> SUBSET {"cut", "permanent"}]
  /\ failures \in [Delivery -> 0..MaxRetries]
  /\ raced \in [Delivery -> BOOLEAN]
  /\ crowded \in [Delivery -> BOOLEAN]

AllSent(d) == sent[d] = 1..Payloads

\* Whatever crashes, failures and races there are, the entry of a strict delivery leaves
\* the queue only when every payload was sent or when its live send was cut off, by its
\* caller or by a timeout of the channel (which removes a delivery nobody gave up); it
\* becomes unreadable only when two workers had it at once
\* (deliverOutboundPayloads, ackDelivery, failDelivery).
StrictIsNeverLost ==
  \A d \in Delivery : kept[d] /\ mode[d] = "strict" =>
    /\ file[d] = "none" => AllSent(d) \/ "cut" \in verdicts[d]
    /\ file[d] = "torn" => raced[d]

\* An entry is given up only for a permanent error or after MaxRetries recorded
\* failures, though the count is read, kept in memory and written back by several workers
\* (recoverPendingDeliveries, failDelivery).
FailedForCause ==
  \A d \in Delivery : file[d] = "failed" => "permanent" \in verdicts[d] \/ failures[d] = MaxRetries

\* Retries are bounded by MAX_RETRIES and the one live attempt, unless passes of two starts
\* had the entry at once: each then checks a count the others go on raising
\* (the check in recoverPendingDeliveries against a count read at the start of the pass).
RetriesBounded == \A d \in Delivery : ~crowded[d] => retries[d] <= MaxRetries + 1

\* An entry that has left the queue comes back only when two workers, the live one and a
\* pass or two passes, had it at once (failDelivery writes back what it read).
OnlyARaceRevives ==
  [][\A d \in Delivery : kept[d] /\ file[d] # "queue" /\ file'[d] = "queue" => raced[d]]_vars

\* If the process stops crashing, every entry leaves the queue, however its sends end: it is
\* delivered, its failures are counted up to the limit, or overlapping workers made it
\* unreadable (failDelivery, recoverPendingDeliveries).
EveryEntryIsDecided ==
  \A d \in Delivery : <>[][~Crash]_vars => (file[d] = "queue" ~> file[d] # "queue")
=============================================================================
