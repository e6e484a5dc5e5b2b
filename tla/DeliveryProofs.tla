---------------------------- MODULE DeliveryProofs ----------------------------
(***************************************************************************)
(* What the delivery queue keeps for any number of deliveries, payloads,   *)
(* retries, starts, overlapping passes and crashes: no strict delivery is  *)
(* lost, none is given up without a cause, its retries are bounded while   *)
(* the passes that have it do not overlap, and it comes back only after a  *)
(* race of two workers.                                                    *)
(***************************************************************************)
EXTENDS DeliveryQueue, TLAPS

WorkerRecord == [at : Stages, job : Delivery \cup {0}, next : Nat, partial : BOOLEAN, seen : Nat]
ListRecord == [retries : Nat, tried : BOOLEAN, listed : BOOLEAN]
Active(w) == worker[w].at \notin {"rest", "done"}

\* A worker handles one delivery, and sends it from the first payload.
Serves(w) ==
  /\ worker[w].next # 0
  /\ Active(w) => Job(w) \in Delivery /\ (w \notin Passes => Job(w) = w)
  /\ ~Active(w) => Job(w) = 0

\* Nothing exists of a delivery that was not begun.
Untouched(d) ==
  At(d, "rest") => file[d] = "none" /\ ~kept[d] /\ \A p \in Passes : ~listed[p][d].listed

\* A recovery pass works on one delivery that has begun and that it has taken off its list.
PassServes(p) ==
  Active(p) => ~At(Job(p), "rest") /\ ~listed[p][Job(p)].listed

\* Workers that have an entry at once are in `raced`, passes that know of it in `crowded`.
RaceIsKnown ==
  \A v, w \in Worker : v # w /\ Active(v) /\ Active(w) /\ Job(v) = Job(w) => raced[Job(w)]
Holds(p, d) == listed[p][d].listed \/ Job(p) = d
CrowdIsKnown ==
  \A p, q \in Passes : \A d \in Delivery : p # q /\ Holds(p, d) /\ Holds(q, d) => crowded[d]

\* What a worker of a strict delivery knows of the channel before it removes the entry.
Delivering(w) ==
  mode[Job(w)] = "strict" =>
    /\ At(w, "send") => 1..(worker[w].next - 1) \subseteq sent[Job(w)]
    /\ At(w, "unlink") => AllSent(Job(w)) \/ "cut" \in verdicts[Job(w)]

\* A count of retries, wherever it was copied, stands for recorded failures.
Recorded(n, d) == n <= failures[d] \/ failures[d] = MaxRetries
MayGiveUp(d) == "permanent" \in verdicts[d] \/ failures[d] = MaxRetries

Counting(w) ==
  /\ At(w, "move") => MayGiveUp(Job(w))
  /\ At(w, "rename") => /\ Recorded(worker[w].seen, Job(w))
                        /\ file[Job(w)] # "queue" => raced[Job(w)]

Copied(d) ==
  /\ Recorded(retries[d], d)
  /\ \A p \in Passes : listed[p][d].listed => Recorded(listed[p][d].retries, d)
  /\ file[d] = "failed" => MayGiveUp(d)
  /\ file[d] = "torn" => raced[d]

\* The live worker writes a count once, and a pass only below the limit: a copy is at
\* most one behind, once the live worker is done, unless passes overlap.
Lag(d) == IF At(d, "done") THEN 1 ELSE 0
Bounded(d) ==
  ~crowded[d] =>
    /\ retries[d] <= MaxRetries + Lag(d)
    /\ \A p \in Passes : listed[p][d].listed => retries[d] <= listed[p][d].retries + Lag(d)
    /\ At(d, "rename") => worker[d].seen <= retries[d]

PassBounded(p) ==
  ~crowded[Job(p)] =>
    /\ worker[p].at \in {"send", "unlink", "read"} =>
         retries[Job(p)] < MaxRetries + Lag(Job(p))
    /\ At(p, "rename") =>
         /\ worker[p].seen < MaxRetries + Lag(Job(p))
         /\ At(Job(p), "done") \/ worker[p].seen = retries[Job(p)]

Lost(d) == kept[d] /\ mode[d] = "strict" /\ file[d] = "none"
             /\ ~AllSent(d) /\ "cut" \notin verdicts[d]

IInv ==
  /\ TypeOK
  /\ \A w \in Worker : Serves(w)
  /\ \A d \in Delivery : Untouched(d)
  /\ \A p \in Passes : PassServes(p)
  /\ RaceIsKnown
  /\ CrowdIsKnown
  /\ \A w \in Worker : Active(w) => Delivering(w) /\ Counting(w)
  /\ \A d \in Delivery : Copied(d) /\ Bounded(d) /\ ~Lost(d)
  /\ \A p \in Passes : Active(p) => PassBounded(p)

-----------------------------------------------------------------------------
(* The initial state, and a worker's step that leaves the files alone.     *)

LEMMA Names ==
  /\ Delivery \subseteq Nat /\ 0 \notin Delivery
  /\ Passes \cap Delivery = {} /\ Passes \cap Nat = {}
  /\ MaxRetries \in Nat /\ Payloads \in Nat
  /\ Passes \subseteq Worker /\ Delivery \subseteq Worker
BY DeliveryAssumption DEF Delivery, Worker

LEMMA OverIsTyped ==
  /\ Resting \in WorkerRecord /\ Done \in WorkerRecord
  /\ Resting.at = "rest" /\ Done.at = "done" /\ Resting.next = 1 /\ Done.next = 1
  /\ Resting.job = 0 /\ Done.job = 0
<1>1. Resting \in WorkerRecord
  BY DEF Resting, WorkerRecord, Stages
<1>2. QED
  BY <1>1 DEF Done, Resting, WorkerRecord, Stages

LEMMA NothingIsTyped ==
  /\ NotListed \in ListRecord /\ ~NotListed.listed
  /\ NothingListed \in [Delivery -> ListRecord] /\ \A d \in Delivery : ~NothingListed[d].listed
BY DEF NotListed, NothingListed, ListRecord

LEMMA Types ==
  ASSUME IInv
  PROVE  /\ file \in [Delivery -> {"none", "queue", "torn", "failed"}]
         /\ retries \in [Delivery -> Nat] /\ tried \in [Delivery -> BOOLEAN]
         /\ worker \in [Worker -> WorkerRecord]
         /\ listed \in [Passes -> [Delivery -> ListRecord]]
         /\ sent \in [Delivery -> SUBSET (1..Payloads)]
         /\ verdicts \in [Delivery -> SUBSET {"cut", "permanent"}]
         /\ failures \in [Delivery -> 0..MaxRetries]
BY DEF IInv, TypeOK, WorkerRecord, ListRecord

LEMMA ListTypes ==
  ASSUME IInv, NEW p \in Passes, NEW d \in Delivery
  PROVE  listed[p][d] \in ListRecord /\ listed[p][d].retries \in Nat
         /\ listed[p][d].listed \in BOOLEAN /\ listed[p][d].tried \in BOOLEAN
BY Types DEF ListRecord

LEMMA WorkerTypes ==
  ASSUME IInv, NEW w \in Worker
  PROVE  worker[w] \in WorkerRecord /\ worker[w].next \in Nat /\ worker[w].seen \in Nat
         /\ worker[w].partial \in BOOLEAN
BY Types DEF WorkerRecord

LEMMA InitSound == Init => IInv
<1> SUFFICES ASSUME Init PROVE IInv
  OBVIOUS
<1> USE Names
<1>1. worker \in [Worker -> WorkerRecord] /\ \A w \in Worker : worker[w] = Resting
  BY OverIsTyped DEF Init
<1>2. 0 \in 0..MaxRetries /\ listed \in [Passes -> [Delivery -> ListRecord]]
      /\ \A p \in Passes : \A d \in Delivery : ~listed[p][d].listed
  BY NothingIsTyped DEF Init
<1>3. /\ sent \in [Delivery -> SUBSET (1..Payloads)]
      /\ verdicts \in [Delivery -> SUBSET {"cut", "permanent"}]
      /\ failures \in [Delivery -> 0..MaxRetries]
  BY <1>2 DEF Init
<1>4. TypeOK
  BY <1>1, <1>2, <1>3 DEF Init, TypeOK, WorkerRecord, ListRecord
<1>5. \A w \in Worker : ~Active(w) /\ Serves(w) /\ Job(w) = 0
  BY <1>1, OverIsTyped DEF Serves, Active, Job
<1>6. \A d \in Delivery : Untouched(d) /\ ~Lost(d)
  BY <1>2 DEF Init, Untouched, Lost
<1>7. \A d \in Delivery : Copied(d)
  BY <1>2 DEF Init, Copied, Recorded
<1>8. \A d \in Delivery : Bounded(d)
  BY <1>1, <1>2, OverIsTyped DEF Init, Bounded, Lag, At
<1>9. CrowdIsKnown
  BY <1>2, <1>5 DEF CrowdIsKnown, Holds
<1>10. QED
  BY <1>4, <1>5, <1>6, <1>7, <1>8, <1>9 DEF IInv, PassServes, RaceIsKnown

LEMMA JobIsADelivery ==
  ASSUME IInv, NEW w \in Worker, Active(w)
  PROVE  /\ Job(w) \in Delivery
         /\ w \notin Passes => Job(w) = w /\ w \in Delivery
         /\ w \in Delivery => w \notin Passes /\ Job(w) = w
BY Names DEF IInv, Serves, Worker

\* A worker that has a delivery in hand is at it.
LEMMA JobIsActive ==
  ASSUME IInv, NEW w \in Worker, NEW d \in Delivery, Job(w) = d
  PROVE  Active(w)
BY Names DEF IInv, Serves

\* A worker that is through with its delivery.
Through(w, c) == c = IF w \in Passes THEN Resting ELSE Done

\* What a worker may go on with, given what it knows.
GoesOn(w, d, c) ==
  /\ c \in WorkerRecord /\ c.job = d /\ c.next # 0
  /\ c.at \notin {"rest", "done"}
  /\ c.at = "send" => At(w, "send")
  /\ c.at \in {"unlink", "read"} => worker[w].at \in {"send", "unlink"}
  /\ c.at = "rename" => At(w, "read") /\ c.seen = retries[d] /\ file[d] = "queue"
  /\ c.at = "move" => MayGiveUp(d)'
  /\ mode[d] = "strict" =>
       /\ c.at = "send" => 1..(c.next - 1) \subseteq sent'[d]
       /\ c.at = "unlink" => AllSent(d)' \/ "cut" \in verdicts'[d]

(* What a worker's own step, and no other's, does to who has which entry. *)
LEMMA HandsAreSound ==
  ASSUME IInv, NEW w \in Worker, Active(w), NEW d \in Delivery, d = Job(w), NEW c \in WorkerRecord,
         c.next # 0,
         Through(w, c) \/ (c.job = d /\ c.at \notin {"rest", "done"}),
         worker' = [worker EXCEPT ![w] = c],
         UNCHANGED <<listed, raced, crowded>>
  PROVE  /\ \A v \in Worker : Serves(v)'
         /\ \A p \in Passes : PassServes(p)'
         /\ RaceIsKnown' /\ CrowdIsKnown'
<1> USE Names
<1>1. d \in Delivery /\ (w \notin Passes => d = w) /\ (w \in Delivery => d = w)
  BY JobIsADelivery
<1>2. worker' \in [Worker -> WorkerRecord] /\ worker'[w] = c
      /\ \A v \in Worker : v # w => worker'[v] = worker[v]
  BY Types
<1>3. /\ c.at \in {"rest", "done"} => c.job = 0
      /\ c.at \notin {"rest", "done"} => c.job = d
      /\ c.at = "rest" => w \in Passes
  BY OverIsTyped DEF Through
<1>4. \A v \in Worker : /\ Active(v)' => Active(v) /\ Job(v)' = Job(v)
                        /\ \A e \in Delivery : Job(v)' = e => Job(v) = e
  BY <1>2, <1>3 DEF Active, Job
<1>5. \A v \in Worker : Serves(v)'
  BY <1>1, <1>2, <1>3 DEF IInv, Serves, Active, Job
<1>6. \A e \in Delivery : At(e, "rest")' => At(e, "rest")
  BY <1>2, <1>3 DEF At
<1>7. \A p \in Passes : PassServes(p)'
  <2> SUFFICES ASSUME NEW p \in Passes, Active(p)' PROVE PassServes(p)'
    BY DEF PassServes
  <2>1. Active(p) /\ Job(p)' = Job(p) /\ Job(p) \in Delivery
    BY <1>4, JobIsADelivery
  <2>2. ~At(Job(p), "rest") /\ ~listed[p][Job(p)].listed
    BY <2>1 DEF IInv, PassServes
  <2>3. QED BY <2>1, <2>2, <1>6 DEF PassServes
<1>8. RaceIsKnown'
  <2> SUFFICES ASSUME NEW v \in Worker, NEW u \in Worker, v # u, Active(v)', Active(u)',
                      Job(v)' = Job(u)'
               PROVE  raced'[Job(u)']
    BY DEF RaceIsKnown
  <2>1. QED BY <1>4 DEF IInv, RaceIsKnown
<1>9. CrowdIsKnown'
  <2> SUFFICES ASSUME NEW p \in Passes, NEW q \in Passes, NEW e \in Delivery, p # q,
                      Holds(p, e)', Holds(q, e)'
               PROVE  crowded'[e]
    BY DEF CrowdIsKnown
  <2>1. Holds(p, e) /\ Holds(q, e)
    BY <1>4 DEF Holds
  <2>2. QED BY <2>1 DEF IInv, CrowdIsKnown
<1>10. QED BY <1>5, <1>7, <1>8, <1>9

LEMMA MoveIsSound ==
  ASSUME IInv, NEW w \in Worker, Active(w), NEW d \in Delivery, d = Job(w), NEW c,
         worker' = [worker EXCEPT ![w] = c], Through(w, c) \/ GoesOn(w, d, c),
         UNCHANGED <<queueVars, mode, listed, up, kept, failures, raced, crowded>>,
         sent' \in [Delivery -> SUBSET (1..Payloads)],
         verdicts' \in [Delivery -> SUBSET {"cut", "permanent"}],
         \A e \in Delivery : sent[e] \subseteq sent'[e] /\ verdicts[e] \subseteq verdicts'[e]
  PROVE  IInv'
<1> USE Names DEF queueVars
<1>1. d \in Delivery /\ (w \notin Passes => d = w) /\ (w \in Delivery => d = w)
  BY JobIsADelivery
<1>2. c \in WorkerRecord
  BY OverIsTyped DEF Through, GoesOn
<1>3. worker \in [Worker -> WorkerRecord]
  BY Types
<1>4. worker' \in [Worker -> WorkerRecord] /\ worker'[w] = c
      /\ \A v \in Worker : v # w => worker'[v] = worker[v]
  BY <1>2, <1>3
<1>5. TypeOK'
  BY <1>4 DEF IInv, TypeOK, WorkerRecord
<1>6. c.next # 0 /\ (c.at \in {"rest", "done"} \/ (c.job = d))
      /\ (c.at = "rest" => w \in Passes) /\ (c.at = "done" => w \notin Passes)
  BY OverIsTyped DEF Through, GoesOn
<1>7. /\ \A v \in Worker : Serves(v)'
      /\ \A p \in Passes : PassServes(p)'
      /\ RaceIsKnown' /\ CrowdIsKnown'
  BY <1>2, <1>6, HandsAreSound DEF GoesOn
<1>8. \A e \in Delivery : Untouched(e)'
  BY <1>4, <1>6 DEF IInv, Untouched, At
<1>9. ASSUME NEW v \in Worker, Active(v)' PROVE Delivering(v)' /\ Counting(v)'
  <2>1. CASE v # w
    <3>1. worker'[v] = worker[v] /\ Active(v) /\ Job(v) \in Delivery
      BY <2>1, <1>4, <1>9, JobIsADelivery DEF Active
    <3>2. Delivering(v)'
      <4>1. Delivering(v) /\ Job(v)' = Job(v)
        BY <3>1 DEF IInv, Job
      <4>2. AllSent(Job(v)) => AllSent(Job(v))'
        BY <3>1, <4>1 DEF AllSent
      <4>3. QED BY <3>1, <4>1, <4>2 DEF Delivering, At
    <3>3. Counting(v)'
      BY <3>1 DEF IInv, Counting, MayGiveUp, Recorded, At, Job
    <3>4. QED BY <3>2, <3>3
  <2>2. CASE v = w
    <3>1. GoesOn(w, d, c)
      BY <2>2, <1>4, <1>9, OverIsTyped DEF Through, Active
    <3>2. Job(w)' = d /\ worker'[w].at = c.at /\ worker'[w].next = c.next /\ worker'[w].seen = c.seen
      BY <3>1, <1>4 DEF GoesOn, Job
    <3>3. Delivering(w)'
      BY <3>1, <3>2 DEF GoesOn, Delivering, AllSent, At
    <3>4. Counting(w)'
      BY <3>1, <3>2, <1>1 DEF GoesOn, Counting, At, MayGiveUp, Recorded, IInv, Copied
    <3>5. QED BY <2>2, <3>3, <3>4
  <2>3. QED BY <2>1, <2>2
<1>10. ASSUME NEW e \in Delivery PROVE Copied(e)' /\ Bounded(e)' /\ ~Lost(e)'
  <2>1. Copied(e)'
    BY DEF IInv, Copied, Recorded, MayGiveUp
  <2>2. ~Lost(e)'
    BY DEF IInv, Lost, AllSent, TypeOK
  <2>3. Lag(e) <= Lag(e)' /\ Lag(e) \in Nat /\ Lag(e)' \in Nat
    BY <1>1, <1>4 DEF Lag, At, Active
  <2>4. ~crowded[e] => (worker'[e].at = "rename" => worker'[e].seen <= retries[e])
    <3>1. CASE e # w
      BY <3>1, <1>4 DEF IInv, Bounded, At
    <3>2. CASE e = w
      BY <3>2, <1>1, <1>4, OverIsTyped, Types DEF Through, GoesOn
    <3>3. QED BY <3>1, <3>2
  <2>5. \A p \in Passes : listed[p][e].retries \in Nat
    BY ListTypes
  <2>6. Bounded(e)'
    BY <2>3, <2>4, <2>5, Types DEF IInv, Bounded, At
  <2>7. QED BY <2>1, <2>2, <2>6
<1>11. ASSUME NEW p \in Passes, Active(p)' PROVE PassBounded(p)'
  <2>1. CASE p = w
    <3>1. GoesOn(w, d, c)
      BY <2>1, <1>4, <1>11, OverIsTyped DEF Through, Active
    <3>2. Lag(d)' = Lag(d) /\ (At(d, "done")' <=> At(d, "done"))
      BY <2>1, <1>1, <1>4 DEF Lag, At
    <3>3. Job(p)' = d /\ worker'[p] = c
      BY <2>1, <3>1, <1>4 DEF GoesOn, Job
    <3>4. PassBounded(w)
      BY <2>1 DEF IInv
    <3>5. QED BY <2>1, <3>1, <3>2, <3>3, <3>4 DEF GoesOn, PassBounded, At
  <2>2. CASE p # w
    <3>1. worker'[p] = worker[p] /\ Active(p) /\ PassBounded(p)
      BY <2>2, <1>4, <1>11 DEF Active, IInv
    <3>2. PICK e \in Delivery : e = Job(p) /\ Job(p)' = e
      BY <3>1, JobIsADelivery DEF Job
    <3>3. Lag(e) <= Lag(e)' /\ Lag(e) \in Nat /\ Lag(e)' \in Nat /\ (At(e, "done") => At(e, "done")')
      BY <1>1, <1>4 DEF Lag, At, Active
    <3>4. worker[p].seen \in Nat /\ retries[e] \in Nat /\ retries'[e] = retries[e]
      BY WorkerTypes, Types
    <3>5. QED BY <3>1, <3>2, <3>3, <3>4 DEF PassBounded, At
  <2>3. QED BY <2>1, <2>2
<1>12. QED BY <1>5, <1>7, <1>8, <1>9, <1>10, <1>11 DEF IInv
-----------------------------------------------------------------------------
(* Each step of a worker that leaves the files alone is such a move.        *)

LEMMA FinishIsAMove ==
  ASSUME NEW w \in Worker, Finish(w)
  PROVE  \E c : worker' = [worker EXCEPT ![w] = c] /\ Through(w, c)
BY DEF Finish, Through

LEMMA GoIsAMove ==
  ASSUME IInv, NEW w \in Worker, NEW stage \in Stages \ {"rest", "done"}, Go(w, stage)
  PROVE  \E c \in WorkerRecord : /\ worker' = [worker EXCEPT ![w] = c]
                                /\ c.at = stage /\ c.job = Job(w) /\ c.next = worker[w].next
                                /\ c.seen = worker[w].seen /\ c.next # 0
<1> DEFINE c == [worker[w] EXCEPT !.at = stage]
<1>1. worker[w] \in WorkerRecord
  BY DEF IInv, TypeOK, WorkerRecord
<1>2. c \in WorkerRecord /\ c.at = stage /\ c.job = Job(w) /\ c.next = worker[w].next
      /\ c.seen = worker[w].seen
  BY <1>1 DEF WorkerRecord, Job
<1>3. worker' = [worker EXCEPT ![w] = c]
  BY DEF Go
<1>4. QED BY <1>2, <1>3 DEF IInv, Serves

(* A payload is sent, or a best-effort send goes on after an error. *)
LEMMA NextPayloadIsSound ==
  ASSUME IInv, NEW w \in Worker, SendPayload(w) \/ SendFailsSoftly(w)
  PROVE  IInv'
<1> USE Names
<1>1. At(w, "send") /\ Active(w) /\ worker[w].next <= Payloads
  BY DEF SendPayload, SendFailsSoftly, Sending, At, Active
<1>2. PICK d \in Delivery : d = Job(w)
  BY <1>1, JobIsADelivery
<1>3. worker[w] \in WorkerRecord /\ worker[w].next # 0 /\ worker[w].next \in Nat
  BY DEF IInv, TypeOK, WorkerRecord, Serves
<1>4. PICK b \in BOOLEAN :
        worker' = [worker EXCEPT ![w] = [worker[w] EXCEPT !.next = @ + 1, !.partial = b]]
  <2>1. CASE SendPayload(w)
    <3>1. worker[w].partial \in BOOLEAN
      BY <1>3 DEF WorkerRecord
    <3>2. [worker[w] EXCEPT !.next = @ + 1] =
            [worker[w] EXCEPT !.next = @ + 1, !.partial = worker[w].partial]
      BY <1>3 DEF WorkerRecord
    <3>3. QED BY <2>1, <3>1, <3>2 DEF SendPayload
  <2>2. CASE SendFailsSoftly(w)
    <3>1. (worker[w].partial \/ ErrorIsNoticed(w)) \in BOOLEAN
      BY DEF ErrorIsNoticed
    <3>2. QED BY <2>2, <3>1 DEF SendFailsSoftly
  <2>3. QED BY <2>1, <2>2
<1> DEFINE c == [worker[w] EXCEPT !.next = @ + 1, !.partial = b]
<1>5. c \in WorkerRecord /\ c.at = "send" /\ c.job = d /\ c.next = worker[w].next + 1
  <2>1. worker[w].next + 1 \in Nat /\ worker[w].at = "send" /\ worker[w].job = d
    BY <1>1, <1>2, <1>3 DEF At, Job
  <2>2. QED BY <1>3, <2>1 DEF WorkerRecord
<1>6. /\ sent' \in [Delivery -> SUBSET (1..Payloads)]
      /\ \A e \in Delivery : sent[e] \subseteq sent'[e]
      /\ mode[d] = "strict" => sent'[d] = sent[d] \cup {worker[w].next}
  <2>1. sent \in [Delivery -> SUBSET (1..Payloads)] /\ worker[w].next \in 1..Payloads
    BY <1>1, <1>3 DEF IInv, TypeOK
  <2>2. CASE SendPayload(w)
    <3>1. sent' = [sent EXCEPT ![d] = @ \cup {worker[w].next}]
      BY <1>2, <2>2 DEF SendPayload
    <3>2. QED BY <2>1, <3>1
  <2>3. CASE SendFailsSoftly(w)
    BY <1>2, <2>1, <2>3 DEF SendFailsSoftly, history
  <2>4. QED BY <1>1, <2>2, <2>3
<1>7. mode[d] = "strict" => 1..(worker[w].next - 1) \subseteq sent[d]
  BY <1>1, <1>2 DEF IInv, Delivering
<1>8. GoesOn(w, d, c)
  BY <1>1, <1>3, <1>5, <1>6, <1>7 DEF GoesOn
<1>9. /\ UNCHANGED <<queueVars, mode, listed, up, kept, failures, raced, crowded, verdicts>>
      /\ verdicts \in [Delivery -> SUBSET {"cut", "permanent"}]
  BY DEF SendPayload, SendFailsSoftly, history, IInv, TypeOK
<1>10. QED BY <1>1, <1>2, <1>4, <1>6, <1>8, <1>9, MoveIsSound

(* A send ends. *)
LEMMA SendEndsSound ==
  ASSUME IInv, NEW w \in Worker,
         \/ SendReturns(w)
         \/ w \in Delivery /\ CutOff(w)
         \/ \E permanent \in BOOLEAN : SendThrows(w, permanent)
  PROVE  IInv'
<1> USE Names
<1>1. At(w, "send") /\ Active(w)
  BY DEF SendReturns, CutOff, SendThrows, CanThrow, Sending, At, Active
<1>2. PICK d \in Delivery : d = Job(w) /\ (w \notin Passes => d = w) /\ (w \in Delivery => d = w)
  BY <1>1, JobIsADelivery
<1>3. /\ UNCHANGED <<queueVars, mode, listed, up, kept, failures, raced, crowded, sent>>
      /\ sent \in [Delivery -> SUBSET (1..Payloads)]
      /\ verdicts' \in [Delivery -> SUBSET {"cut", "permanent"}]
      /\ \A e \in Delivery : verdicts[e] \subseteq verdicts'[e]
  <2>1. verdicts \in [Delivery -> SUBSET {"cut", "permanent"}] /\ sent \in [Delivery -> SUBSET (1..Payloads)]
    BY DEF IInv, TypeOK
  <2>2. UNCHANGED <<queueVars, mode, listed, up, kept, failures, raced, crowded, sent>>
    BY DEF SendReturns, CutOff, SendThrows, history
  <2>3. verdicts' = verdicts \/ \E v \in {"cut", "permanent"} :
                                verdicts' = [verdicts EXCEPT ![d] = @ \cup {v}]
    <3>1. CASE SendReturns(w)
      BY <3>1 DEF SendReturns, history
    <3>2. CASE w \in Delivery /\ CutOff(w)
      <4>1. verdicts' = [verdicts EXCEPT ![w] = @ \cup {"cut"}]
        BY <3>2 DEF CutOff
      <4>2. QED BY <3>2, <4>1, <1>2
    <3>3. CASE \E permanent \in BOOLEAN : SendThrows(w, permanent)
      BY <3>3, <1>2 DEF SendThrows
    <3>4. QED BY <3>1, <3>2, <3>3
  <2>4. QED BY <2>1, <2>2, <2>3
<1>4. \/ Finish(w)
      \/ SendReturns(w) /\ (Go(w, "unlink") \/ Go(w, "read"))
      \/ w \in Delivery /\ CutOff(w) /\ Go(w, "unlink")
      \/ Go(w, "read")
      \/ Go(w, "move") /\ "permanent" \in verdicts'[d]
  <2>1. CASE SendReturns(w)
    BY <2>1 DEF SendReturns, AfterSend
  <2>2. CASE w \in Delivery /\ CutOff(w)
    BY <2>2 DEF CutOff
  <2>3. CASE \E permanent \in BOOLEAN : SendThrows(w, permanent)
    BY <2>3, <1>2 DEF SendThrows, AfterError, RecordFailure, IInv, TypeOK
  <2>4. QED BY <2>1, <2>2, <2>3
<1>5. CASE Finish(w)
  BY <1>1, <1>2, <1>3, <1>5, FinishIsAMove, MoveIsSound
<1>6. ASSUME NEW stage \in {"unlink", "read", "move"}, Go(w, stage),
             stage = "move" => "permanent" \in verdicts'[d],
             stage = "unlink" => SendReturns(w) \/ (w \in Delivery /\ CutOff(w))
      PROVE  IInv'
  <2>1. PICK c \in WorkerRecord :
          /\ worker' = [worker EXCEPT ![w] = c]
          /\ c.at = stage /\ c.job = d /\ c.next # 0
    BY <1>2, <1>6, GoIsAMove DEF Stages
  <2>2. ASSUME mode[d] = "strict", stage = "unlink"
        PROVE  AllSent(d)' \/ "cut" \in verdicts'[d]
    <3>1. CASE SendReturns(w)
      <4>1. 1..(worker[w].next - 1) \subseteq sent[d]
        BY <1>1, <1>2, <2>2 DEF IInv, Delivering
      <4>2. worker[w].next > Payloads /\ worker[w].next \in Nat
        BY <3>1 DEF IInv, SendReturns, TypeOK
      <4>3. sent[d] = 1..Payloads
        <5>1. sent[d] \subseteq 1..Payloads
          BY <1>3
        <5>2. 1..Payloads \subseteq 1..(worker[w].next - 1)
          BY <4>2
        <5>3. QED BY <4>1, <5>1, <5>2
      <4>4. QED BY <4>3, <1>3 DEF AllSent
    <3>2. CASE w \in Delivery /\ CutOff(w)
      <4>1. w = d
        BY <1>2, <3>2 DEF CutOff
      <4>2. QED BY <3>2, <4>1 DEF CutOff, IInv, TypeOK
    <3>3. QED BY <1>6, <2>2, <3>1, <3>2
  <2>3. GoesOn(w, d, c)
    BY <1>1, <1>6, <2>1, <2>2 DEF GoesOn, MayGiveUp, At
  <2>4. QED BY <1>1, <1>2, <1>3, <2>1, <2>3, MoveIsSound
<1>7. QED BY <1>4, <1>5, <1>6
-----------------------------------------------------------------------------
(* The steps that update the entry's file.                                 *)

\* The counts a worker may leave behind.
CountsFit(w, d, n, k) ==
  /\ n <= k \/ k = MaxRetries
  /\ w = d /\ ~crowded[d] =>
       /\ n <= MaxRetries + 1
       /\ \A p \in Passes : /\ listed[p][d].listed => n <= listed[p][d].retries + 1
                            /\ Job(p) = d /\ worker[p].at \in {"send", "unlink", "read"}
                                 => n <= MaxRetries
  /\ w # d /\ ~crowded[d] => n <= MaxRetries + Lag(d) /\ (At(d, "rename") => retries[d] <= n)

(* An update of the entry's file, its counts and its record of failures, by a worker that is
   through with the delivery. *)
LEMMA UpdateIsSound ==
  ASSUME IInv, NEW w \in Worker, Active(w), NEW d \in Delivery, d = Job(w), Finish(w),
         NEW f \in {"none", "queue", "torn", "failed"}, NEW n \in Nat, NEW k \in 0..MaxRetries,
         file' = [file EXCEPT ![d] = f], retries' = [retries EXCEPT ![d] = n],
         failures' = [failures EXCEPT ![d] = k], tried' \in [Delivery -> BOOLEAN],
         UNCHANGED <<mode, listed, up, kept, sent, verdicts, raced, crowded>>,
         failures[d] <= k,
         f = "failed" => MayGiveUp(d),
         f = "torn" => raced[d],
         f = "none" /\ kept[d] /\ mode[d] = "strict" => AllSent(d) \/ "cut" \in verdicts[d],
         CountsFit(w, d, n, k)
  PROVE  IInv'
<1> USE Names
<1>1. (w \notin Passes => d = w) /\ (w \in Delivery => d = w /\ w \notin Passes)
  BY JobIsADelivery
<1>2. /\ worker' \in [Worker -> WorkerRecord] /\ worker \in [Worker -> WorkerRecord]
      /\ worker'[w] = (IF w \in Passes THEN Resting ELSE Done)
      /\ \A v \in Worker : v # w => worker'[v] = worker[v]
  BY OverIsTyped, Types DEF Finish
<1>3. /\ file'[d] = f /\ retries'[d] = n /\ failures'[d] = k
      /\ \A e \in Delivery : e # d => file'[e] = file[e] /\ retries'[e] = retries[e]
                                       /\ failures'[e] = failures[e]
      /\ file' \in [Delivery -> {"none", "queue", "torn", "failed"}] /\ retries' \in [Delivery -> Nat]
      /\ failures' \in [Delivery -> 0..MaxRetries]
  BY Types
<1>4. TypeOK'
  BY <1>2, <1>3 DEF IInv, TypeOK, WorkerRecord
<1>5. ~At(d, "rest") /\ ~Active(w)'
  BY <1>1, <1>2, OverIsTyped DEF IInv, PassServes, Active, At
<1>6. /\ \A v \in Worker : Serves(v)'
      /\ \A p \in Passes : PassServes(p)'
      /\ RaceIsKnown' /\ CrowdIsKnown'
  <2> DEFINE c == IF w \in Passes THEN Resting ELSE Done
  <2>1. c \in WorkerRecord /\ c.next # 0 /\ Through(w, c) /\ worker' = [worker EXCEPT ![w] = c]
    BY OverIsTyped DEF Through, Finish
  <2> HIDE DEF c
  <2>2. QED BY <2>1, HandsAreSound
<1>7. \A e \in Delivery : Untouched(e)'
  BY <1>1, <1>2, <1>3, <1>5, OverIsTyped DEF IInv, Untouched, At
<1>8. \A v \in Worker : Active(v)' =>
        v # w /\ worker'[v] = worker[v] /\ Active(v) /\ Job(v)' = Job(v) /\ Job(v) \in Delivery
  BY <1>2, <1>5, JobIsADelivery DEF Active, Job
<1>9. ASSUME NEW v \in Worker, Active(v)' PROVE Delivering(v)' /\ Counting(v)'
  <2>1. v # w /\ worker'[v] = worker[v] /\ Active(v) /\ Delivering(v) /\ Counting(v)
    BY <1>8, <1>9 DEF IInv
  <2>2. PICK e \in Delivery : e = Job(v) /\ Job(v)' = e
    BY <1>8, <1>9
  <2>3. Delivering(v)'
    BY <2>1, <2>2 DEF Delivering, AllSent, At
  <2>4. CASE e # d
    <3>1. Counting(v)'
      BY <2>1, <2>2, <2>4, <1>3 DEF Counting, MayGiveUp, Recorded, At
    <3>2. QED BY <2>3, <3>1
  <2>5. CASE e = d
    <3>1. raced[d] /\ raced'[d]
      BY <2>1, <2>2, <2>5 DEF IInv, RaceIsKnown
    <3>2. failures[d] = MaxRetries => k = MaxRetries
      BY Types
    <3>3. failures[d] \in 0..MaxRetries /\ worker[v].seen \in Nat
      BY WorkerTypes, Types
    <3>4. Counting(v)'
      BY <2>1, <2>2, <2>5, <3>1, <3>2, <3>3, <1>3 DEF Counting, MayGiveUp, Recorded, At
    <3>5. QED BY <2>3, <3>4
  <2>6. QED BY <2>4, <2>5
<1>10. ASSUME NEW e \in Delivery PROVE Copied(e)' /\ Bounded(e)' /\ ~Lost(e)'
  <2>1. CASE e # d
    <3>1. worker'[e].at = worker[e].at /\ worker'[e].seen = worker[e].seen
      BY <2>1, <1>1, <1>2
    <3>2. QED BY <2>1, <3>1, <1>3 DEF IInv, Copied, Bounded, Lost, Recorded, MayGiveUp, Lag,
                 AllSent, At
  <2>2. CASE e = d
    <3>1. Copied(d) /\ Bounded(d) /\ failures[d] \in 0..MaxRetries /\ retries[d] \in Nat
          /\ worker[d].seen \in Nat
      BY WorkerTypes, Types DEF IInv
    <3>2. \A p \in Passes : listed[p][d].retries \in Nat
      BY ListTypes
    <3>3. Copied(d)'
      <4>1. failures[d] = MaxRetries => k = MaxRetries
        BY <3>1
      <4>2. Recorded(retries[d], d)'
        BY <1>3 DEF CountsFit, Recorded
      <4>3. ASSUME NEW p \in Passes, listed[p][d].listed PROVE Recorded(listed[p][d].retries, d)'
        BY <4>1, <4>3, <3>1, <3>2, <1>3 DEF Copied, Recorded
      <4>4. (file[d] = "failed" => MayGiveUp(d))' /\ (file[d] = "torn" => raced[d])'
        BY <4>1, <1>3 DEF MayGiveUp
      <4>5. QED BY <4>2, <4>3, <4>4 DEF Copied
    <3>4. ~Lost(d)'
      BY <1>3 DEF Lost, AllSent
    <3>5. CASE crowded[d]
      BY <2>2, <3>3, <3>4, <3>5 DEF Bounded
    <3>6. CASE w = d /\ ~crowded[d]
      <4>1. worker'[d].at = "done"
        BY <3>6, <1>1, <1>2, OverIsTyped
      <4>2. QED BY <2>2, <3>3, <3>4, <3>6, <4>1, <1>3 DEF CountsFit, Bounded, Lag, At
    <3>7. CASE w # d /\ ~crowded[d]
      <4>1. worker'[d] = worker[d] /\ w \in Passes /\ Active(w)
        BY <3>7, <1>1, <1>2
      <4>2. \A p \in Passes : ~listed[p][d].listed
        <5>1. ~listed[w][d].listed
          BY <4>1 DEF IInv, PassServes
        <5>2. ASSUME NEW p \in Passes, p # w PROVE ~listed[p][d].listed
          BY <5>2, <4>1, <3>7 DEF IInv, CrowdIsKnown, Holds
        <5>3. QED BY <5>1, <5>2
      <4>3. QED BY <2>2, <3>1, <3>3, <3>4, <3>7, <4>1, <4>2, <1>3 DEF CountsFit, Bounded, Lag, At
    <3>8. QED BY <3>5, <3>6, <3>7
  <2>3. QED BY <2>1, <2>2
<1>11. ASSUME NEW p \in Passes, Active(p)' PROVE PassBounded(p)'
  <2>1. p # w /\ worker'[p] = worker[p] /\ Active(p) /\ PassBounded(p)
    BY <1>8, <1>11 DEF IInv
  <2>2. PICK e \in Delivery : e = Job(p) /\ Job(p)' = e
    BY <1>8, <1>11
  <2>3. worker[p].seen \in Nat /\ retries[e] \in Nat
    BY WorkerTypes, Types
  <2>4. CASE e # d
    <3>1. worker'[e] = worker[e] /\ retries'[e] = retries[e]
      BY <2>4, <1>1, <1>2, <1>3
    <3>2. QED BY <2>1, <2>2, <3>1 DEF PassBounded, Lag, At
  <2>5. CASE e = d /\ crowded[d]
    BY <2>2, <2>5 DEF PassBounded
  <2>6. CASE e = d /\ ~crowded[d]
    <3>1. w = d /\ w \notin Passes
      BY <2>1, <2>2, <2>6, <1>1 DEF IInv, CrowdIsKnown, Holds
    <3>2. worker'[d].at = "done"
      BY <3>1, <1>2, OverIsTyped
    <3>3. Lag(d)' = 1 /\ Lag(d) \in {0, 1} /\ At(d, "done")'
      <4>1. At(d, "done")'
        BY <3>2, Zenon DEF At
      <4>2. QED BY <4>1, Zenon DEF Lag
    <3>4. worker[p].at \in {"send", "unlink", "read"} => n <= MaxRetries
      BY <2>2, <2>6, <3>1 DEF CountsFit
    <3>5. At(p, "rename") => worker[p].seen < MaxRetries + Lag(d)
      BY <2>1, <2>2, <2>6, Zenon DEF PassBounded
    <3>6. worker'[p].at = worker[p].at /\ worker'[p].seen = worker[p].seen /\ Job(p)' = d
          /\ retries'[d] = n
      BY <2>1, <2>2, <2>6, <1>3
    <3>7. QED BY <2>3, <3>3, <3>4, <3>5, <3>6 DEF PassBounded, At
  <2>7. QED BY <2>4, <2>5, <2>6
<1>12. QED BY <1>4, <1>6, <1>7, <1>9, <1>10, <1>11 DEF IInv

(* An update that fails, and the read before one. *)
LEMMA NoUpdateIsSound ==
  ASSUME IInv, NEW w \in Worker, AckFails(w) \/ ReadEntry(w) \/ UpdateFails(w)
  PROVE  IInv'
<1> USE Names
<1>1. Active(w) /\ UNCHANGED <<queueVars, mode, listed, up, history>>
  BY DEF AckFails, ReadEntry, UpdateFails, At, Active
<1>2. PICK d \in Delivery : d = Job(w)
  BY <1>1, JobIsADelivery
<1>3. /\ sent' \in [Delivery -> SUBSET (1..Payloads)]
      /\ verdicts' \in [Delivery -> SUBSET {"cut", "permanent"}]
      /\ UNCHANGED <<queueVars, mode, listed, up, kept, failures, raced, crowded>>
      /\ \A e \in Delivery : sent[e] \subseteq sent'[e] /\ verdicts[e] \subseteq verdicts'[e]
  BY <1>1 DEF history, IInv, TypeOK
<1>4. CASE Finish(w)
  BY <1>1, <1>2, <1>3, <1>4, FinishIsAMove, MoveIsSound
<1>5. CASE AckFails(w) /\ Go(w, "read")
  <2>1. PICK c \in WorkerRecord :
          worker' = [worker EXCEPT ![w] = c] /\ c.at = "read" /\ c.job = d /\ c.next # 0
    BY <1>2, <1>5, GoIsAMove DEF Stages
  <2>2. GoesOn(w, d, c)
    BY <2>1, <1>5 DEF GoesOn, AckFails, At
  <2>3. QED BY <2>1, <2>2, <1>1, <1>2, <1>3, MoveIsSound
<1>6. CASE ReadEntry(w)
  <2> DEFINE c == [worker[w] EXCEPT !.at = "rename", !.seen = retries[d]]
  <2>1. worker[w] \in WorkerRecord /\ worker[w].next # 0 /\ retries[d] \in Nat
    BY DEF IInv, TypeOK, WorkerRecord, Serves
  <2>2. worker' = [worker EXCEPT ![w] = c] /\ At(w, "read") /\ file[d] = "queue"
    BY <1>2, <1>6 DEF ReadEntry, Readable, FromFile
  <2>3. c \in WorkerRecord /\ c.at = "rename" /\ c.seen = retries[d] /\ c.job = d /\ c.next # 0
    BY <2>1, <1>2 DEF WorkerRecord, Stages, Job
  <2>4. GoesOn(w, d, c)
    BY <2>2, <2>3 DEF GoesOn
  <2>5. QED BY <2>2, <2>4, <1>1, <1>2, <1>3, MoveIsSound
<1>7. QED BY <1>4, <1>5, <1>6 DEF AckFails, UpdateFails
(* A worker that leaves the count as it is. *)
LEMMA CountsStay ==
  ASSUME IInv, NEW w \in Worker, Active(w), NEW d \in Delivery, d = Job(w)
  PROVE  CountsFit(w, d, retries[d], failures[d])
<1> USE Names
<1>1. (w \notin Passes => d = w) /\ (w \in Delivery => d = w /\ w \notin Passes)
  BY JobIsADelivery
<1>2. retries[d] \in Nat /\ failures[d] \in 0..MaxRetries
      /\ \A p \in Passes : listed[p][d].retries \in Nat
  BY Types, ListTypes
<1>3. retries[d] <= failures[d] \/ failures[d] = MaxRetries
  BY DEF IInv, Copied, Recorded
<1>4. ASSUME ~crowded[d]
      PROVE  /\ retries[d] <= MaxRetries + Lag(d) /\ Lag(d) \in {0, 1}
             /\ \A p \in Passes : /\ listed[p][d].listed => retries[d] <= listed[p][d].retries + Lag(d)
                                  /\ Job(p) = d /\ worker[p].at \in {"send", "unlink", "read"}
                                       => retries[d] < MaxRetries + Lag(d)
  BY <1>4 DEF IInv, Bounded, PassBounded, Lag, Active
<1>5. QED BY <1>2, <1>3, <1>4 DEF CountsFit

(* The entry is acknowledged. *)
LEMMA AckDeliverySound == ASSUME IInv, NEW w \in Worker, AckDelivery(w) PROVE IInv'
<1> USE Names
<1>1. Active(w) /\ At(w, "unlink") /\ Finish(w)
  BY DEF AckDelivery, At, Active
<1>2. PICK d \in Delivery : d = Job(w) /\ (w \notin Passes => d = w) /\ (w \in Delivery => d = w)
  BY <1>1, JobIsADelivery
<1>3. /\ file \in [Delivery -> {"none", "queue", "torn", "failed"}] /\ retries \in [Delivery -> Nat]
      /\ failures \in [Delivery -> 0..MaxRetries] /\ tried \in [Delivery -> BOOLEAN]
      /\ \A p \in Passes : listed[p][d].retries \in Nat
      /\ retries[d] \in Nat /\ failures[d] \in 0..MaxRetries /\ failures[d] <= failures[d]
  BY Types, ListTypes, WorkerTypes
<1> DEFINE f == IF InQueue(d) THEN "none" ELSE file[d]
<1>4. /\ file' = [file EXCEPT ![d] = f] /\ f \in {"none", "queue", "torn", "failed"}
      /\ retries' = [retries EXCEPT ![d] = retries[d]] /\ failures' = [failures EXCEPT ![d] = failures[d]]
      /\ UNCHANGED <<mode, listed, up, kept, sent, verdicts, raced, crowded>>
      /\ tried' \in [Delivery -> BOOLEAN]
  BY <1>2, <1>3 DEF AckDelivery, InQueue, history
<1>5. (f = "failed" => MayGiveUp(d)) /\ (f = "torn" => raced[d])
  BY DEF IInv, Copied, InQueue
<1>6. f = "none" /\ kept[d] /\ mode[d] = "strict" => AllSent(d) \/ "cut" \in verdicts[d]
  BY <1>1, <1>2 DEF IInv, Delivering, Lost
<1>7. CountsFit(w, d, retries[d], failures[d])
  BY <1>1, <1>2, CountsStay DEF At
<1> HIDE DEF f
<1>8. QED BY <1>1, <1>2, <1>3, <1>4, <1>5, <1>6, <1>7, UpdateIsSound

(* It is given up. *)
LEMMA MoveToFailedSound == ASSUME IInv, NEW w \in Worker, MoveToFailed(w) PROVE IInv'
<1> USE Names
<1>1. Active(w) /\ At(w, "move") /\ Finish(w)
  BY DEF MoveToFailed, At, Active
<1>2. PICK d \in Delivery : d = Job(w) /\ (w \notin Passes => d = w) /\ (w \in Delivery => d = w)
  BY <1>1, JobIsADelivery
<1>3. /\ retries \in [Delivery -> Nat]
      /\ failures \in [Delivery -> 0..MaxRetries] /\ tried \in [Delivery -> BOOLEAN]
      /\ \A p \in Passes : listed[p][d].retries \in Nat
      /\ retries[d] \in Nat /\ failures[d] \in 0..MaxRetries /\ failures[d] <= failures[d]
  BY Types, ListTypes, WorkerTypes
<1>4. /\ file' = [file EXCEPT ![d] = "failed"]
      /\ retries' = [retries EXCEPT ![d] = retries[d]] /\ failures' = [failures EXCEPT ![d] = failures[d]]
      /\ UNCHANGED <<mode, listed, up, kept, sent, verdicts, raced, crowded>>
      /\ tried' \in [Delivery -> BOOLEAN]
  BY <1>2, <1>3 DEF MoveToFailed, history
<1>5. MayGiveUp(d)
  BY <1>1, <1>2 DEF IInv, Counting
<1>6. CountsFit(w, d, retries[d], failures[d])
  BY <1>1, <1>2, CountsStay DEF At
<1>7. QED BY <1>1, <1>2, <1>3, <1>4, <1>5, <1>6, UpdateIsSound

(* A failed attempt is written, over whatever has become of the file. *)
LEMMA WriteEntrySound == ASSUME IInv, NEW w \in Worker, WriteEntry(w) PROVE IInv'
<1> USE Names
<1>1. Active(w) /\ At(w, "rename") /\ Finish(w)
  BY DEF WriteEntry, At, Active
<1>2. PICK d \in Delivery : d = Job(w) /\ (w \notin Passes => d = w) /\ (w \in Delivery => d = w)
  BY <1>1, JobIsADelivery
<1>3. /\ retries \in [Delivery -> Nat] /\ retries[d] \in Nat /\ failures[d] \in 0..MaxRetries
      /\ failures \in [Delivery -> 0..MaxRetries] /\ tried \in [Delivery -> BOOLEAN]
      /\ worker[w].seen \in Nat /\ \A p \in Passes : listed[p][d].retries \in Nat
  BY Types, ListTypes, WorkerTypes
<1> DEFINE n == worker[w].seen + 1
           k == IF failures[d] < MaxRetries THEN failures[d] + 1 ELSE failures[d]
<1>4. /\ file' = [file EXCEPT ![d] = "queue"]
      /\ retries' = [retries EXCEPT ![d] = n] /\ failures' = [failures EXCEPT ![d] = k]
      /\ tried' \in [Delivery -> BOOLEAN]
      /\ UNCHANGED <<mode, listed, up, kept, sent, verdicts, raced, crowded>>
  BY <1>2, <1>3 DEF WriteEntry, Counted, OneMore
<1>5. n \in Nat /\ k \in 0..MaxRetries /\ failures[d] <= k
  BY <1>3
<1>6. CountsFit(w, d, n, k)
  <2>1. Recorded(worker[w].seen, d)
    BY <1>1, <1>2 DEF IInv, Counting
  <2>2. n <= k \/ k = MaxRetries
    BY <2>1, <1>3 DEF Recorded
  <2>3. Bounded(d) /\ \A p \in Passes : Job(p) = d => PassBounded(p)
    BY JobIsActive DEF IInv
  <2>4. CASE w = d
    BY <2>2, <2>3, <2>4, <1>1, <1>3 DEF CountsFit, Bounded, PassBounded, Lag, At
  <2>5. CASE w # d
    <3>1. w \in Passes /\ PassBounded(w)
      BY <2>3, <2>5, <1>2
    <3>2. QED BY <2>2, <2>5, <3>1, <1>1, <1>2, <1>3 DEF CountsFit, PassBounded, Lag, At
  <2>6. QED BY <2>4, <2>5
<1> HIDE DEF n, k
<1>7. QED BY <1>1, <1>2, <1>4, <1>5, <1>6, UpdateIsSound

(* Two workers write their copies at once. *)
LEMMA TearEntrySound == ASSUME IInv, NEW w \in Worker, TearEntry(w) PROVE IInv'
<1> USE Names
<1>1. Active(w) /\ Finish(w)
  BY DEF TearEntry, At, Active
<1>2. PICK d \in Delivery : d = Job(w)
  BY <1>1, JobIsADelivery
<1>3. /\ retries \in [Delivery -> Nat] /\ retries[d] \in Nat /\ failures[d] \in 0..MaxRetries
      /\ failures \in [Delivery -> 0..MaxRetries] /\ tried \in [Delivery -> BOOLEAN]
      /\ failures[d] <= failures[d]
  BY Types
<1>4. /\ file' = [file EXCEPT ![d] = "torn"]
      /\ retries' = [retries EXCEPT ![d] = retries[d]] /\ failures' = [failures EXCEPT ![d] = failures[d]]
      /\ UNCHANGED <<mode, listed, up, kept, sent, verdicts, raced, crowded>>
      /\ tried' \in [Delivery -> BOOLEAN]
  BY <1>2, <1>3 DEF TearEntry, history
<1>5. raced[d]
  BY <1>1, <1>2 DEF TearEntry, IInv, RaceIsKnown, Active, At
<1>6. CountsFit(w, d, retries[d], failures[d])
  BY <1>1, <1>2, CountsStay
<1>7. QED BY <1>1, <1>2, <1>3, <1>4, <1>5, <1>6, UpdateIsSound
-----------------------------------------------------------------------------
(* A delivery begins, a pass begins, goes on and ends, the process dies.    *)

LEMMA EnqueueSound ==
  ASSUME IInv, NEW d \in Delivery, NEW m \in Modes, Enqueue(d, m)
  PROVE  IInv'
<1> USE Names
<1>1. PICK written \in BOOLEAN :
        /\ kept' = [kept EXCEPT ![d] = written]
        /\ file' = [file EXCEPT ![d] = IF written THEN "queue" ELSE "none"]
  BY DEF Enqueue
<1> DEFINE c == [Resting EXCEPT !.at = "send", !.job = d]
<1>2. c \in WorkerRecord /\ c.at = "send" /\ c.job = d /\ c.next = 1
  BY DEF Resting, WorkerRecord, Stages
<1>3. worker \in [Worker -> WorkerRecord]
  BY Types
<1>4. worker' \in [Worker -> WorkerRecord] /\ worker'[d] = c
      /\ \A v \in Worker : v # d => worker'[v] = worker[v]
  BY <1>2, <1>3 DEF Enqueue
<1> HIDE DEF c
<1>5. /\ mode \in [Delivery -> Modes \cup {"strict"}] /\ mode' = [mode EXCEPT ![d] = m]
      /\ UNCHANGED <<retries, tried, listed, up, sent, verdicts, failures, raced, crowded>>
      /\ At(d, "rest") /\ d \notin Passes
  BY DEF Enqueue, IInv, TypeOK
<1>6. TypeOK'
  BY <1>1, <1>4, <1>5 DEF IInv, TypeOK, WorkerRecord
<1>7. \A e \in Delivery : e # d => /\ file'[e] = file[e] /\ kept'[e] = kept[e] /\ mode'[e] = mode[e]
                                   /\ worker'[e] = worker[e]
  BY <1>1, <1>4, <1>5 DEF IInv, TypeOK
<1>8. \A p \in Passes : ~listed[p][d].listed
  BY <1>5 DEF IInv, Untouched
<1>9. \A v \in Worker : v # d =>
        /\ worker'[v] = worker[v] /\ Job(v)' = Job(v) /\ (Active(v)' <=> Active(v)) /\ Job(v) # d
        /\ Active(v) => Job(v) \in Delivery
  <2> SUFFICES ASSUME NEW v \in Worker, v # d
               PROVE  Job(v) # d
    BY <1>4, JobIsADelivery DEF Job, Active
  <2>1. CASE Active(v)
    BY <2>1, <1>5, JobIsADelivery DEF IInv, PassServes
  <2>2. CASE ~Active(v)
    BY <2>2 DEF IInv, Serves
  <2>3. QED BY <2>1, <2>2
<1>10. \A v \in Worker : Serves(v)'
  BY <1>2, <1>4, <1>5, <1>9 DEF IInv, Serves, Active, Job
<1>11. \A e \in Delivery : Untouched(e)'
  BY <1>2, <1>4, <1>5, <1>7 DEF IInv, Untouched, At
<1>12. ASSUME NEW p \in Passes, Active(p)' PROVE PassServes(p)' /\ PassBounded(p)'
  <2>1. PICK e \in Delivery : e = Job(p) /\ Job(p)' = e /\ e # d
    BY <1>5, <1>9, <1>12
  <2>2. worker'[e] = worker[e] /\ worker'[p] = worker[p] /\ PassServes(p) /\ PassBounded(p) /\ Active(p)
    BY <2>1, <1>5, <1>7, <1>9, <1>12 DEF IInv
  <2>3. PassServes(p)'
    BY <2>1, <2>2, <1>5 DEF PassServes, At
  <2>4. PassBounded(p)'
    BY <2>1, <2>2, <1>5 DEF PassBounded, Lag, At
  <2>5. QED BY <2>3, <2>4
<1>13. RaceIsKnown'
  BY <1>2, <1>4, <1>5, <1>9 DEF IInv, RaceIsKnown, Job
<1>14. CrowdIsKnown'
  <2>1. \A q \in Passes : \A e \in Delivery : Holds(q, e)' => Holds(q, e)
    BY <1>5, <1>9 DEF Holds
  <2>2. QED BY <2>1, <1>5 DEF IInv, CrowdIsKnown
<1>15. ASSUME NEW v \in Worker, Active(v)' PROVE Delivering(v)' /\ Counting(v)'
  <2>1. CASE v = d
    <3>1. worker'[v].at = "send" /\ worker'[v].next - 1 = 0
      BY <2>1, <1>2, <1>4
    <3>2. QED BY <3>1 DEF Delivering, Counting, At
  <2>2. CASE v # d
    <3>1. worker'[v] = worker[v] /\ Active(v)
      BY <2>2, <1>9, <1>15
    <3>2. PICK e \in Delivery : e = Job(v) /\ Job(v)' = e /\ e # d
      BY <2>2, <1>9, <1>15
    <3>3. Delivering(v)'
      BY <3>1, <3>2, <1>5, <1>7 DEF IInv, Delivering, AllSent, At
    <3>4. Counting(v)'
      BY <3>1, <3>2, <1>5, <1>7 DEF IInv, Counting, MayGiveUp, Recorded, At
    <3>5. QED BY <3>3, <3>4
  <2>3. QED BY <2>1, <2>2
<1>16. ASSUME NEW e \in Delivery PROVE Copied(e)' /\ Bounded(e)' /\ ~Lost(e)'
  <2>1. CASE e = d
    <3>1. file'[d] \in {"none", "queue"} /\ (kept'[d] => file'[d] = "queue")
      BY <1>1 DEF IInv, TypeOK
    <3>2. Copied(d)' /\ ~Lost(d)'
      BY <3>1, <1>5 DEF IInv, Copied, Recorded, Lost
    <3>3. Bounded(d)'
      BY <1>2, <1>4, <1>5 DEF IInv, Bounded, Lag, At
    <3>4. QED BY <2>1, <3>2, <3>3
  <2>2. CASE e # d
    BY <2>2, <1>5, <1>7 DEF IInv, Copied, Bounded, Lost, Recorded, MayGiveUp, Lag, AllSent, At
  <2>3. QED BY <2>1, <2>2
<1>17. \A p \in Passes : PassServes(p)'
  BY <1>12 DEF PassServes
<1>18. QED BY <1>6, <1>10, <1>11, <1>12, <1>13, <1>14, <1>15, <1>16, <1>17 DEF IInv

(* A pass's list is read from the directory, or loses an entry that is deferred, or all. *)
LEMMA ListIsSound ==
  ASSUME IInv, NEW p \in Passes, ~Active(p),
         UNCHANGED <<queueVars, mode, worker, kept, sent, verdicts, failures, raced>>,
         up' \in BOOLEAN,
         crowded' \in [Delivery -> BOOLEAN], \A d \in Delivery : crowded[d] => crowded'[d],
         NEW l \in [Delivery -> ListRecord], listed' = [listed EXCEPT ![p] = l],
         \A d \in Delivery : l[d].listed =>
            \/ l[d] = listed[p][d]
            \/ /\ l[d].retries = retries[d] /\ file[d] = "queue"
               /\ AnotherPassHas(p, d) => crowded'[d]
  PROVE  IInv'
<1> USE Names DEF queueVars
<1>1. /\ listed' \in [Passes -> [Delivery -> ListRecord]] /\ listed'[p] = l
      /\ \A q \in Passes : q # p => listed'[q] = listed[q]
  BY Types
<1>2. TypeOK'
  BY <1>1 DEF IInv, TypeOK, ListRecord
<1>3. \A v \in Worker : Serves(v)' /\ (Active(v)' => Delivering(v)' /\ Counting(v)')
  BY DEF IInv, Serves, Active, Job, At, Delivering, Counting, AllSent, MayGiveUp, Recorded
<1>4. \A d \in Delivery : Untouched(d)'
  BY <1>1 DEF IInv, Untouched, At
<1>5. \A q \in Passes : PassServes(q)'
  BY <1>1 DEF IInv, PassServes, Active, At, Job
<1>6. RaceIsKnown'
  BY DEF IInv, RaceIsKnown, Active, Job
<1>7. CrowdIsKnown'
  <2>1. ASSUME NEW q \in Passes, NEW d \in Delivery, q # p, Holds(p, d)', Holds(q, d)'
        PROVE  crowded'[d]
    <3>1. Job(p) # d /\ l[d].listed
      BY <2>1, <1>1, JobIsActive DEF Holds, Job
    <3>2. listed[q][d].listed \/ Job(q) = d
      BY <2>1, <1>1 DEF Holds, Job
    <3>3. CASE l[d] = listed[p][d]
      BY <2>1, <3>1, <3>2, <3>3 DEF IInv, CrowdIsKnown, Holds
    <3>4. CASE AnotherPassHas(p, d) => crowded'[d]
      BY <2>1, <3>2, <3>4 DEF AnotherPassHas
    <3>5. QED BY <3>1, <3>3, <3>4
  <2> SUFFICES ASSUME NEW q \in Passes, NEW r \in Passes, NEW d \in Delivery, q # r,
                      Holds(q, d)', Holds(r, d)'
               PROVE  crowded'[d]
    BY DEF CrowdIsKnown
  <2>2. CASE q = p \/ r = p
    BY <2>1, <2>2
  <2>3. CASE q # p /\ r # p
    <3>1. Holds(q, d) /\ Holds(r, d)
      BY <2>3, <1>1 DEF Holds, Job
    <3>2. QED BY <3>1 DEF IInv, CrowdIsKnown
  <2>4. QED BY <2>2, <2>3
<1>8. ASSUME NEW d \in Delivery PROVE Copied(d)' /\ Bounded(d)' /\ ~Lost(d)'
  <2>1. retries[d] \in Nat /\ Copied(d) /\ Bounded(d) /\ ~Lost(d) /\ Lag(d) \in Nat /\ Lag(d)' = Lag(d)
    BY Types DEF IInv, Lag, At
  <2>2. \A q \in Passes : listed'[q][d].listed =>
           \/ listed[q][d].listed /\ listed'[q][d] = listed[q][d]
           \/ listed'[q][d].retries = retries[d]
    BY <1>1
  <2>3. Copied(d)'
    BY <2>1, <2>2 DEF Copied, Recorded, MayGiveUp
  <2>4. Bounded(d)'
    <3> SUFFICES ASSUME ~crowded'[d]
                 PROVE  /\ retries[d] <= MaxRetries + Lag(d)
                        /\ \A q \in Passes : listed'[q][d].listed
                                           => retries[d] <= listed'[q][d].retries + Lag(d)
                        /\ At(d, "rename") => worker[d].seen <= retries[d]
      BY <2>1 DEF Bounded, At
    <3>1. ~crowded[d]
      OBVIOUS
    <3>2. QED BY <2>1, <2>2, <3>1 DEF Bounded
  <2>5. ~Lost(d)'
    BY <2>1 DEF Lost, AllSent
  <2>6. QED BY <2>3, <2>4, <2>5
<1>9. ASSUME NEW q \in Passes, Active(q)' PROVE PassBounded(q)'
  <2>1. Active(q) /\ Job(q) \in Delivery /\ Job(q)' = Job(q) /\ PassBounded(q)
    BY <1>9, JobIsADelivery DEF IInv, Active, Job
  <2>2. QED BY <2>1 DEF PassBounded, Lag, At
<1>10. QED BY <1>2, <1>3, <1>4, <1>5, <1>6, <1>7, <1>8, <1>9 DEF IInv

LEMMA ListStepSound ==
  ASSUME IInv, NEW p \in Passes,
         StartGateway(p) \/ BudgetSpent(p) \/ \E d \in Delivery : Defer(p, d)
  PROVE  IInv'
<1> USE Names
<1>1. /\ ~Active(p) /\ UNCHANGED <<queueVars, mode, worker, kept, sent, verdicts, failures, raced>>
      /\ up' \in BOOLEAN /\ crowded \in [Delivery -> BOOLEAN]
  BY DEF StartGateway, BudgetSpent, Defer, Idle, At, Active, IInv, TypeOK, history
<1>2. CASE StartGateway(p)
  <2> DEFINE l == [d \in Delivery |->
                     IF file[d] = "queue"
                     THEN [retries |-> retries[d], tried |-> tried[d], listed |-> TRUE]
                     ELSE NotListed]
  <2>1. l \in [Delivery -> ListRecord]
    BY NothingIsTyped, Types DEF ListRecord
  <2>2. \A d \in Delivery : l[d].listed => l[d].retries = retries[d] /\ file[d] = "queue"
    BY NothingIsTyped
  <2>3. /\ listed' = [listed EXCEPT ![p] = l]
        /\ crowded' = [d \in Delivery |-> crowded[d] \/ (file[d] = "queue" /\ AnotherPassHas(p, d))]
    BY <1>2 DEF StartGateway
  <2>4. /\ crowded' \in [Delivery -> BOOLEAN]
        /\ \A d \in Delivery : /\ crowded[d] => crowded'[d]
                               /\ file[d] = "queue" /\ AnotherPassHas(p, d) => crowded'[d]
    BY <2>3, <1>1
  <2> HIDE DEF l
  <2>5. \A d \in Delivery : l[d].listed =>
            \/ l[d] = listed[p][d]
            \/ /\ l[d].retries = retries[d] /\ file[d] = "queue"
               /\ AnotherPassHas(p, d) => crowded'[d]
    BY <2>2, <2>4
  <2>6. listed' = [listed EXCEPT ![p] = l]
    BY <2>3
  <2>7. QED BY <2>1, <2>4, <2>5, <2>6, <1>1, ListIsSound
<1>3. CASE BudgetSpent(p)
  <2>1. listed' = [listed EXCEPT ![p] = NothingListed] /\ crowded' = crowded
    BY <1>3 DEF BudgetSpent, history
  <2>2. QED BY <2>1, <1>1, NothingIsTyped, ListIsSound
<1>4. ASSUME NEW d \in Delivery, Defer(p, d) PROVE IInv'
  <2> DEFINE l == [listed[p] EXCEPT ![d] = NotListed]
  <2>1. listed' = [listed EXCEPT ![p] = l] /\ crowded' = crowded
    BY <1>4 DEF Defer, history
  <2>2. l \in [Delivery -> ListRecord]
        /\ \A e \in Delivery : l[e].listed => l[e] = listed[p][e]
    BY NothingIsTyped, Types
  <2> HIDE DEF l
  <2>3. \A e \in Delivery : l[e].listed =>
            \/ l[e] = listed[p][e]
            \/ /\ l[e].retries = retries[e] /\ file[e] = "queue"
               /\ AnotherPassHas(p, e) => crowded'[e]
    BY <2>2
  <2>4. crowded' \in [Delivery -> BOOLEAN] /\ \A e \in Delivery : crowded[e] => crowded'[e]
    BY <2>1, <1>1
  <2>5. QED BY <2>1, <2>2, <2>3, <2>4, <1>1, ListIsSound
<1>5. QED BY <1>2, <1>3, <1>4

(* A pass takes an entry off its list, to replay it or to give it up. *)
LEMMA TakeSound ==
  ASSUME IInv, NEW p \in Passes, NEW d \in Delivery, Replay(p, d) \/ DropEntry(p, d)
  PROVE  IInv'
<1> USE Names
<1>1. PICK stage \in {"send", "move"} :
        /\ Take(p, d, stage)
        /\ stage = "send" => listed[p][d].retries < MaxRetries
        /\ stage = "move" => listed[p][d].retries >= MaxRetries
  BY ListTypes DEF Replay, DropEntry, TooManyRetries, GiveUpAtMax
<1>2. listed[p][d].listed /\ At(p, "rest") /\ ~Active(p)
      /\ listed' = [listed EXCEPT ![p][d] = NotListed]
      /\ UNCHANGED <<queueVars, mode, up, kept, sent, verdicts, failures, crowded>>
  BY <1>1 DEF Take, Oldest, At, Active
<1> DEFINE c == [Resting EXCEPT !.at = stage, !.job = d]
<1>3. c \in WorkerRecord /\ c.at = stage /\ c.job = d /\ c.next = 1
  BY DEF Resting, WorkerRecord, Stages
<1>4. worker \in [Worker -> WorkerRecord] /\ p \notin Delivery
  BY Types
<1>5. worker' \in [Worker -> WorkerRecord] /\ worker'[p] = c
      /\ \A v \in Worker : v # p => worker'[v] = worker[v]
  BY <1>1, <1>3, <1>4 DEF Take
<1> HIDE DEF c
<1>6. /\ raced' \in [Delivery -> BOOLEAN] /\ \A e \in Delivery : raced[e] => raced'[e]
      /\ \A w \in Worker \ {p} : Job(w) = d => raced'[d]
  BY <1>1 DEF Take, IInv, TypeOK
<1>7. /\ listed' \in [Passes -> [Delivery -> ListRecord]]
      /\ \A q \in Passes : \A e \in Delivery :
           listed'[q][e] = listed[q][e] \/ (q = p /\ e = d /\ ~listed'[q][e].listed)
      /\ ~listed'[p][d].listed
  BY <1>2, NothingIsTyped, Types
<1>8. TypeOK'
  BY <1>2, <1>5, <1>6, <1>7 DEF IInv, TypeOK, WorkerRecord, ListRecord, queueVars
<1>9. \A v \in Worker : v # p =>
        /\ worker'[v] = worker[v] /\ Job(v)' = Job(v) /\ (Active(v)' <=> Active(v))
        /\ Active(v) => Job(v) \in Delivery
  BY <1>5, JobIsADelivery DEF Job, Active
<1>10. Job(p)' = d /\ Active(p)'
  BY <1>3, <1>5 DEF Job, Active
<1>11. \A v \in Worker : Serves(v)'
  BY <1>3, <1>5, <1>9, <1>10 DEF IInv, Serves
<1>12. \A e \in Delivery : worker'[e] = worker[e] /\ Lag(e) \in Nat /\ Lag(e)' = Lag(e)
  BY <1>4, <1>5 DEF Lag, At
<1>13. \A e \in Delivery : Untouched(e)'
  BY <1>2, <1>7, <1>12 DEF IInv, Untouched, At, queueVars
<1>14. ~At(d, "rest")
  BY <1>2 DEF IInv, Untouched
<1>15. \A q \in Passes : PassServes(q)'
  <2> SUFFICES ASSUME NEW q \in Passes, Active(q)' PROVE PassServes(q)'
    BY DEF PassServes
  <2>1. CASE q = p
    BY <2>1, <1>7, <1>10, <1>12, <1>14 DEF PassServes, At
  <2>2. CASE q # p
    <3>1. Active(q) /\ Job(q)' = Job(q) /\ Job(q) \in Delivery /\ PassServes(q)
      BY <2>2, <1>9 DEF IInv
    <3>2. listed'[q][Job(q)] = listed[q][Job(q)]
      BY <2>2, <3>1, <1>7
    <3>3. QED BY <3>1, <3>2, <1>12 DEF PassServes, At
  <2>3. QED BY <2>1, <2>2
<1>16. RaceIsKnown'
  <2> SUFFICES ASSUME NEW v \in Worker, NEW u \in Worker, v # u, Active(v)', Active(u)',
                      Job(v)' = Job(u)'
               PROVE  raced'[Job(u)']
    BY DEF RaceIsKnown
  <2>1. CASE v = p \/ u = p
    BY <2>1, <1>6, <1>9, <1>10
  <2>2. CASE v # p /\ u # p
    <3>1. Active(v) /\ Active(u) /\ Job(v) = Job(u) /\ Job(u)' = Job(u) /\ Job(u) \in Delivery
      BY <2>2, <1>9
    <3>2. raced[Job(u)]
      BY <3>1 DEF IInv, RaceIsKnown
    <3>3. QED BY <3>1, <3>2, <1>6
  <2>3. QED BY <2>1, <2>2
<1>17. CrowdIsKnown'
  <2>1. \A q \in Passes : \A e \in Delivery : Holds(q, e)' => Holds(q, e)
    BY <1>2, <1>7, <1>9, <1>10 DEF Holds
  <2>2. QED BY <2>1, <1>2 DEF IInv, CrowdIsKnown
<1>18. ASSUME NEW q \in Passes, Active(q)' PROVE PassBounded(q)'
  <2>1. CASE q = p
    <3>1. stage = "send" /\ ~crowded[d] => retries[d] < MaxRetries + Lag(d)
      <4>1. retries[d] \in Nat /\ listed[p][d].retries \in Nat
        BY Types, ListTypes
      <4>2. QED BY <4>1, <1>1, <1>2, <1>12 DEF IInv, Bounded
    <3>2. retries' = retries /\ crowded' = crowded /\ worker'[p].at = stage
      BY <1>2, <1>3, <1>5 DEF queueVars
    <3>3. QED BY <2>1, <3>1, <3>2, <1>10, <1>12 DEF PassBounded, At
  <2>2. CASE q # p
    <3>1. Active(q) /\ Job(q)' = Job(q) /\ Job(q) \in Delivery /\ PassBounded(q)
          /\ worker'[q] = worker[q]
      BY <2>2, <1>9, <1>18 DEF IInv
    <3>2. QED BY <3>1, <1>2, <1>12 DEF PassBounded, At, queueVars
  <2>3. QED BY <2>1, <2>2
<1>19. ASSUME NEW v \in Worker, Active(v)' PROVE Delivering(v)' /\ Counting(v)'
  <2>1. CASE v = p
    <3>1. worker'[v].at = stage /\ worker'[v].next - 1 = 0
      BY <2>1, <1>3, <1>5
    <3>2. stage = "move" => MayGiveUp(d)'
      <4>1. Recorded(listed[p][d].retries, d) /\ failures[d] \in 0..MaxRetries
            /\ listed[p][d].retries \in Nat
        BY <1>2, Types, ListTypes DEF IInv, Copied
      <4>2. stage = "move" => failures[d] = MaxRetries
        BY <4>1, <1>1 DEF Recorded
      <4>3. QED BY <4>2, <1>2 DEF MayGiveUp
    <3>3. QED BY <2>1, <3>1, <3>2, <1>10 DEF Delivering, Counting, At
  <2>2. CASE v # p
    <3>1. worker'[v] = worker[v] /\ Active(v) /\ Job(v) \in Delivery /\ Job(v)' = Job(v)
      BY <2>2, <1>9, <1>19
    <3>2. QED BY <3>1, <1>2, <1>6 DEF IInv, Delivering, Counting, AllSent, MayGiveUp, Recorded,
                 At, queueVars
  <2>3. QED BY <2>1, <2>2
<1>20. ASSUME NEW e \in Delivery PROVE Copied(e)' /\ Bounded(e)' /\ ~Lost(e)'
  <2>1. \A q \in Passes : listed'[q][e].listed => listed'[q][e] = listed[q][e] /\ listed[q][e].listed
    BY <1>7
  <2>2. Copied(e)'
    BY <2>1, <1>2, <1>6 DEF IInv, Copied, Recorded, MayGiveUp, queueVars
  <2>3. Bounded(e)'
    BY <2>1, <1>2, <1>12 DEF IInv, Bounded, At, queueVars
  <2>4. ~Lost(e)'
    BY <1>2 DEF IInv, Lost, AllSent, queueVars
  <2>5. QED BY <2>2, <2>3, <2>4
<1>21. QED BY <1>8, <1>11, <1>13, <1>15, <1>16, <1>17, <1>18, <1>19, <1>20 DEF IInv

(* The process dies. *)
LEMMA CrashSound == ASSUME IInv, Crash PROVE IInv'
<1> USE Names DEF queueVars, history
<1>1. /\ worker' \in [Worker -> WorkerRecord]
      /\ \A w \in Worker : worker'[w].next = 1 /\ ~Active(w)' /\ Job(w)' = 0
      /\ \A d \in Delivery : /\ At(d, "rest")' => At(d, "rest")
                             /\ At(d, "done") => At(d, "done")'
  BY OverIsTyped DEF Crash, Active, At, Job
<1>2. /\ listed' \in [Passes -> [Delivery -> ListRecord]]
      /\ \A p \in Passes : \A d \in Delivery : ~listed'[p][d].listed
      /\ up' \in BOOLEAN /\ UNCHANGED <<queueVars, mode, history>>
  BY NothingIsTyped DEF Crash
<1>3. TypeOK'
  BY <1>1, <1>2 DEF IInv, TypeOK, WorkerRecord, ListRecord
<1>4. \A w \in Worker : Serves(w)'
  BY <1>1 DEF Serves
<1>5. \A d \in Delivery : Untouched(d)'
  BY <1>1, <1>2 DEF IInv, Untouched
<1>6. /\ \A p \in Passes : PassServes(p)'
      /\ RaceIsKnown' /\ CrowdIsKnown'
  BY <1>1, <1>2 DEF PassServes, RaceIsKnown, CrowdIsKnown, Holds
<1>7. ASSUME NEW d \in Delivery PROVE Copied(d)' /\ Bounded(d)' /\ ~Lost(d)'
  <2>1. Copied(d)'
    BY <1>2 DEF IInv, Copied, Recorded, MayGiveUp
  <2>2. ~Lost(d)'
    BY <1>2 DEF IInv, Lost, AllSent
  <2>3. retries[d] \in Nat /\ Lag(d) \in Nat /\ Lag(d)' \in Nat /\ Lag(d) <= Lag(d)'
    BY <1>1, Types DEF Lag
  <2>4. ~At(d, "rename")'
    BY <1>1 DEF Active, At
  <2>5. Bounded(d)'
    <3>1. retries' = retries /\ crowded' = crowded /\ Bounded(d)
      BY <1>2 DEF IInv
    <3>2. ~crowded[d] => retries[d] <= MaxRetries + Lag(d)'
      BY <2>3, <3>1 DEF Bounded
    <3>3. QED BY <2>4, <3>1, <3>2, <1>2 DEF Bounded
  <2>6. QED BY <2>1, <2>2, <2>5
<1>8. QED BY <1>1, <1>3, <1>4, <1>5, <1>6, <1>7 DEF IInv

LEMMA StutterSound == ASSUME IInv, UNCHANGED vars PROVE IInv'
BY DEF IInv, vars, queueVars, history, TypeOK, Serves, Active, Job, At, Untouched, PassServes,
   RaceIsKnown, CrowdIsKnown, Holds, Delivering, Counting, AllSent, MayGiveUp, Recorded, Copied,
   Bounded, Lag, PassBounded, Lost

-----------------------------------------------------------------------------
(* The results.                                                            *)

LEMMA StepSound == IInv /\ [Next]_vars => IInv'
<1> SUFFICES ASSUME IInv, [Next]_vars PROVE IInv'
  OBVIOUS
<1>1. CASE \E d \in Delivery : \E m \in Modes : Enqueue(d, m)
  BY <1>1, EnqueueSound
<1>2. CASE \E d \in Delivery : CutOff(d)
  BY <1>2, SendEndsSound DEF Worker
<1>3. CASE \E w \in Worker : SendStep(w)
  BY <1>3, NextPayloadIsSound, SendEndsSound DEF SendStep
<1>4. CASE \E w \in Worker : FileStep(w)
  BY <1>4, AckDeliverySound, NoUpdateIsSound, WriteEntrySound, MoveToFailedSound, TearEntrySound
     DEF FileStep, FileWorks
<1>5. CASE \E p \in Passes : StartGateway(p) \/ PassStep(p)
  BY <1>5, ListStepSound, TakeSound DEF PassStep
<1>6. CASE Crash
  BY <1>6, CrashSound
<1>7. CASE UNCHANGED vars
  BY <1>7, StutterSound
<1>8. QED BY <1>1, <1>2, <1>3, <1>4, <1>5, <1>6, <1>7 DEF Next

(* The invariant of the queue, its workers and what the channel took. *)
THEOREM QueueIsSound == Spec => []IInv
BY InitSound, StepSound, PTL DEF Spec

(* The types, for every number of deliveries, payloads, retries and passes. *)
THEOREM TypeCorrect == Spec => []TypeOK
<1>1. IInv => TypeOK
  BY DEF IInv
<1>2. QED BY <1>1, QueueIsSound, PTL

(* The entry of a strict delivery leaves the queue only when every payload was sent, when its
   live send was cut off by its caller or by a timeout of the channel, or when it is in
   failed/; it becomes unreadable only after a race (deliverOutboundPayloads, ackDelivery). *)
THEOREM NothingStrictIsLost == Spec => []StrictIsNeverLost
<1>1. IInv => StrictIsNeverLost
  BY DEF IInv, Lost, Copied, StrictIsNeverLost
<1>2. QED BY <1>1, QueueIsSound, PTL

(* An entry is given up only for a permanent error or after MaxRetries recorded failures,
   however many passes overlap (recoverPendingDeliveries, failDelivery). *)
THEOREM GivenUpForCause == Spec => []FailedForCause
<1>1. IInv => FailedForCause
  BY DEF IInv, Copied, MayGiveUp, FailedForCause
<1>2. QED BY <1>1, QueueIsSound, PTL

(* Retries are bounded by MAX_RETRIES and the one live attempt, though each check reads a
   count that may be one behind, until passes of two starts have the entry at once
   (recoverPendingDeliveries). *)
THEOREM RetriesAreBounded == Spec => []RetriesBounded
<1>1. IInv => RetriesBounded
  <2> SUFFICES ASSUME IInv, NEW d \in Delivery, ~crowded[d] PROVE retries[d] <= MaxRetries + 1
    BY DEF RetriesBounded
  <2>1. retries[d] \in Nat /\ retries[d] <= MaxRetries + Lag(d) /\ Lag(d) \in {0, 1}
    BY DEF IInv, Bounded, TypeOK, Lag
  <2>2. QED BY <2>1, Names
<1>2. QED BY <1>1, QueueIsSound, PTL

(* An entry that has left the queue comes back only after a race of two workers, whether a
   live delivery is one of them or both are passes (failDelivery). *)
THEOREM OnlyRacesRevive == Spec => OnlyARaceRevives
<1> DEFINE Revival == \A d \in Delivery :
             kept[d] /\ file[d] # "queue" /\ file'[d] = "queue" => raced[d]
<1>1. IInv /\ [Next]_vars => [Revival]_vars
  <2> SUFFICES ASSUME IInv, Next, NEW d \in Delivery, kept[d], file[d] # "queue",
                      file'[d] = "queue"
               PROVE  raced[d]
    OBVIOUS
  <2>1. ~At(d, "rest")
    BY DEF IInv, Untouched
  <2>2. PICK w \in Worker : WriteEntry(w)
    <3>1. file \in [Delivery -> {"none", "queue", "torn", "failed"}]
      BY DEF IInv, TypeOK
    <3>2. ASSUME NEW e \in Delivery, NEW m \in Modes, Enqueue(e, m) PROVE FALSE
      <4>1. e # d
        BY <2>1, <3>2 DEF Enqueue
      <4>2. file'[d] = file[d]
        BY <3>1, <3>2, <4>1 DEF Enqueue
      <4>3. QED BY <4>2
    <3>3. ASSUME NEW e \in Delivery, CutOff(e) PROVE FALSE
      BY <3>3 DEF CutOff, queueVars
    <3>4. ASSUME NEW w \in Worker, SendStep(w) PROVE FALSE
      <4>1. UNCHANGED queueVars
        BY <3>4, SMT DEF SendStep, SendPayload, SendFailsSoftly, SendReturns, SendThrows
      <4>2. QED BY <4>1 DEF queueVars
    <3>5. ASSUME NEW w \in Worker, FileStep(w) PROVE WriteEntry(w)
      BY <3>1, <3>5 DEF FileStep, FileWorks, AckDelivery, ReadEntry, MoveToFailed, AckFails,
         UpdateFails, TearEntry, queueVars
    <3>6. ASSUME NEW p \in Passes, StartGateway(p) \/ PassStep(p) PROVE FALSE
      BY <3>6 DEF StartGateway, PassStep, BudgetSpent, Replay, DropEntry, Take, Defer, queueVars
    <3>7. ~Crash
      BY DEF Crash, queueVars
    <3>8. QED BY <3>2, <3>3, <3>4, <3>5, <3>6, <3>7 DEF Next
  <2>3. Active(w) /\ At(w, "rename") /\ file' = [file EXCEPT ![Job(w)] = "queue"]
    BY <2>2 DEF WriteEntry, At, Active
  <2>4. Job(w) = d
    BY <2>3, JobIsADelivery DEF IInv, TypeOK
  <2>5. QED BY <2>3, <2>4 DEF IInv, Counting
<1>2. QED BY <1>1, QueueIsSound, PTL DEF Spec, OnlyARaceRevives
=============================================================================
