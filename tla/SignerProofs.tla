------------------------------ MODULE SignerProofs ------------------------------
(***************************************************************************)
(* What the signer daemon sends, for any number of requests, connections,  *)
(* days, policies and attempts: a request sends one transaction, what was  *)
(* sent stays charged, and the recorded outcome is the chain's.            *)
(*                                                                         *)
(* Then what it may spend: the counter of a day is what the requests of    *)
(* that day hold, and what was sent is within the caps of the day.  The    *)
(* two rest on one fact of arithmetic, TotalAdds: what disjoint sets of    *)
(* requests hold adds up.                                                  *)
(***************************************************************************)
EXTENDS SignerOperations, FiniteSetTheorems, TLAPS

States == {"none", "reserved", "archived"} \cup InDoubt \cup Ended
Leases == {"none", "live", "expired"}
Fates == {"unsent", "pending", "landed", "reverted"}
Operation ==
  [state : States, active : BOOLEAN, day : Day, policy : Nat, attempt : 0..MaxAttempts,
   lease : Leases, tx : 0..MaxAttempts, ended : Day]
Connection ==
  [at : Stages, request : Request \cup {0}, policy : Nat, attempt : 0..MaxAttempts]

Typed ==
  /\ op \in [Request -> Operation]
  /\ version \in Nat
  /\ today \in Day
  /\ worker \in [Worker -> Connection]
  /\ chain \in [Request -> [Attempt -> Fates]]
  /\ outlived \in [Request -> BOOLEAN]

\* An operation by itself: it signs nothing before it has a transaction, and is charged
\* from its reservation on.
Consistent(o) ==
  /\ o.state = "none" => o.attempt = 0 /\ o.lease = "none"
  /\ o.state = "reserved" => o.active /\ (o.lease = "none" => o.attempt = 0)
  /\ o.lease = "expired" => o.attempt < MaxAttempts
  /\ o.state \in {"none", "reserved"} => o.tx = 0
  /\ o.state \in InDoubt \cup {"confirmed"} => o.tx # 0
  /\ o.tx # 0 => o.active

\* An operation and the chain: only the recorded transaction was ever sent, and the
\* outcome is the chain's or that of a worker that outlived its lease.
Truthful(r) ==
  /\ \A a \in Attempt : Fate(r, a) # "unsent" => op[r].tx = a
  /\ op[r].state = "confirmed" => Fate(r, op[r].tx) = "landed"
  /\ op[r].state = "failed" /\ op[r].tx # 0 => Fate(r, op[r].tx) = "reverted" \/ outlived[r]

\* An operation and a connection that builds its transaction: the one with the current
\* attempt has not recorded it, the others have outlived their lease.
Building(w) ==
  LET o == op[RequestOf(w)]
  IN /\ worker[w].attempt \in 1..o.attempt
     /\ worker[w].attempt = o.attempt => o.tx = 0
     /\ worker[w].attempt < o.attempt \/ o.lease = "expired" => outlived[RequestOf(w)]

\* ... or one that asks the chain, which has the recorded transaction in hand.
Asking(w) == op[RequestOf(w)].tx # 0 /\ worker[w].attempt = op[RequestOf(w)].tx

Serves(w) ==
  /\ ~At(w, "rest") => RequestOf(w) \in Request
  /\ At(w, "build") => Building(w)
  /\ worker[w].at \in {"send", "lookup", "confirm", "unclear"} => Asking(w)

\* The attempt fences: no two connections build the same one.
Fenced ==
  \A v, w \in Worker :
    /\ At(v, "build") /\ At(w, "build")
    /\ RequestOf(v) = RequestOf(w) /\ worker[v].attempt = worker[w].attempt
    => v = w

IInv ==
  /\ Typed
  /\ \A r \in Request : Consistent(op[r]) /\ Truthful(r)
  /\ \A w \in Worker : Serves(w)
  /\ Fenced

-----------------------------------------------------------------------------
(* The initial states, and the changes of one operation. *)

(* No request is in the ledger and no connection is served. *)
LEMMA InitSound == Init => IInv
<1> SUFFICES ASSUME Init PROVE IInv
  OBVIOUS
<1>1. NoOperation \in Operation /\ Resting \in Connection
  BY SignerAssumption DEF NoOperation, Operation, States, Leases, Day, Resting, Connection, Stages
<1>2. Typed
  BY <1>1, SignerAssumption DEF Init, Typed, Day, Fates
<1>3. \A r \in Request : Consistent(op[r]) /\ Truthful(r)
  BY DEF Init, Consistent, Truthful, NoOperation, InDoubt, Fate
<1>4. (\A w \in Worker : Serves(w)) /\ Fenced
  BY DEF Init, Serves, Fenced, At, Resting
<1>5. QED BY <1>2, <1>3, <1>4 DEF IInv

(* A reservation that is given back fails without a transaction. *)
LEMMA GivenBackSound ==
    ASSUME NEW o \in Operation, o.state = "reserved", Consistent(o), today \in Day
    PROVE  /\ GivenBack(o) \in Operation
           /\ Consistent(GivenBack(o))
           /\ GivenBack(o).tx = 0
           /\ GivenBack(o).attempt = o.attempt
           /\ GivenBack(o).state = "failed"
           /\ GivenBack(o).lease = "none"
BY DEF GivenBack, NotHeld, KeptOnFailure, End, Operation, Consistent, States, Leases, InDoubt, Ended

(* A failure not proven to come before the broadcast keeps the charge. *)
LEMMA KeptOnFailureSound ==
    ASSUME NEW o \in Operation, Consistent(o), o.state \notin {"none", "reserved"}, today \in Day
    PROVE  /\ KeptOnFailure(o) \in Operation
           /\ Consistent(KeptOnFailure(o))
           /\ KeptOnFailure(o).tx = o.tx
           /\ KeptOnFailure(o).attempt = o.attempt
           /\ KeptOnFailure(o).state = "failed"
           /\ KeptOnFailure(o).lease = "none"
BY DEF KeptOnFailure, End, Operation, Consistent, States, Leases, InDoubt, Ended

-----------------------------------------------------------------------------
(* Steps that neither sign nor send.                                       *)

AskStages == {"send", "lookup", "confirm", "unclear"}

\* The operation keeps its attempt and transaction and ends, if it does, truly.
OperationKept(r) ==
  /\ Consistent(op'[r])
  /\ op'[r].tx = op[r].tx /\ op'[r].attempt = op[r].attempt
  /\ op'[r].lease = "expired" => op[r].lease = "expired"
  /\ op'[r].state = "confirmed" => Fate(r, op[r].tx) = "landed"
  /\ op'[r].state = "failed" /\ op[r].tx # 0 => Fate(r, op[r].tx) = "reverted" \/ outlived[r]

\* The connection rests, asks the store, asks the chain, or goes on.
ConnectionKept(w) ==
  /\ worker'[w] \in Connection
  /\ \/ worker'[w].at = "rest"
     \/ worker'[w].at \in {"reserve", "claim"} /\ worker'[w].request \in Request
     \/ worker'[w] = worker[w]
     \/ /\ worker'[w].at \in AskStages /\ worker'[w].request \in Request
        /\ op[worker'[w].request].tx # 0
        /\ worker'[w].attempt = op[worker'[w].request].tx

(* Such a step keeps the invariant. *)
LEMMA QuietStepSound ==
    ASSUME IInv,
           op' \in [Request -> Operation], version' \in Nat, today' \in Day,
           worker' \in [Worker -> Connection],
           UNCHANGED <<chain, outlived>>,
           \A r \in Request : OperationKept(r),
           \A w \in Worker : ConnectionKept(w)
    PROVE  IInv'
<1>1. Typed'
  BY DEF IInv, Typed
<1>2. ASSUME NEW r \in Request
      PROVE  Consistent(op[r])' /\ Truthful(r)'
  BY <1>2 DEF IInv, OperationKept, Consistent, Truthful, Fate
<1>3. ASSUME NEW w \in Worker
      PROVE  Serves(w)'
  <2>1. CASE worker'[w].at = "rest"
    BY <2>1 DEF Serves, At
  <2>2. CASE worker'[w].at \in {"reserve", "claim"} /\ worker'[w].request \in Request
    BY <2>2 DEF Serves, At, RequestOf
  <2>3. CASE worker'[w] = worker[w] /\ ~At(w, "rest")
    <3>1. Serves(w) /\ RequestOf(w) \in Request
      BY <2>3 DEF IInv, Serves
    <3>2. OperationKept(RequestOf(w))
      BY <3>1
    <3>3. At(w, "build") => Building(w)'
      BY <2>3, <3>1, <3>2 DEF Serves, Building, OperationKept, RequestOf
    <3>4. worker[w].at \in AskStages => Asking(w)'
      BY <2>3, <3>1, <3>2 DEF Serves, Asking, OperationKept, RequestOf, AskStages
    <3>5. QED BY <2>3, <3>1, <3>3, <3>4 DEF Serves, At, RequestOf, AskStages
  <2>4. CASE /\ worker'[w].at \in AskStages /\ worker'[w].request \in Request
             /\ op[worker'[w].request].tx # 0
             /\ worker'[w].attempt = op[worker'[w].request].tx
    <3>1. op'[worker'[w].request].tx = op[worker'[w].request].tx
      BY <2>4 DEF OperationKept
    <3>2. QED BY <2>4, <3>1 DEF Serves, Asking, At, RequestOf, AskStages
  <2>5. QED BY <2>1, <2>2, <2>3, <2>4 DEF ConnectionKept, At
<1>4. Fenced'
  <2>1. \A w \in Worker : worker'[w].at = "build" => worker'[w] = worker[w]
    BY DEF ConnectionKept, AskStages
  <2>2. QED BY <2>1 DEF IInv, Fenced, At, RequestOf
<1>5. QED BY <1>1, <1>2, <1>3, <1>4 DEF IInv

(* An operation that is not touched is kept. *)
LEMMA Untouched ==
    ASSUME IInv, NEW r \in Request, op'[r] = op[r]
    PROVE  OperationKept(r)
BY DEF IInv, OperationKept, Truthful

(* So is a reservation that is given back. *)
LEMMA GivenBackKept ==
    ASSUME IInv, NEW r \in Request, op[r].state = "reserved", op'[r] = GivenBack(op[r])
    PROVE  OperationKept(r) /\ op'[r] \in Operation
<1>1. op[r] \in Operation /\ Consistent(op[r]) /\ today \in Day /\ op[r].tx = 0
  BY DEF IInv, Typed, Consistent
<1>2. QED BY <1>1, GivenBackSound DEF OperationKept

(* A step of one connection, which rests, asks the store or asks the chain. *)
LEMMA OneConnectionKept ==
    ASSUME IInv, NEW w \in Worker, NEW c \in Connection,
           worker' = [worker EXCEPT ![w] = c],
           \/ c.at = "rest"
           \/ c.at \in {"reserve", "claim"} /\ c.request \in Request
           \/ /\ c.at \in AskStages /\ c.request \in Request
              /\ op[c.request].tx # 0 /\ c.attempt = op[c.request].tx
    PROVE  worker' \in [Worker -> Connection] /\ \A v \in Worker : ConnectionKept(v)
<1>1. worker \in [Worker -> Connection]
  BY DEF IInv, Typed
<1>2. worker' \in [Worker -> Connection] /\ worker'[w] = c
  BY <1>1
<1>3. \A v \in Worker : v # w => worker'[v] = worker[v]
  BY <1>1
<1>4. ConnectionKept(w)
  BY <1>2 DEF ConnectionKept
<1>5. \A v \in Worker : ConnectionKept(v)
  BY <1>2, <1>3, <1>4 DEF ConnectionKept
<1>6. QED BY <1>2, <1>5

(* A step that leaves the ledger alone. *)
LEMMA LedgerKept ==
    ASSUME IInv, UNCHANGED op
    PROVE  op' \in [Request -> Operation] /\ \A r \in Request : OperationKept(r)
BY Untouched DEF IInv, Typed

(* A step that changes one operation of it. *)
LEMMA OneOperationKept ==
    ASSUME IInv, NEW r \in Request, NEW o \in Operation,
           op' = [op EXCEPT ![r] = o],
           op'[r] = o => OperationKept(r)
    PROVE  op' \in [Request -> Operation] /\ \A q \in Request : OperationKept(q)
<1>1. op \in [Request -> Operation]
  BY DEF IInv, Typed
<1>2. op' \in [Request -> Operation] /\ op'[r] = o
  BY <1>1
<1>3. \A q \in Request : q # r => op'[q] = op[q]
  BY <1>1
<1>4. \A q \in Request : OperationKept(q)
  BY <1>2, <1>3, Untouched
<1>5. QED BY <1>2, <1>4

(* A connection that comes to rest. *)
LEMMA RestKept ==
    ASSUME IInv, NEW w \in Worker, Rest(w)
    PROVE  worker' \in [Worker -> Connection] /\ \A v \in Worker : ConnectionKept(v)
<1>1. Resting \in Connection /\ Resting.at = "rest"
  BY SignerAssumption DEF Resting, Connection, Stages
<1>2. QED BY <1>1, OneConnectionKept DEF Rest

(* A reservation that is given back. *)
LEMMA GiveBackKept ==
    ASSUME IInv, NEW r \in Request, op[r].state = "reserved",
           op' = [op EXCEPT ![r] = GivenBack(op[r])]
    PROVE  op' \in [Request -> Operation] /\ \A q \in Request : OperationKept(q)
<1>1. op[r] \in Operation /\ Consistent(op[r]) /\ today \in Day
  BY DEF IInv, Typed
<1>2. GivenBack(op[r]) \in Operation
  BY <1>1, GivenBackSound
<1>3. op'[r] = GivenBack(op[r]) => OperationKept(r)
  BY GivenBackKept
<1>4. QED BY <1>2, <1>3, OneOperationKept

(* Maintenance gives back reservations of earlier days and archives what has ended. *)
LEMMA MaintenanceKept ==
    ASSUME IInv, Maintenance
    PROVE  op' \in [Request -> Operation] /\ \A r \in Request : OperationKept(r)
<1>1. ASSUME NEW r \in Request
      PROVE  op'[r] \in Operation /\ OperationKept(r)
  <2>1. op[r] \in Operation /\ Consistent(op[r])
    BY <1>1 DEF IInv, Typed
  <2>2. CASE UsesPriorDay(r)
    <3>1. op'[r] = GivenBack(op[r]) /\ op[r].state = "reserved"
      BY <1>1, <2>2 DEF Maintenance, Expired, ExpiredIsReleased, UsesPriorDay
    <3>2. QED BY <1>1, <3>1, GivenBackKept
  <2>3. CASE ~UsesPriorDay(r) /\ IsOld(r)
    <3>1. op'[r] = [op[r] EXCEPT !.state = "archived"] /\ op[r].state \in Ended
      BY <1>1, <2>3 DEF Maintenance, Archived, IsOld
    <3>2. op'[r] \in Operation
      BY <2>1, <3>1 DEF Operation, States
    <3>3. OperationKept(r)
      BY <2>1, <3>1 DEF OperationKept, Consistent, Operation, InDoubt, Ended
    <3>4. QED BY <3>2, <3>3
  <2>4. CASE ~UsesPriorDay(r) /\ ~IsOld(r)
    <3>1. op'[r] = op[r]
      BY <1>1, <2>4 DEF Maintenance
    <3>2. QED BY <1>1, <2>1, <3>1, Untouched
  <2>5. QED BY <2>2, <2>3, <2>4
<1>2. QED BY <1>1 DEF Maintenance

-----------------------------------------------------------------------------
(* The quiet actions.                                                      *)

(* Who is not at rest serves a request. *)
LEMMA ServedRequest ==
    ASSUME IInv, NEW w \in Worker, ~At(w, "rest")
    PROVE  /\ RequestOf(w) \in Request
           /\ op[RequestOf(w)] \in Operation
           /\ Consistent(op[RequestOf(w)]) /\ Truthful(RequestOf(w))
           /\ worker[w] \in Connection
BY DEF IInv, Typed, Serves

(* StartExecute. *)
LEMMA StartExecuteSound ==
    ASSUME IInv, NEW w \in Worker, NEW r \in Request, StartExecute(w, r)
    PROVE  IInv'
<1> DEFINE c == [Resting EXCEPT !.at = "reserve", !.request = r, !.policy = version]
<1>1. c \in Connection /\ c.at = "reserve" /\ c.request = r
  <2>1. Resting \in Connection
    BY SignerAssumption DEF Resting, Connection, Stages
  <2>2. version \in Nat
    BY DEF IInv, Typed
  <2>3. QED BY <2>1, <2>2 DEF Connection, Stages
<1>2. worker' \in [Worker -> Connection] /\ \A v \in Worker : ConnectionKept(v)
  <2>1. worker' = [worker EXCEPT ![w] = c]
    BY DEF StartExecute
  <2>2. QED BY <1>1, <2>1, OneConnectionKept
<1>3. op' \in [Request -> Operation] /\ \A q \in Request : OperationKept(q)
  BY MaintenanceKept, LedgerKept DEF StartExecute, MaintainIfDue, store
<1>4. version' \in Nat /\ today' \in Day /\ UNCHANGED <<chain, outlived>>
  BY DEF StartExecute, world, IInv, Typed
<1>5. QED BY <1>2, <1>3, <1>4, QuietStepSound

(* A connection that goes on to claim its request. *)
LEMMA ToClaimKept ==
    ASSUME IInv, NEW w \in Worker, ~At(w, "rest"), ToClaim(w)
    PROVE  worker' \in [Worker -> Connection] /\ \A v \in Worker : ConnectionKept(v)
<1> DEFINE c == [worker[w] EXCEPT !.at = "claim", !.policy = 0]
<1>1. worker[w] \in Connection /\ RequestOf(w) \in Request /\ worker \in [Worker -> Connection]
  BY ServedRequest DEF IInv, Typed
<1>2. c \in Connection /\ c.at = "claim" /\ c.request \in Request
  BY <1>1 DEF Connection, Stages, RequestOf
<1>3. worker' = [worker EXCEPT ![w] = c]
  BY <1>1 DEF ToClaim, Connection
<1>4. QED BY <1>2, <1>3, OneConnectionKept

(* A new reservation: the request has never been in the ledger. *)
LEMMA NewReservationKept ==
    ASSUME IInv, NEW r \in Request, op[r].state = "none",
           op' = [op EXCEPT ![r].state = "reserved", ![r].active = TRUE,
                            ![r].day = today, ![r].policy = version]
    PROVE  op' \in [Request -> Operation] /\ \A q \in Request : OperationKept(q)
<1> DEFINE o == [op[r] EXCEPT !.state = "reserved", !.active = TRUE, !.day = today,
                              !.policy = version]
<1>1. /\ op \in [Request -> Operation] /\ op[r] \in Operation /\ Consistent(op[r])
      /\ today \in Day /\ version \in Nat
  BY DEF IInv, Typed
<1>2. o \in Operation
  BY <1>1 DEF Operation, States
<1>3. op' = [op EXCEPT ![r] = o]
  BY <1>1 DEF Operation
<1>4. op'[r] = o => OperationKept(r)
  BY <1>1 DEF Operation, OperationKept, Consistent, InDoubt
<1>5. QED BY <1>2, <1>3, <1>4, OneOperationKept

(* Reserve, of a request in the ledger or a new one. *)
LEMMA ReserveSound ==
    ASSUME IInv, NEW w \in Worker, Reserve(w)
    PROVE  IInv'
<1> DEFINE r == RequestOf(w)
<1>1. r \in Request /\ ~At(w, "rest")
  BY ServedRequest DEF Reserve, At
<1>2. op' \in [Request -> Operation] /\ \A q \in Request : OperationKept(q)
  <2>1. CASE UNCHANGED store
    BY <2>1, LedgerKept DEF store
  <2>2. CASE op[r].state = "reserved" /\ op' = [op EXCEPT ![r] = GivenBack(@)]
    BY <1>1, <2>2, GiveBackKept
  <2>3. CASE /\ op[r].state = "none"
             /\ op' = [op EXCEPT ![r].state = "reserved", ![r].active = TRUE,
                                 ![r].day = today, ![r].policy = version]
    BY <1>1, <2>3, NewReservationKept
  <2>4. QED BY <2>1, <2>2, <2>3
     DEF Reserve, ReserveExisting, ReserveNew, MayBeNew, NotArchived
<1>3. worker' \in [Worker -> Connection] /\ \A v \in Worker : ConnectionKept(v)
  BY <1>1, RestKept, ToClaimKept DEF Reserve, ReserveExisting, ReserveNew
<1>4. QED BY <1>2, <1>3, QuietStepSound DEF Reserve, world, IInv, Typed

(* A failure that is recorded: before the broadcast, by whom the attempt admits; after
   it, by a stale worker or with the chain's word. *)
LEMMA MarkFailedSound ==
    ASSUME IInv, NEW w \in Worker, ~At(w, "rest"), NEW attempt \in 0..MaxAttempts,
           MarkFailed(w, attempt),
           LET r == RequestOf(w) IN
             op[r].state \in InDoubt => Fate(r, op[r].tx) = "reverted" \/ outlived[r]
    PROVE  IInv'
<1> DEFINE r == RequestOf(w)
<1>1. /\ r \in Request /\ op[r] \in Operation /\ Consistent(op[r]) /\ today \in Day
  BY ServedRequest DEF IInv, Typed
<1>2. op' \in [Request -> Operation] /\ \A q \in Request : OperationKept(q)
  <2>1. CASE ~MayFail(r, attempt)
    BY <2>1, LedgerKept DEF MarkFailed, store
  <2>2. CASE op[r].state = "reserved" /\ MayFail(r, attempt)
    <3>1. op' = [op EXCEPT ![r] = GivenBack(op[r])]
      BY <1>1, <2>2 DEF MarkFailed, AfterFailure, ReleasesOnFailure, ReleaseWhenReserved, Consistent
    <3>2. QED BY <1>1, <2>2, <3>1, GiveBackKept
  <2>3. CASE op[r].state \in InDoubt /\ MayFail(r, attempt)
    <3>1. op' = [op EXCEPT ![r] = KeptOnFailure(op[r])]
      BY <2>3 DEF MarkFailed, AfterFailure, ReleasesOnFailure, ReleaseWhenReserved, InDoubt
    <3>2. /\ KeptOnFailure(op[r]) \in Operation
          /\ Consistent(KeptOnFailure(op[r]))
          /\ KeptOnFailure(op[r]).tx = op[r].tx /\ KeptOnFailure(op[r]).attempt = op[r].attempt
          /\ KeptOnFailure(op[r]).state = "failed" /\ KeptOnFailure(op[r]).lease = "none"
      BY <1>1, <2>3, KeptOnFailureSound DEF InDoubt
    <3>3. op'[r] = KeptOnFailure(op[r]) => OperationKept(r)
      BY <2>3, <3>2 DEF OperationKept
    <3>4. QED BY <1>1, <3>1, <3>2, <3>3, OneOperationKept
  <2>4. QED BY <2>1, <2>2, <2>3 DEF MayFail
<1>3. worker' \in [Worker -> Connection] /\ \A v \in Worker : ConnectionKept(v)
  BY RestKept DEF MarkFailed
<1>4. QED BY <1>2, <1>3, QuietStepSound DEF MarkFailed, world, IInv, Typed

(* MarkFailedClaim: who builds an operation that was recorded has outlived its lease. *)
LEMMA MarkFailedClaimSound ==
    ASSUME IInv, NEW w \in Worker, MarkFailedClaim(w)
    PROVE  IInv'
<1> DEFINE r == RequestOf(w)
<1>1. At(w, "build") /\ ~At(w, "rest") /\ MarkFailed(w, worker[w].attempt)
  BY DEF MarkFailedClaim, At
<1>2. Building(w) /\ Consistent(op[r]) /\ worker[w].attempt \in 0..MaxAttempts
  BY <1>1, ServedRequest DEF IInv, Serves, Connection
<1>3. op[r].state \in InDoubt => outlived[r]
  BY <1>1, <1>2, ServedRequest DEF Building, Consistent, Operation
<1>4. QED BY <1>1, <1>2, <1>3, MarkFailedSound

(* MarkReverted, with the chain's word. *)
LEMMA MarkRevertedSound ==
    ASSUME IInv, NEW w \in Worker, MarkReverted(w)
    PROVE  IInv'
<1>1. Asking(w) /\ ~At(w, "rest")
  BY DEF IInv, Serves, MarkReverted, Learns, At
<1>2. Fate(RequestOf(w), op[RequestOf(w)].tx) = "reverted"
  BY <1>1 DEF MarkReverted, Learns, Asking
<1>3. 0 \in 0..MaxAttempts
  BY SignerAssumption
<1>4. QED BY <1>1, <1>2, <1>3, MarkFailedSound DEF MarkReverted

(* MarkConfirmed, with the chain's word. *)
LEMMA MarkConfirmedSound ==
    ASSUME IInv, NEW w \in Worker, MarkConfirmed(w)
    PROVE  IInv'
<1> DEFINE r == RequestOf(w)
           o == End(op[r], "confirmed")
<1>1. ~At(w, "rest") /\ Asking(w)
  BY DEF IInv, Serves, MarkConfirmed, Learns, At
<1>2. r \in Request /\ op[r] \in Operation /\ Consistent(op[r]) /\ today \in Day
  BY <1>1, ServedRequest DEF IInv, Typed
<1>3. Fate(r, op[r].tx) = "landed"
  BY <1>1 DEF MarkConfirmed, Learns, Asking
<1>4. op' \in [Request -> Operation] /\ \A q \in Request : OperationKept(q)
  <2>1. CASE op[r].state \in InDoubt
    <3>1. op' = [op EXCEPT ![r] = o]
      BY <2>1 DEF MarkConfirmed
    <3>2. o \in Operation
      BY <1>2 DEF End, Operation, States, Ended
    <3>3. op'[r] = o => OperationKept(r)
      BY <1>2, <1>3, <2>1 DEF End, OperationKept, Consistent, Operation, InDoubt
    <3>4. QED BY <1>2, <3>1, <3>2, <3>3, OneOperationKept
  <2>2. CASE op[r].state \notin InDoubt
    BY <2>2, LedgerKept DEF MarkConfirmed
  <2>3. QED BY <2>1, <2>2
<1>5. worker' \in [Worker -> Connection] /\ \A v \in Worker : ConnectionKept(v)
  BY RestKept DEF MarkConfirmed
<1>6. QED BY <1>4, <1>5, QuietStepSound DEF MarkConfirmed, world, IInv, Typed

(* MarkUnknown leaves an operation in doubt. *)
LEMMA MarkUnknownSound ==
    ASSUME IInv, NEW w \in Worker, MarkUnknown(w)
    PROVE  IInv'
<1> DEFINE r == RequestOf(w)
           o == [op[r] EXCEPT !.state = "unknown"]
<1>1. ~At(w, "rest")
  BY DEF MarkUnknown, At
<1>2. r \in Request /\ op[r] \in Operation /\ Consistent(op[r])
  BY <1>1, ServedRequest
<1>3. op' \in [Request -> Operation] /\ \A q \in Request : OperationKept(q)
  <2>1. CASE op[r].state \in InDoubt
    <3>1. op' = [op EXCEPT ![r] = o]
      BY <1>2, <2>1 DEF MarkUnknown, IInv, Typed, Operation
    <3>2. o \in Operation
      BY <1>2 DEF Operation, States, InDoubt
    <3>3. op'[r] = o => OperationKept(r)
      BY <1>2, <2>1 DEF OperationKept, Consistent, Operation, InDoubt
    <3>4. QED BY <1>2, <3>1, <3>2, <3>3, OneOperationKept
  <2>2. CASE op[r].state \notin InDoubt
    BY <2>2, LedgerKept DEF MarkUnknown
  <2>3. QED BY <2>1, <2>2
<1>4. worker' \in [Worker -> Connection] /\ \A v \in Worker : ConnectionKept(v)
  BY RestKept DEF MarkUnknown
<1>5. QED BY <1>3, <1>4, QuietStepSound DEF MarkUnknown, world, IInv, Typed

(* StartReconcile takes the recorded transaction in hand. *)
LEMMA StartReconcileSound ==
    ASSUME IInv, NEW w \in Worker, NEW r \in Request, StartReconcile(w, r)
    PROVE  IInv'
<1> DEFINE c == [Resting EXCEPT !.at = "lookup", !.request = r, !.attempt = op[r].tx]
<1>1. op[r] \in Operation /\ op[r].tx # 0 /\ op[r].tx \in 0..MaxAttempts
  BY DEF IInv, Typed, Consistent, StartReconcile, Operation
<1>2. c \in Connection /\ c.at = "lookup" /\ c.request = r /\ c.attempt = op[r].tx
  <2>1. Resting \in Connection
    BY SignerAssumption DEF Resting, Connection, Stages
  <2>2. QED BY <1>1, <2>1 DEF Connection, Stages
<1>3. worker' \in [Worker -> Connection] /\ \A v \in Worker : ConnectionKept(v)
  <2>1. worker' = [worker EXCEPT ![w] = c]
    BY DEF StartReconcile
  <2>2. c.at \in AskStages /\ c.request \in Request
        /\ op[c.request].tx # 0 /\ c.attempt = op[c.request].tx
    BY <1>1, <1>2 DEF AskStages
  <2>3. QED BY <1>2, <2>1, <2>2, OneConnectionKept
<1>4. op' \in [Request -> Operation] /\ \A q \in Request : OperationKept(q)
  BY LedgerKept DEF StartReconcile, store
<1>5. version' \in Nat /\ today' \in Day /\ UNCHANGED <<chain, outlived>>
  BY DEF StartReconcile, world, IInv, Typed
<1>6. QED BY <1>3, <1>4, <1>5, QuietStepSound

(* Steps that touch no operation and leave every connection as it is or at rest. *)
LEMMA OutsideSound ==
    ASSUME IInv, \/ \E w \in Worker : LookupFails(w)
                 \/ \E c \in Caps : PutPolicy(c)
                 \/ DayPasses
                 \/ Restart
                 \/ UNCHANGED vars
    PROVE  IInv'
<1>1. op' \in [Request -> Operation] /\ \A q \in Request : OperationKept(q)
  BY LedgerKept, MaintenanceKept DEF LookupFails, PutPolicy, DayPasses, Restart, store, vars
<1>2. worker' \in [Worker -> Connection] /\ \A v \in Worker : ConnectionKept(v)
  <2>1. CASE \E w \in Worker : LookupFails(w)
    BY <2>1, RestKept DEF LookupFails
  <2>2. CASE UNCHANGED worker
    BY <2>2 DEF IInv, Typed, ConnectionKept
  <2>3. CASE Restart
    <3>1. Resting \in Connection /\ Resting.at = "rest"
      BY SignerAssumption DEF Resting, Connection, Stages
    <3>2. QED BY <2>3, <3>1 DEF Restart, ConnectionKept
  <2>4. QED BY <2>1, <2>2, <2>3 DEF PutPolicy, DayPasses, vars
<1>3. version' \in Nat /\ today' \in Day /\ UNCHANGED <<chain, outlived>>
  BY SignerAssumption
     DEF LookupFails, PutPolicy, DayPasses, Restart, vars, world, IInv, Typed, Day
<1>4. QED BY <1>1, <1>2, <1>3, QuietStepSound

-----------------------------------------------------------------------------
(* The actions that sign and send.                                         *)

(* Claim admits a next attempt when no lease is live. *)
LEMMA ClaimSound ==
    ASSUME IInv, NEW w \in Worker, Claim(w)
    PROVE  IInv'
<1> DEFINE r == RequestOf(w)
           next == op[r].attempt + 1
<1>1. ~At(w, "rest") /\ At(w, "claim")
  BY DEF Claim, At
<1>2. /\ r \in Request /\ op[r] \in Operation /\ Consistent(op[r]) /\ Truthful(r)
      /\ worker[w] \in Connection
  BY <1>1, ServedRequest
<1>3. version' \in Nat /\ today' \in Day /\ UNCHANGED <<chain, outlived>>
  BY DEF Claim, world, IInv, Typed
<1>4. CASE UsesPriorDay(r)
  <2>1. op' = [op EXCEPT ![r] = GivenBack(op[r])] /\ op[r].state = "reserved" /\ Rest(w)
    BY <1>4 DEF Claim, Expired, ExpiredIsReleased, UsesPriorDay
  <2>2. QED BY <1>2, <1>3, <2>1, GiveBackKept, RestKept, QuietStepSound
<1>5. CASE UNCHANGED store /\ Rest(w)
  BY <1>3, <1>5, LedgerKept, RestKept, QuietStepSound DEF store
<1>6. CASE /\ op[r].state = "reserved" /\ op[r].lease # "live"
           /\ op' = [op EXCEPT ![r].attempt = @ + 1, ![r].lease = "live"]
           /\ worker' = [worker EXCEPT ![w].at = "build", ![w].attempt = next]
  <2>1. op \in [Request -> Operation] /\ worker \in [Worker -> Connection]
    BY DEF IInv, Typed
  <2>2. next \in 1..MaxAttempts /\ op[r].tx = 0 /\ op[r].active
    BY <1>2, <1>6, SignerAssumption DEF Operation, Consistent, Leases
  <2>3. /\ op' \in [Request -> Operation]
        /\ \A q \in Request : q # r => op'[q] = op[q]
        /\ op'[r] = [op[r] EXCEPT !.attempt = next, !.lease = "live"]
        /\ op'[r].attempt = next /\ op'[r].lease = "live" /\ op'[r].tx = 0
    BY <1>2, <1>6, <2>1, <2>2 DEF Operation, Leases
  <2>4. /\ worker' \in [Worker -> Connection]
        /\ \A v \in Worker : v # w => worker'[v] = worker[v]
        /\ worker'[w].at = "build" /\ worker'[w].request = r /\ worker'[w].attempt = next
    <3> DEFINE c == [worker[w] EXCEPT !.at = "build", !.attempt = next]
    <3>1. /\ c \in Connection
          /\ c.at = "build" /\ c.request = r /\ c.attempt = next
      <4>1. next \in 0..MaxAttempts
        BY <2>2
      <4> HIDE DEF next
      <4>2. QED BY <1>2, <4>1 DEF Connection, Stages, RequestOf
    <3>2. worker' = [worker EXCEPT ![w] = c]
      BY <1>2, <1>6, <2>1 DEF Connection
    <3>3. QED BY <2>1, <3>1, <3>2
  <2>5. Typed'
    BY <1>3, <2>3, <2>4 DEF IInv, Typed
  <2>6. ASSUME NEW q \in Request PROVE Consistent(op[q])' /\ Truthful(q)'
    <3>1. CASE q = r
      BY <1>2, <1>3, <1>6, <2>2, <2>3, <3>1
         DEF Consistent, Truthful, Fate, Operation, InDoubt
    <3>2. CASE q # r
      BY <1>3, <2>3, <2>6, <3>2 DEF IInv, Consistent, Truthful, Fate
    <3>3. QED BY <3>1, <3>2
  <2>7. ASSUME NEW v \in Worker, At(v, "build"), RequestOf(v) = r
        PROVE  worker[v].attempt \in 1..op[r].attempt /\ outlived[r]
    <3>1. Building(v)
      BY <2>7 DEF IInv, Serves
    <3>2. QED BY <1>2, <1>6, <2>7, <3>1 DEF Building, Consistent, Operation, Leases
  <2>8. ASSUME NEW v \in Worker PROVE Serves(v)'
    <3>1. CASE v = w
      <4>1. Building(w)'
        <5>1. worker'[w].attempt \in 1..op'[r].attempt
          BY <1>2, <2>2, <2>3, <2>4
        <5>2. /\ worker'[w].attempt = op'[r].attempt /\ op'[r].tx = 0
              /\ ~(worker'[w].attempt < op'[r].attempt) /\ op'[r].lease # "expired"
          BY <2>2, <2>3, <2>4
        <5>3. QED BY <2>4, <5>1, <5>2 DEF Building, RequestOf
      <4>2. QED BY <1>2, <2>4, <3>1, <4>1 DEF Serves, At, RequestOf
    <3>2. CASE v # w
      <4>1. Serves(v) /\ worker'[v] = worker[v]
        BY <2>4, <2>8, <3>2 DEF IInv
      <4>2. CASE RequestOf(v) = r
        <5>1. At(v, "build") => Building(v)'
          <6>1. SUFFICES ASSUME At(v, "build") PROVE Building(v)'
            OBVIOUS
          <6>2. worker[v].attempt \in 1..op[r].attempt /\ outlived[r]
            BY <2>7, <2>8, <4>2, <6>1
          <6>3. op[r].attempt \in Nat
            BY <1>2 DEF Operation
          <6>4. worker[v].attempt \in 1..next /\ worker[v].attempt # next
            BY <6>2, <6>3
          <6>5. QED BY <1>3, <2>3, <4>1, <4>2, <6>2, <6>4 DEF Building, RequestOf
        <5>2. worker[v].at \in {"send", "lookup", "confirm", "unclear"} => FALSE
          BY <2>2, <4>1, <4>2 DEF Serves, Asking
        <5>3. QED BY <4>1, <5>1, <5>2 DEF Serves, At, RequestOf
      <4>3. CASE RequestOf(v) # r
        BY <1>3, <2>3, <4>1, <4>3 DEF Serves, Building, Asking, At, RequestOf
      <4>4. QED BY <4>2, <4>3
    <3>3. QED BY <3>1, <3>2
  <2>9. Fenced'
    <3>1. ASSUME NEW v \in Worker, v # w, worker'[v].at = "build",
                 worker'[v].request = r, worker'[v].attempt = next
          PROVE  FALSE
      <4>1. worker[v].attempt \in 1..op[r].attempt /\ worker[v].attempt = next
        BY <2>4, <2>7, <3>1 DEF At, RequestOf
      <4>2. QED BY <1>2, <4>1 DEF Operation
    <3>2. QED BY <2>4, <3>1 DEF IInv, Fenced, At, RequestOf
  <2>10. QED BY <2>5, <2>6, <2>8, <2>9 DEF IInv
<1>7. QED BY <1>4, <1>5, <1>6 DEF Claim, MayClaim, NoLiveLease

(* RecordBroadcast: the one connection with the current attempt. *)
LEMMA RecordBroadcastSound ==
    ASSUME IInv, NEW w \in Worker, RecordBroadcast(w)
    PROVE  IInv'
<1> DEFINE r == RequestOf(w)
           a == worker[w].attempt
<1>1. ~At(w, "rest") /\ At(w, "build") /\ op[r].state = "reserved" /\ op[r].attempt = a
  BY DEF RecordBroadcast, MayRecord, At
<1>2. /\ r \in Request /\ op[r] \in Operation /\ Consistent(op[r]) /\ Truthful(r)
      /\ worker[w] \in Connection /\ Building(w)
  BY <1>1, ServedRequest DEF IInv, Serves
<1>3. op \in [Request -> Operation] /\ worker \in [Worker -> Connection]
  BY DEF IInv, Typed
<1>4. a \in Attempt /\ a # 0 /\ a \in 0..MaxAttempts /\ op[r].tx = 0 /\ op[r].active
  BY <1>1, <1>2 DEF Building, Consistent, Operation, Connection, Attempt
<1>5. /\ op' \in [Request -> Operation]
      /\ \A q \in Request : q # r => op'[q] = op[q]
      /\ op'[r].state = "broadcast" /\ op'[r].lease = "none" /\ op'[r].tx = a
      /\ op'[r].active = op[r].active /\ op'[r].attempt = op[r].attempt
  <2> DEFINE o == [op[r] EXCEPT !.state = "broadcast", !.lease = "none", !.tx = a]
  <2>1. op' = [op EXCEPT ![r] = o]
    BY <1>2, <1>3 DEF RecordBroadcast, Operation
  <2>2. /\ o \in Operation
        /\ o.state = "broadcast" /\ o.lease = "none" /\ o.tx = a
        /\ o.active = op[r].active /\ o.attempt = op[r].attempt
    BY <1>2, <1>4 DEF Operation, States, InDoubt, Leases
  <2>3. QED BY <1>2, <1>3, <2>1, <2>2
<1>6. /\ worker' \in [Worker -> Connection]
      /\ \A v \in Worker : v # w => worker'[v] = worker[v]
      /\ worker'[w].at = "send" /\ worker'[w].request = r /\ worker'[w].attempt = a
  <2> DEFINE c == [worker[w] EXCEPT !.at = "send"]
  <2>1. worker' = [worker EXCEPT ![w] = c]
    BY <1>2, <1>3 DEF RecordBroadcast, Go, Connection
  <2>2. c \in Connection /\ c.at = "send" /\ c.request = r /\ c.attempt = a
    BY <1>2 DEF Connection, Stages, RequestOf
  <2>3. QED BY <1>3, <2>1, <2>2
<1>7. UNCHANGED <<version, today, chain, outlived>>
  BY DEF RecordBroadcast, world
<1>8. Typed'
  BY <1>5, <1>6, <1>7 DEF IInv, Typed
<1>9. ASSUME NEW q \in Request PROVE Consistent(op[q])' /\ Truthful(q)'
  <2>1. CASE q = r
    <3>1. \A b \in Attempt : Fate(r, b) = "unsent"
      BY <1>2, <1>4 DEF Truthful, Attempt
    <3>2. QED BY <1>4, <1>5, <1>7, <2>1, <3>1 DEF Consistent, Truthful, Fate
  <2>2. CASE q # r
    BY <1>5, <1>7, <1>9, <2>2 DEF IInv, Consistent, Truthful, Fate
  <2>3. QED BY <2>1, <2>2
<1>10. ASSUME NEW v \in Worker PROVE Serves(v)'
  <2>1. CASE v = w
    BY <1>2, <1>4, <1>5, <1>6, <2>1 DEF Serves, Asking, At, RequestOf
  <2>2. CASE v # w
    <3>1. Serves(v) /\ worker'[v] = worker[v]
      BY <1>6, <1>10, <2>2 DEF IInv
    <3>2. CASE RequestOf(v) = r
      <4>1. ~(At(v, "build") /\ worker[v].attempt = a)
        BY <1>1, <1>10, <2>2, <3>2 DEF IInv, Fenced
      <4>2. At(v, "build") => Building(v)'
        BY <1>1, <1>5, <1>7, <3>1, <3>2, <4>1 DEF Serves, Building, RequestOf
      <4>3. worker[v].at \in {"send", "lookup", "confirm", "unclear"} => FALSE
        BY <1>4, <3>1, <3>2 DEF Serves, Asking
      <4>4. QED BY <3>1, <4>2, <4>3 DEF Serves, At, RequestOf
    <3>3. CASE RequestOf(v) # r
      BY <1>5, <1>7, <3>1, <3>3 DEF Serves, Building, Asking, At, RequestOf
    <3>4. QED BY <3>2, <3>3
  <2>3. QED BY <2>1, <2>2
<1>11. Fenced'
  BY <1>6 DEF IInv, Fenced, At, RequestOf
<1>12. QED BY <1>8, <1>9, <1>10, <1>11 DEF IInv

(* Broadcast sends the recorded transaction, and no other. *)
LEMMA BroadcastSound ==
    ASSUME IInv, NEW w \in Worker, NEW answer \in Answers, Broadcast(w, answer)
    PROVE  IInv'
<1> DEFINE r == RequestOf(w)
           a == worker[w].attempt
           next == IF answer = "accepted" THEN "confirm" ELSE "unclear"
<1>1. ~At(w, "rest") /\ Asking(w)
  BY DEF Broadcast, At, IInv, Serves
<1>2. r \in Request /\ op[r] \in Operation /\ Truthful(r) /\ worker[w] \in Connection
  BY <1>1, ServedRequest
<1>3. worker \in [Worker -> Connection] /\ chain \in [Request -> [Attempt -> Fates]]
  BY DEF IInv, Typed
<1>4. a \in Attempt /\ op[r].tx = a
  BY <1>1, <1>2 DEF Asking, Operation, Attempt
<1>5. /\ chain' \in [Request -> [Attempt -> Fates]]
      /\ \A q \in Request, b \in Attempt :
           ~(q = r /\ b = a /\ chain[q][b] = "unsent") => chain'[q][b] = chain[q][b]
  BY <1>2, <1>3, <1>4 DEF Broadcast, Fate, Fates
<1>6. /\ worker' \in [Worker -> Connection]
      /\ \A v \in Worker : v # w => worker'[v] = worker[v]
      /\ worker'[w].at \in {"confirm", "unclear"}
      /\ worker'[w].request = r /\ worker'[w].attempt = a
  <2> DEFINE c == [worker[w] EXCEPT !.at = next]
  <2>1. worker' = [worker EXCEPT ![w] = c]
    BY <1>2, <1>3 DEF Broadcast, Go, Connection
  <2>2. /\ c \in Connection /\ c.at \in {"confirm", "unclear"}
        /\ c.request = r /\ c.attempt = a
    BY <1>2 DEF Connection, Stages, RequestOf
  <2>3. QED BY <1>3, <2>1, <2>2
<1>7. UNCHANGED <<op, version, today, outlived>>
  BY DEF Broadcast, store, world
<1>8. Typed'
  BY <1>5, <1>6, <1>7 DEF IInv, Typed
<1>9. ASSUME NEW q \in Request PROVE Consistent(op[q])' /\ Truthful(q)'
  <2>1. Consistent(op[q]) /\ Truthful(q) /\ op[q] \in Operation
    BY <1>9 DEF IInv, Typed
  <2>2. \A b \in Attempt : chain'[q][b] # "unsent" => op[q].tx = b
    BY <1>4, <1>5, <1>9, <2>1 DEF Truthful, Fate
  <2>3. op[q].tx # 0 => op[q].tx \in Attempt
    BY <2>1 DEF Operation, Attempt
  <2>4. op[q].tx # 0 /\ chain[q][op[q].tx] # "unsent" => chain'[q][op[q].tx] = chain[q][op[q].tx]
    BY <1>5, <1>9, <2>3
  <2>5. QED BY <1>7, <2>1, <2>2, <2>4 DEF Consistent, Truthful, Fate, InDoubt
<1>10. ASSUME NEW v \in Worker PROVE Serves(v)'
  BY <1>1, <1>2, <1>6, <1>7, <1>10 DEF IInv, Serves, Building, Asking, At, RequestOf
<1>11. Fenced'
  BY <1>6 DEF IInv, Fenced, At, RequestOf
<1>12. QED BY <1>8, <1>9, <1>10, <1>11 DEF IInv

(* TransactionEnds: an outcome is final. *)
LEMMA TransactionEndsSound ==
    ASSUME IInv, NEW r \in Request, NEW a \in Attempt, TransactionEnds(r, a)
    PROVE  IInv'
<1>1. chain \in [Request -> [Attempt -> Fates]]
  BY DEF IInv, Typed
<1>2. /\ chain' \in [Request -> [Attempt -> Fates]]
      /\ \A q \in Request, b \in Attempt :
           chain'[q][b] = chain[q][b] \/ chain[q][b] = "pending"
  BY <1>1 DEF TransactionEnds, Fate, Fates
<1>3. UNCHANGED <<op, version, today, worker, outlived>>
  BY DEF TransactionEnds, store, world
<1>4. Typed'
  BY <1>2, <1>3 DEF IInv, Typed
<1>5. ASSUME NEW q \in Request PROVE Consistent(op[q])' /\ Truthful(q)'
  <2>1. Consistent(op[q]) /\ Truthful(q) /\ op[q] \in Operation
    BY <1>5 DEF IInv, Typed
  <2>2. op[q].tx # 0 => op[q].tx \in Attempt
    BY <2>1 DEF Operation, Attempt
  <2>3. QED BY <1>2, <1>3, <1>5, <2>1, <2>2 DEF Consistent, Truthful, Fate, InDoubt
<1>6. (\A v \in Worker : Serves(v)') /\ Fenced'
  BY <1>3 DEF IInv, Serves, Building, Asking, Fenced, At, RequestOf
<1>7. QED BY <1>4, <1>5, <1>6 DEF IInv

(* LeaseExpires: who builds with the current attempt has outlived its lease. *)
LEMMA LeaseExpiresSound ==
    ASSUME IInv, NEW r \in Request, LeaseExpires(r)
    PROVE  IInv'
<1>1. op \in [Request -> Operation] /\ outlived \in [Request -> BOOLEAN]
  BY DEF IInv, Typed
<1>2. op[r] \in Operation /\ Consistent(op[r]) /\ Truthful(r) /\ op[r].lease = "live"
  BY <1>1 DEF IInv, LeaseExpires
<1>3. /\ op' \in [Request -> Operation]
      /\ \A q \in Request : q # r => op'[q] = op[q]
      /\ op'[r].lease = "expired" /\ op'[r].state = op[r].state /\ op'[r].tx = op[r].tx
      /\ op'[r].active = op[r].active /\ op'[r].attempt = op[r].attempt
  <2> DEFINE o == [op[r] EXCEPT !.lease = "expired"]
  <2>1. op' = [op EXCEPT ![r] = o]
    BY <1>1, <1>2 DEF LeaseExpires, Operation
  <2>2. /\ o \in Operation /\ o.lease = "expired" /\ o.state = op[r].state
        /\ o.tx = op[r].tx /\ o.active = op[r].active /\ o.attempt = op[r].attempt
    BY <1>2 DEF Operation, Leases
  <2>3. QED BY <1>1, <2>1, <2>2
<1>4. /\ outlived' \in [Request -> BOOLEAN]
      /\ \A q \in Request : outlived[q] => outlived'[q]
      /\ (\E w \in Worker : IsWorkingOn(w, r)) => outlived'[r]
  <2> DEFINE late == outlived[r] \/ \E w \in Worker : IsWorkingOn(w, r)
  <2>1. outlived' = [outlived EXCEPT ![r] = late]
    BY DEF LeaseExpires
  <2>2. late \in BOOLEAN /\ outlived[r] \in BOOLEAN
    BY <1>1
  <2> HIDE DEF late
  <2>3. outlived' \in [Request -> BOOLEAN] /\ outlived'[r] = late
        /\ \A q \in Request : q # r => outlived'[q] = outlived[q]
    BY <1>1, <2>1, <2>2
  <2>4. QED BY <2>3 DEF late
<1>5. UNCHANGED <<version, today, worker, chain>> /\ op[r].attempt < MaxAttempts
  BY DEF LeaseExpires, world
<1>6. Typed'
  BY <1>3, <1>4, <1>5 DEF IInv, Typed
<1>7. ASSUME NEW q \in Request PROVE Consistent(op[q])' /\ Truthful(q)'
  <2>1. Consistent(op[q]) /\ Truthful(q)
    BY <1>7 DEF IInv
  <2>2. CASE q = r
    BY <1>2, <1>3, <1>4, <1>5, <2>1, <2>2 DEF Consistent, Truthful, Fate
  <2>3. CASE q # r
    BY <1>3, <1>4, <1>5, <1>7, <2>1, <2>3 DEF Consistent, Truthful, Fate
  <2>4. QED BY <2>2, <2>3
<1>8. ASSUME NEW v \in Worker PROVE Serves(v)'
  <2>1. Serves(v)
    BY <1>8 DEF IInv
  <2>2. CASE RequestOf(v) = r
    <3>1. At(v, "build") => Building(v)'
      <4>1. SUFFICES ASSUME At(v, "build") PROVE Building(v)'
        OBVIOUS
      <4>2. Building(v)
        BY <2>1, <4>1 DEF Serves
      <4>3. outlived'[r]
        <5>1. CASE worker[v].attempt = op[r].attempt
          BY <1>4, <1>8, <2>2, <4>1, <5>1 DEF IsWorkingOn
        <5>2. CASE worker[v].attempt # op[r].attempt
          <6>1. worker[v].attempt < op[r].attempt
            BY <1>2, <2>2, <4>2, <5>2 DEF Building, Operation
          <6>2. QED BY <1>4, <2>2, <4>2, <6>1 DEF Building
        <5>3. QED BY <5>1, <5>2
      <4>4. QED BY <1>3, <1>5, <2>2, <4>2, <4>3 DEF Building, RequestOf
    <3>2. QED BY <1>3, <1>5, <2>1, <2>2, <3>1 DEF Serves, Asking, At, RequestOf
  <2>3. CASE RequestOf(v) # r
    BY <1>3, <1>4, <1>5, <2>1, <2>3 DEF Serves, Building, Asking, At, RequestOf
  <2>4. QED BY <2>2, <2>3
<1>9. Fenced'
  BY <1>5 DEF IInv, Fenced, At, RequestOf
<1>10. QED BY <1>6, <1>7, <1>8, <1>9 DEF IInv

-----------------------------------------------------------------------------
(* The theorems.                                                           *)

(* Every step keeps the invariant. *)
LEMMA StepSound == IInv /\ [Next]_vars => IInv'
<1> SUFFICES ASSUME IInv, [Next]_vars PROVE IInv'
  OBVIOUS
<1>1. ASSUME NEW w \in Worker, NEW r \in Request, StartExecute(w, r) \/ StartReconcile(w, r)
      PROVE  IInv'
  BY <1>1, StartExecuteSound, StartReconcileSound
<1>2. ASSUME NEW w \in Worker, ExecuteStep(w)
      PROVE  IInv'
  BY <1>2, ReserveSound, ClaimSound, RecordBroadcastSound, MarkFailedClaimSound DEF ExecuteStep
<1>3. ASSUME NEW w \in Worker, ChainStep(w)
      PROVE  IInv'
  BY <1>3, BroadcastSound, OutsideSound, MarkConfirmedSound, MarkRevertedSound, MarkUnknownSound
     DEF ChainStep
<1>4. CASE \E r \in Request, a \in Attempt : TransactionEnds(r, a)
  BY <1>4, TransactionEndsSound
<1>5. CASE \E r \in Request : LeaseExpires(r)
  BY <1>5, LeaseExpiresSound
<1>6. CASE (\E c \in Caps : PutPolicy(c)) \/ DayPasses \/ Restart \/ UNCHANGED vars
  BY <1>6, OutsideSound
<1>7. QED BY <1>1, <1>2, <1>3, <1>4, <1>5, <1>6 DEF Next, Proceed

(* The invariant of the signer's ledger, connections and chain. *)
THEOREM SignerIsSound == Spec => []IInv
BY InitSound, StepSound, PTL DEF Spec

(* What may have reached the chain stays charged (markFailedClaim,
   expirePriorDayReservationV2, releaseUsageReservationV2). *)
THEOREM SentStaysReserved == Spec => []SentIsReserved
<1>1. IInv => SentIsReserved
  <2> SUFFICES ASSUME IInv, NEW r \in Request, NEW a \in Attempt, Fate(r, a) # "unsent"
               PROVE  op[r].active
    BY DEF SentIsReserved, WasSent
  <2>1. op[r].tx = a /\ a # 0
    BY DEF IInv, Truthful, Attempt
  <2>2. QED BY <2>1 DEF IInv, Consistent
<1>2. QED BY <1>1, SignerIsSound, PTL

(* A request sends one transaction, over any number of callers, expired leases, restarts,
   replays and its archiving (claimReservedOperation, markBroadcastClaim). *)
THEOREM RequestSendsOnce == Spec => []OneTransaction
<1>1. IInv => OneTransaction
  BY DEF IInv, Truthful, OneTransaction
<1>2. QED BY <1>1, SignerIsSound, PTL

(* The recorded outcome is the chain's, but for a failure recorded by a worker that
   outlived its lease (markConfirmed, markFailedClaim). *)
THEOREM RecordedOutcomeIsTrue == Spec => []OutcomeIsTrue
<1>1. IInv => OutcomeIsTrue
  <2> SUFFICES ASSUME IInv, NEW r \in Request
               PROVE  /\ op[r].state = "confirmed" => Fate(r, op[r].tx) = "landed"
                      /\ op[r].state = "failed" /\ WasSent(r)
                           => Fate(r, op[r].tx) = "reverted" \/ outlived[r]
    BY DEF OutcomeIsTrue
  <2>1. Truthful(r)
    BY DEF IInv
  <2>2. WasSent(r) => op[r].tx # 0
    BY <2>1 DEF WasSent, Truthful, Attempt
  <2>3. QED BY <2>1, <2>2 DEF Truthful
<1>2. QED BY <1>1, SignerIsSound, PTL

-----------------------------------------------------------------------------
(* What the requests of a set hold.                                        *)

(* The units of one request. *)
LEMMA UnitsOfOne ==
    ASSUME NEW r \in Request
    PROVE  IsFiniteSet({r} \X (1..Amount[r]))
           /\ Cardinality({r} \X (1..Amount[r])) = Amount[r]
<1>1. Amount[r] \in Nat \ {0}
  BY SignerAssumption
<1>2. IsFiniteSet(1..Amount[r]) /\ Cardinality(1..Amount[r]) = Amount[r]
  <2>1. \A n \in Int : /\ IsFiniteSet(1..n)
                       /\ Cardinality(1..n) = IF 1 > n THEN 0 ELSE n - 1 + 1
    BY FS_Interval
  <2>2. Amount[r] \in Int /\ ~(1 > Amount[r]) /\ Amount[r] - 1 + 1 = Amount[r]
    BY <1>1
  <2>3. QED BY <2>1, <2>2, Zenon
<1>3. IsFiniteSet({r}) /\ Cardinality({r}) = 1
  BY FS_Singleton
<1>4. /\ IsFiniteSet({r} \X (1..Amount[r]))
      /\ Cardinality({r} \X (1..Amount[r])) = Cardinality({r}) * Cardinality(1..Amount[r])
  BY <1>2, <1>3, FS_Product
<1>5. QED BY <1>1, <1>2, <1>3, <1>4

(* The units of finitely many requests are finitely many. *)
LEMMA UnitsFinite ==
    ASSUME NEW R \in SUBSET Request, IsFiniteSet(R)
    PROVE  IsFiniteSet(Units(R)) /\ Total(R) \in Nat
<1> DEFINE S == {{r} \X (1..Amount[r]) : r \in R}
           f == [r \in R |-> {r} \X (1..Amount[r])]
<1>1. f \in Surjection(R, S)
  BY DEF Surjection
<1>2. IsFiniteSet(S)
  BY <1>1, FS_Surjection
<1>3. \A T \in S : IsFiniteSet(T)
  BY UnitsOfOne
<1>4. IsFiniteSet(Units(R))
  BY <1>2, <1>3, FS_UNION DEF Units
<1>5. QED BY <1>4, FS_CardinalityType DEF Total

(* What disjoint sets of requests hold adds up. *)
LEMMA TotalAdds ==
    ASSUME NEW R \in SUBSET Request, IsFiniteSet(R),
           NEW S \in SUBSET Request, IsFiniteSet(S), R \cap S = {}
    PROVE  Total(R \cup S) = Total(R) + Total(S) /\ Total(R) \in Nat /\ Total(S) \in Nat
<1>1. IsFiniteSet(Units(R)) /\ IsFiniteSet(Units(S)) /\ Total(R) \in Nat /\ Total(S) \in Nat
  BY UnitsFinite
<1>2. Units(R \cup S) = Units(R) \cup Units(S)
  BY Zenon DEF Units
<1>3. Units(R) \cap Units(S) = {}
  <2>1. \A u \in Units(R) : u[1] \in R
    BY DEF Units
  <2>2. \A u \in Units(S) : u[1] \in S
    BY DEF Units
  <2>3. QED BY <2>1, <2>2
<1>4. Cardinality(Units(R) \cup Units(S))
        = Cardinality(Units(R)) + Cardinality(Units(S)) - Cardinality(Units(R) \cap Units(S))
  BY <1>1, FS_Union
<1>5. Cardinality(Units(R) \cap Units(S)) = 0
  BY <1>3, FS_EmptySet
<1>6. Total(R \cup S) = Total(R) + Total(S) - 0
  BY <1>2, <1>4, <1>5, Zenon DEF Total
<1>7. QED BY <1>1, <1>6

(* No request holds nothing, one holds its amount. *)
LEMMA TotalOfFew ==
    Total({}) = 0 /\ \A r \in Request : Total({r}) = Amount[r]
<1>1. Units({}) = {}
  BY DEF Units
<1>2. \A r \in Request : Units({r}) = {r} \X (1..Amount[r])
  BY DEF Units
<1>3. QED BY <1>1, <1>2, FS_EmptySet, UnitsOfOne DEF Total

(* A part holds no more than the whole, and the rest holds what is left. *)
LEMMA TotalOfPart ==
    ASSUME NEW S \in SUBSET Request, IsFiniteSet(S), NEW R \in SUBSET S
    PROVE  /\ IsFiniteSet(R)
           /\ Total(R) \in Nat /\ Total(S) \in Nat /\ Total(R) <= Total(S)
           /\ Total(S \ R) = Total(S) - Total(R)
<1>1. IsFiniteSet(R) /\ IsFiniteSet(S \ R)
  BY FS_Subset, FS_Difference
<1>2. /\ Total(R \cup (S \ R)) = Total(R) + Total(S \ R)
      /\ Total(R) \in Nat /\ Total(S \ R) \in Nat
  <2>1. R \in SUBSET Request /\ (S \ R) \in SUBSET Request /\ R \cap (S \ R) = {}
    OBVIOUS
  <2>2. QED BY <1>1, <2>1, TotalAdds
<1>3. R \cup (S \ R) = S
  OBVIOUS
<1>4. Total(S) = Total(R) + Total(S \ R)
  BY <1>2, <1>3, Zenon
<1>5. QED BY <1>1, <1>2, <1>4

-----------------------------------------------------------------------------
(* The counters, the caps and the operations.                              *)

Holders(d) == {r \in Request : op[r].active /\ op[r].day = d}

\* A day's counter is what its requests hold, or was swept with nothing left reserved.
Charged(d) ==
  \/ usage[d] = Total(Holders(d))
  \/ IsSwept(d) /\ usage[d] = 0 /\ \A r \in Holders(d) : op[r].state # "reserved"

Known == {r \in Request : op[r].state # "none"}

\* Finitely many requests have come, and who has not come holds nothing.
Ledger ==
  /\ IsFiniteSet(Known)
  /\ \A r \in Request : (op[r].active => r \in Known) /\ op[r].policy <= version

Policies ==
  /\ version \in 1..MaxPolicies /\ cap \in Caps
  /\ topCap \in [Day -> Nat] /\ cap <= topCap[today]
  /\ \A d \in Day : d > today => topCap[d] = 0

Counters ==
  /\ usage \in [Day -> Int]
  /\ \A d \in Day : Charged(d) /\ Total(Holders(d)) <= topCap[d]

AInv == Ledger /\ Policies /\ Counters

(* Finitely many requests hold an amount of a day. *)
LEMMA HoldersFinite ==
    ASSUME IInv, AInv
    PROVE  \A d \in Day : /\ Holders(d) \in SUBSET Request /\ IsFiniteSet(Holders(d))
                          /\ Total(Holders(d)) \in Nat
<1> SUFFICES ASSUME NEW d \in Day
             PROVE  /\ Holders(d) \in SUBSET Request /\ IsFiniteSet(Holders(d))
                    /\ Total(Holders(d)) \in Nat
  OBVIOUS
<1> PICK K : K = Known
  OBVIOUS
<1> PICK H : H = Holders(d)
  OBVIOUS
<1>1. IsFiniteSet(K) /\ H \in SUBSET K /\ H \in SUBSET Request
  BY DEF AInv, Ledger, Holders, Known
<1>2. IsFiniteSet(H)
  BY <1>1, FS_Subset
<1>3. QED BY <1>1, <1>2, UnitsFinite

(* Nothing is reserved when the store is new. *)
LEMMA InitCharged == Init => AInv
<1> SUFFICES ASSUME Init PROVE AInv
  OBVIOUS
<1>1. 1 \in Day /\ Caps \subseteq Nat /\ cap \in Caps /\ 1 \in 1..MaxPolicies
  BY SignerAssumption DEF Init, Day
<1>2. Known = {} /\ \A d \in Day : Holders(d) = {}
  BY DEF Init, Known, Holders, NoOperation
<1>3. Ledger
  BY <1>2, FS_EmptySet DEF Ledger, Init, NoOperation
<1>4. Policies
  BY <1>1 DEF Policies, Init, Day
<1>5. Counters
  BY <1>1, <1>2, TotalOfFew DEF Counters, Charged, Init, Day
<1>6. QED BY <1>3, <1>4, <1>5 DEF AInv

\* A step that gives back what the reserved requests in R hold, and nothing else: each
\* counter goes down by their amounts or is swept.
GivesBack(R) ==
  /\ UNCHANGED world
  /\ \A r \in R : op[r].state = "reserved" /\ op[r].active
  /\ \A r \in Request :
       /\ op'[r].day = op[r].day /\ op'[r].policy = op[r].policy
       /\ op'[r].active = (op[r].active /\ r \notin R)
       /\ op'[r].tx = op[r].tx \/ (op[r].tx = 0 /\ r \notin R)
       /\ (op'[r].state = "none") = (op[r].state = "none")
       /\ op'[r].state = "reserved" => op[r].state = "reserved"
  /\ usage' \in [Day -> Int]
  /\ \A d \in Day :
       \/ usage'[d] = usage[d] - Total({r \in R : op[r].day = d})
       \/ /\ IsSwept(d) /\ usage'[d] = 0
          /\ \A r \in Holders(d) : op[r].state = "reserved" => r \in R

LedgerStep == \E R \in SUBSET Request : GivesBack(R)

(* Such a step keeps the accounts. *)
LEMMA ChargesReleased ==
    ASSUME IInv, AInv, NEW R \in SUBSET Request, GivesBack(R)
    PROVE  AInv'
<1> USE DEF GivesBack
<1>1. Ledger'
  <2>1. Known' = Known
    BY DEF Known
  <2>2. QED BY <2>1 DEF AInv, Ledger, world
<1>2. Policies'
  BY DEF AInv, Policies, world
<1>3. ASSUME NEW d \in Day
      PROVE  Charged(d)' /\ (Total(Holders(d)) <= topCap[d])'
  <2> PICK H : H = Holders(d)
    OBVIOUS
  <2> PICK G : G = {r \in R : op[r].day = d}
    OBVIOUS
  <2>1. H \in SUBSET Request /\ IsFiniteSet(H) /\ G \in SUBSET H
    BY <1>3, HoldersFinite DEF Holders
  <2>2. Holders(d)' = H \ G
    <3>1. \A r \in Request : op'[r].day = op[r].day
                          /\ op'[r].active = (op[r].active /\ r \notin R)
      OBVIOUS
    <3>2. \A r \in Request : r \in H \ G <=> op'[r].active /\ op'[r].day = d
      BY <3>1 DEF Holders
    <3>3. QED BY <2>1, <3>2, Zenon DEF Holders
  <2>3. /\ Total(H) \in Nat /\ Total(G) \in Nat /\ Total(G) <= Total(H)
        /\ Total(H \ G) = Total(H) - Total(G)
    BY <2>1, TotalOfPart
  <2>4. Total(H) <= topCap[d] /\ topCap[d] \in Nat /\ topCap'[d] = topCap[d]
    <3>1. Counters /\ topCap \in [Day -> Nat]
      BY Zenon DEF AInv, Policies
    <3>2. Total(Holders(d)) <= topCap[d]
      BY <3>1, <1>3, Zenon DEF Counters
    <3>3. topCap' = topCap
      BY DEF world
    <3>4. QED BY <3>1, <3>2, <3>3, <1>3
  <2>5. (Total(Holders(d)) <= topCap[d])'
    BY <2>2, <2>3, <2>4
  <2>6. IsSwept(d) => IsSwept(d)'
    BY DEF IsSwept, world
  <2>7. \A r \in Holders(d)' : op'[r].state = "reserved" =>
          op[r].state = "reserved" /\ r \in Holders(d) /\ r \notin R
    BY DEF Holders
  <2>8. Charged(d)'
    <3>1. CASE usage[d] = Total(H) /\ usage'[d] = usage[d] - Total(G)
      <4>1. usage'[d] = Total(Holders(d))'
        BY <2>2, <2>3, <3>1
      <4>2. QED BY <4>1 DEF Charged
    <3>2. CASE /\ IsSwept(d) /\ usage'[d] = 0
               /\ \A r \in Holders(d) : op[r].state = "reserved" => r \in R
      <4>1. \A r \in Holders(d)' : op'[r].state # "reserved"
        BY <2>7, <3>2
      <4>2. QED BY <2>6, <3>2, <4>1 DEF Charged
    <3>3. CASE IsSwept(d) /\ usage[d] = 0 /\ \A r \in H : op[r].state # "reserved"
      <4>1. G = {} /\ usage'[d] \in Int
        BY <1>3, <2>1, <3>3
      <4>2. Total(G) = 0
        BY <4>1, TotalOfFew
      <4>3. usage'[d] = 0
        BY <1>3, <3>3, <4>2
      <4>4. \A r \in Holders(d)' : op'[r].state # "reserved"
        BY <2>7, <3>3
      <4>5. QED BY <2>6, <3>3, <4>3, <4>4 DEF Charged
    <3>4. QED BY <1>3, <3>1, <3>2, <3>3 DEF AInv, Counters, Charged
  <2>9. QED BY <2>5, <2>8
<1>4. Counters'
  BY <1>3 DEF Counters
<1>5. QED BY <1>1, <1>2, <1>4 DEF AInv

\* An operation goes on with what it holds.
GoesOn(r) ==
  /\ op'[r].active = op[r].active /\ op'[r].day = op[r].day
  /\ op'[r].policy = op[r].policy
  /\ op'[r].tx = op[r].tx \/ op[r].tx = 0
  /\ (op'[r].state = "none") = (op[r].state = "none")
  /\ op'[r].state = "reserved" => op[r].state = "reserved"

(* A step in which every operation does. *)
LEMMA AllGoOn ==
    ASSUME IInv, AInv, UNCHANGED <<usage, world>>, \A r \in Request : GoesOn(r)
    PROVE  LedgerStep
<1> PICK R \in SUBSET Request : R = {}
  OBVIOUS
<1>1. op \in [Request -> Operation] /\ usage \in [Day -> Int]
  BY DEF IInv, Typed, AInv, Counters
<1>2. ASSUME NEW r \in Request
      PROVE  /\ op'[r].day = op[r].day /\ op'[r].policy = op[r].policy
             /\ op'[r].active = (op[r].active /\ r \notin R)
             /\ op'[r].tx = op[r].tx \/ (op[r].tx = 0 /\ r \notin R)
             /\ (op'[r].state = "none") = (op[r].state = "none")
             /\ op'[r].state = "reserved" => op[r].state = "reserved"
  BY <1>1, <1>2 DEF GoesOn, Operation
<1>3. \A d \in Day : usage'[d] = usage[d] - Total({r \in R : op[r].day = d})
  <2>1. \A d \in Day : {r \in R : op[r].day = d} = {}
    OBVIOUS
  <2>2. QED BY <1>1, <2>1, TotalOfFew
<1>4. usage' \in [Day -> Int] /\ UNCHANGED world
  BY <1>1
<1>5. GivesBack(R)
  BY <1>2, <1>3, <1>4 DEF GivesBack
<1>6. QED BY <1>5 DEF LedgerStep

(* A step that leaves the ledger alone. *)
LEMMA NothingMoves ==
    ASSUME IInv, AInv, UNCHANGED <<store, world>>
    PROVE  LedgerStep
<1>1. \A r \in Request : GoesOn(r)
  BY DEF GoesOn, store
<1>2. QED BY <1>1, AllGoOn DEF store

(* A step that changes one operation, which goes on. *)
LEMMA OneGoesOn ==
    ASSUME IInv, AInv, UNCHANGED <<usage, world>>, NEW r \in Request, NEW o,
           op' = [op EXCEPT ![r] = o],
           o.active = op[r].active, o.day = op[r].day, o.policy = op[r].policy,
           o.tx = op[r].tx \/ op[r].tx = 0,
           o.state # "none", op[r].state # "none",
           o.state = "reserved" => op[r].state = "reserved"
    PROVE  LedgerStep
<1>1. op \in [Request -> Operation]
  BY DEF IInv, Typed
<1>2. op'[r] = o /\ \A q \in Request : q # r => op'[q] = op[q]
  BY <1>1
<1>3. \A q \in Request : GoesOn(q)
  BY <1>2 DEF GoesOn
<1>4. QED BY <1>3, AllGoOn

(* One reservation is given back. *)
LEMMA OneGivenBack ==
    ASSUME IInv, AInv, UNCHANGED world, NEW r \in Request, op[r].state = "reserved",
           op' = [op EXCEPT ![r] = GivenBack(op[r])], Release(r)
    PROVE  LedgerStep
<1>1. op \in [Request -> Operation] /\ usage \in [Day -> Int]
  BY DEF IInv, Typed, AInv, Counters
<1>2. op[r].active /\ op[r] \in Operation
  BY <1>1 DEF IInv, Consistent
<1>3. /\ op'[r].active = FALSE /\ op'[r].day = op[r].day /\ op'[r].policy = op[r].policy
      /\ op'[r].tx = op[r].tx /\ op'[r].state = "failed"
  BY <1>1, <1>2 DEF GivenBack, NotHeld, KeptOnFailure, End, Operation
<1>4. \A q \in Request : q # r => op'[q] = op[q]
  BY <1>1
<1>5. \A q \in Request :
        /\ op'[q].day = op[q].day /\ op'[q].policy = op[q].policy
        /\ op'[q].active = (op[q].active /\ q \notin {r})
        /\ op'[q].tx = op[q].tx \/ (op[q].tx = 0 /\ q \notin {r})
        /\ (op'[q].state = "none") = (op[q].state = "none")
        /\ op'[q].state = "reserved" => op[q].state = "reserved"
  BY <1>1, <1>3, <1>4 DEF Operation
<1>6. \A d \in Day : usage'[d] = usage[d] - Total({q \in {r} : op[q].day = d})
  BY DEF Release, Released
<1>7. usage' \in [Day -> Int]
  <2>1. \A d \in Day : Total({q \in {r} : op[q].day = d}) \in Nat
    <3>1. \A S : S \subseteq {r} => S = {} \/ S = {r}
      OBVIOUS
    <3>2. Total({}) \in Nat /\ Total({r}) \in Nat
      BY TotalOfFew, SignerAssumption
    <3>3. QED BY <3>1, <3>2
  <2>2. QED BY <1>1, <2>1 DEF Release, Released
<1>8. GivesBack({r})
  BY <1>2, <1>5, <1>6, <1>7 DEF GivesBack
<1>9. QED BY <1>8 DEF LedgerStep

(* Maintenance gives back the reservations of earlier days and sweeps the old counters. *)
LEMMA MaintenanceGivesBack ==
    ASSUME IInv, AInv, UNCHANGED world, Maintenance
    PROVE  LedgerStep
<1> PICK R : R = {r \in Request : UsesPriorDay(r)}
  OBVIOUS
<1>1. op \in [Request -> Operation] /\ usage \in [Day -> Int] /\ today \in Day
  BY DEF IInv, Typed, AInv, Counters
<1>2. R \in SUBSET Request /\ \A r \in R : op[r].state = "reserved" /\ op[r].active
  BY DEF UsesPriorDay
<1>3. ASSUME NEW r \in Request
      PROVE  /\ op'[r].day = op[r].day /\ op'[r].policy = op[r].policy
             /\ op'[r].active = (op[r].active /\ r \notin R)
             /\ op'[r].tx = op[r].tx \/ (op[r].tx = 0 /\ r \notin R)
             /\ (op'[r].state = "none") = (op[r].state = "none")
             /\ op'[r].state = "reserved" => op[r].state = "reserved"
  <2>1. op[r] \in Operation
    BY <1>1, <1>3
  <2>2. CASE r \in R
    <3>1. op'[r] = GivenBack(op[r]) /\ op[r].state = "reserved"
      BY <1>3, <2>2 DEF Maintenance, Expired, ExpiredIsReleased, UsesPriorDay
    <3>2. QED BY <2>1, <2>2, <3>1 DEF GivenBack, NotHeld, KeptOnFailure, End, Operation
  <2>3. CASE r \notin R /\ IsOld(r)
    <3>1. op'[r] = [op[r] EXCEPT !.state = "archived"] /\ op[r].state \in Ended
      BY <1>3, <2>3 DEF Maintenance, Archived, IsOld
    <3>2. QED BY <2>1, <2>3, <3>1 DEF Ended, Operation
  <2>4. CASE r \notin R /\ ~IsOld(r)
    <3>1. op'[r] = op[r]
      BY <1>3, <2>4 DEF Maintenance
    <3>2. QED BY <2>1, <2>4, <3>1 DEF Operation
  <2>5. QED BY <2>2, <2>3, <2>4
<1>4. ASSUME NEW d \in Day
      PROVE  {r \in R : op[r].day = d} \in SUBSET Holders(d)
  BY <1>2 DEF Holders
<1>5. ASSUME NEW d \in Day
      PROVE  /\ usage'[d] \in Int
             /\ \/ usage'[d] = usage[d] - Total({r \in R : op[r].day = d})
                \/ /\ IsSwept(d) /\ usage'[d] = 0
                   /\ \A r \in Holders(d) : op[r].state = "reserved" => r \in R
  <2>1. CASE IsSwept(d)
    <3>1. usage'[d] = 0
      BY <1>5, <2>1 DEF Maintenance
    <3>2. d # today
      BY <1>1, <2>1, SignerAssumption DEF IsSwept, Day
    <3>3. \A r \in Holders(d) : op[r].state = "reserved" => r \in R
      BY <3>2 DEF Holders, UsesPriorDay
    <3>4. QED BY <2>1, <3>1, <3>3
  <2>2. CASE ~IsSwept(d)
    <3>1. usage'[d] = usage[d] - Total({r \in R : op[r].day = d})
      BY <1>5, <2>2 DEF Maintenance, Released
    <3>2. Total({r \in R : op[r].day = d}) \in Nat
      <4> PICK H : H = Holders(d)
        OBVIOUS
      <4> PICK G : G = {r \in R : op[r].day = d}
        OBVIOUS
      <4>1. H \in SUBSET Request /\ IsFiniteSet(H) /\ G \in SUBSET H
        BY <1>4, <1>5, HoldersFinite
      <4>2. QED BY <4>1, TotalOfPart
    <3>3. QED BY <1>1, <1>5, <3>1, <3>2
  <2>3. QED BY <2>1, <2>2
<1>6. usage' \in [Day -> Int]
  <2>1. usage' = [d \in Day |-> usage'[d]]
    BY DEF Maintenance
  <2>2. QED BY <1>5, <2>1
<1>7. GivesBack(R)
  BY <1>2, <1>3, <1>5, <1>6 DEF GivesBack
<1>8. QED BY <1>2, <1>7 DEF LedgerStep

\* A new reservation.
Reserves(r) ==
  /\ UNCHANGED world
  /\ op[r].state = "none" /\ FitsCap(r)
  /\ op' = [op EXCEPT ![r].state = "reserved", ![r].active = TRUE,
                      ![r].day = today, ![r].policy = version]
  /\ usage' = [usage EXCEPT ![today] = @ + Amount[r]]

(* A new reservation fits the cap of today, which is no larger than today's largest. *)
LEMMA NewReservationCharged ==
    ASSUME IInv, AInv, NEW r \in Request, Reserves(r)
    PROVE  AInv'
<1> USE DEF Reserves
<1>1. /\ op \in [Request -> Operation] /\ usage \in [Day -> Int] /\ today \in Day
      /\ Amount[r] \in Nat /\ op[r] \in Operation /\ version \in Nat
  BY SignerAssumption DEF IInv, Typed, AInv, Counters
<1>2. r \notin Known /\ ~op[r].active
  BY DEF AInv, Ledger, Known
<1>3. op'[r] = [op[r] EXCEPT !.state = "reserved", !.active = TRUE,
                             !.day = today, !.policy = version]
  BY <1>1 DEF Operation
<1>4. /\ op'[r].state = "reserved" /\ op'[r].active /\ op'[r].day = today
      /\ op'[r].policy = version
  BY <1>1, <1>3 DEF Operation
<1>5. \A q \in Request : q # r => op'[q] = op[q]
  BY <1>1
<1>6. Ledger'
  <2>1. Known' = Known \cup {r}
    BY <1>4, <1>5 DEF Known
  <2>2. IsFiniteSet(Known \cup {r})
    <3>1. \A K : IsFiniteSet(K) => IsFiniteSet(K \cup {r})
      BY FS_AddElement
    <3>2. QED BY <3>1 DEF AInv, Ledger
  <2>3. \A q \in Request : op'[q].active => q \in Known'
    BY <1>5, <2>1 DEF AInv, Ledger
  <2>4. \A q \in Request : op'[q].policy <= version'
    BY <1>1, <1>4, <1>5 DEF AInv, Ledger, world
  <2>5. QED BY <2>1, <2>2, <2>3, <2>4 DEF Ledger
<1>7. Policies'
  BY DEF AInv, Policies, world
<1>8. ASSUME NEW d \in Day
      PROVE  Charged(d)' /\ (Total(Holders(d)) <= topCap[d])'
  <2>1. CASE d # today
    <3>1. Holders(d)' = Holders(d) /\ usage'[d] = usage[d]
      BY <1>1, <1>2, <1>4, <1>5, <1>8, <2>1 DEF Holders
    <3>2. \A q \in Holders(d) : op'[q] = op[q]
      BY <1>2, <1>5 DEF Holders
    <3>3. QED BY <1>8, <3>1, <3>2 DEF AInv, Counters, Charged, IsSwept, world
  <2>2. CASE d = today
    <3> PICK H : H = Holders(today)
      OBVIOUS
    <3>1. H \in SUBSET Request /\ IsFiniteSet(H) /\ r \notin H
      BY <1>1, <1>2, HoldersFinite DEF Holders
    <3>2. Holders(today)' = H \cup {r}
      BY <1>1, <1>4, <1>5 DEF Holders, world
    <3>3. IsFiniteSet({r}) /\ {r} \in SUBSET Request /\ H \cap {r} = {}
      BY <3>1, FS_Singleton
    <3>4. Total(H \cup {r}) = Total(H) + Total({r})
      BY <3>1, <3>3, TotalAdds
    <3>5. Total(H \cup {r}) = Total(H) + Amount[r]
      BY <3>4, TotalOfFew
    <3>6. usage[today] = Total(H)
      <4>1. ~IsSwept(today)
        BY <1>1, SignerAssumption DEF IsSwept, Day
      <4>2. QED BY <1>1, <4>1 DEF AInv, Counters, Charged
    <3>7. usage'[today] = Total(H \cup {r})
      BY <1>1, <3>5, <3>6
    <3>8. Charged(d)'
      BY <2>2, <3>2, <3>7 DEF Charged, world
    <3>9. Total(H \cup {r}) <= topCap[today]
      <4>1. Total(H) + Amount[r] <= cap
        BY <3>6 DEF FitsCap, WithinDailyCap
      <4>2. cap \in Nat /\ topCap[today] \in Nat /\ cap <= topCap[today]
        BY <1>1, SignerAssumption DEF AInv, Policies
      <4>3. Total(H) \in Nat
        BY <3>1, UnitsFinite
      <4>4. QED BY <1>1, <3>5, <4>1, <4>2, <4>3
    <3>10. (Total(Holders(d)) <= topCap[d])'
      BY <2>2, <3>2, <3>9 DEF world
    <3>11. QED BY <3>8, <3>10
  <2>3. QED BY <2>1, <2>2
<1>9. usage' \in [Day -> Int]
  BY <1>1
<1>10. QED BY <1>6, <1>7, <1>8, <1>9 DEF AInv, Counters

(* PutPolicy and DayPasses: the largest cap of a day only grows while the day lasts. *)
LEMMA CapsCharged ==
    ASSUME IInv, AInv, (\E c \in Caps : PutPolicy(c)) \/ DayPasses
    PROVE  AInv'
<1>1. /\ UNCHANGED <<op, usage>> /\ today \in Day /\ today' \in Day /\ today' >= today
      /\ version \in Nat /\ version' \in Nat /\ version' >= version
  BY SignerAssumption DEF PutPolicy, DayPasses, store, IInv, Typed, Day
<1>2. /\ topCap \in [Day -> Nat] /\ cap \in Caps /\ cap \in Nat /\ cap <= topCap[today]
      /\ version \in 1..MaxPolicies
      /\ \A d \in Day : d > today => topCap[d] = 0
  BY SignerAssumption DEF AInv, Policies
<1>3. Policies' /\ \A d \in Day : topCap[d] <= topCap'[d]
  <2>1. ASSUME NEW c \in Caps, PutPolicy(c)
        PROVE  Policies' /\ \A d \in Day : topCap[d] <= topCap'[d]
    <3>1. c \in Nat /\ version' \in 1..MaxPolicies /\ cap' = c /\ today' = today
      BY <1>2, <2>1, SignerAssumption DEF PutPolicy
    <3>2. /\ topCap' \in [Day -> Nat] /\ c <= topCap'[today] /\ topCap[today] <= topCap'[today]
          /\ \A d \in Day : d # today => topCap'[d] = topCap[d]
      BY <1>1, <1>2, <2>1, <3>1 DEF PutPolicy
    <3>3. \A d \in Day : topCap[d] <= topCap'[d]
      BY <1>2, <3>2
    <3>4. QED BY <1>1, <1>2, <2>1, <3>1, <3>2, <3>3 DEF Policies, Day
  <2>2. ASSUME DayPasses
        PROVE  Policies' /\ \A d \in Day : topCap[d] <= topCap'[d]
    <3>1. /\ today' = today + 1 /\ today' \in Day /\ UNCHANGED <<version, cap>>
          /\ topCap' = [topCap EXCEPT ![today'] = cap]
      BY <1>1, <2>2 DEF DayPasses
    <3>2. /\ topCap' \in [Day -> Nat] /\ topCap'[today'] = cap /\ topCap[today'] = 0
          /\ \A d \in Day : d # today' => topCap'[d] = topCap[d]
      BY <1>1, <1>2, <3>1 DEF Day
    <3>3. \A d \in Day : topCap[d] <= topCap'[d]
      BY <1>2, <3>2
    <3>4. QED BY <1>1, <1>2, <3>1, <3>2, <3>3 DEF Policies, Day
  <2>3. QED BY <2>1, <2>2
<1>4. Ledger'
  <2>1. Known' = Known
    BY <1>1 DEF Known
  <2>2. \A r \in Request : op[r].policy \in Nat
    BY DEF IInv, Typed, Operation
  <2>3. QED BY <1>1, <2>1, <2>2 DEF AInv, Ledger
<1>5. ASSUME NEW d \in Day
      PROVE  Charged(d)' /\ (Total(Holders(d)) <= topCap[d])'
  <2>1. Holders(d)' = Holders(d)
    BY <1>1 DEF Holders
  <2>2. IsSwept(d) => IsSwept(d)'
    <3>1. /\ today \in Int /\ today' \in Int /\ d \in Int /\ UsageDays \in Int
          /\ today' >= today
      BY <1>1, <1>5, SignerAssumption DEF Day
    <3>2. \A a, b, n, m \in Int : b >= a /\ a - n > m => b - n > m
      OBVIOUS
    <3>3. QED BY <3>1, <3>2, Zenon DEF IsSwept
  <2>3. Charged(d)'
    BY <1>1, <1>5, <2>1, <2>2 DEF AInv, Counters, Charged
  <2>4. Total(Holders(d)) \in Nat /\ Total(Holders(d)) <= topCap[d]
    BY <1>5, HoldersFinite DEF AInv, Counters
  <2>5. topCap[d] \in Nat /\ topCap'[d] \in Nat /\ topCap[d] <= topCap'[d]
    BY <1>2, <1>3, <1>5 DEF Policies
  <2>6. (Total(Holders(d)) <= topCap[d])'
    <3> PICK n : n = Total(Holders(d))
      OBVIOUS
    <3>1. Total(Holders(d))' = n
      BY <2>1
    <3>2. QED BY <2>4, <2>5, <3>1
  <2>7. QED BY <2>3, <2>6
<1>6. QED BY <1>1, <1>3, <1>4, <1>5 DEF AInv, Counters

-----------------------------------------------------------------------------
(* What the actions do to the ledger.                                      *)

(* StartExecute, after a maintenance or without one. *)
LEMMA StartExecuteMoves ==
    ASSUME IInv, AInv, NEW w \in Worker, NEW r \in Request, StartExecute(w, r)
    PROVE  LedgerStep
<1>1. UNCHANGED world /\ (Maintenance \/ UNCHANGED store)
  BY Zenon DEF StartExecute, MaintainIfDue
<1>2. CASE Maintenance
  BY <1>1, <1>2, MaintenanceGivesBack
<1>3. CASE UNCHANGED store
  BY <1>1, <1>3, NothingMoves DEF store, world
<1>4. QED BY <1>1, <1>2, <1>3, Zenon

(* Reserve: a stale reservation is given back, a new one is charged. *)
LEMMA ReserveMoves ==
    ASSUME IInv, AInv, NEW w \in Worker, Reserve(w)
    PROVE  LedgerStep \/ \E r \in Request : Reserves(r)
<1> PICK r : r = RequestOf(w)
  OBVIOUS
<1>1. r \in Request /\ UNCHANGED world
  BY ServedRequest DEF Reserve, At
<1>2. CASE UNCHANGED store
  BY <1>1, <1>2, NothingMoves
<1>3. CASE /\ op[r].state = "reserved" /\ op' = [op EXCEPT ![r] = GivenBack(@)]
           /\ Release(r)
  BY <1>1, <1>3, OneGivenBack
<1>4. CASE Reserves(r)
  BY <1>1, <1>4
<1>5. QED BY <1>1, <1>2, <1>3, <1>4
   DEF Reserve, ReserveExisting, ReserveNew, MayBeNew, NotArchived, Reserves

(* Claim: a reservation of an earlier day is given back. *)
LEMMA ClaimMoves ==
    ASSUME IInv, AInv, NEW w \in Worker, Claim(w)
    PROVE  LedgerStep
<1> PICK r : r = RequestOf(w)
  OBVIOUS
<1>1. r \in Request /\ UNCHANGED world /\ op[r] \in Operation /\ op \in [Request -> Operation]
  BY ServedRequest DEF Claim, At, IInv, Typed
<1>2. CASE UNCHANGED store
  BY <1>1, <1>2, NothingMoves
<1>3. CASE UsesPriorDay(r) /\ op' = [op EXCEPT ![r] = GivenBack(@)] /\ Release(r)
  BY <1>1, <1>3, OneGivenBack DEF UsesPriorDay
<1>4. CASE /\ op[r].state = "reserved" /\ UNCHANGED usage
           /\ op' = [op EXCEPT ![r].attempt = @ + 1, ![r].lease = "live"]
  <2> PICK o : o = [op[r] EXCEPT !.attempt = @ + 1, !.lease = "live"]
    OBVIOUS
  <2>1. /\ o.active = op[r].active /\ o.day = op[r].day /\ o.policy = op[r].policy
        /\ o.state = op[r].state /\ o.tx = op[r].tx
    BY <1>1 DEF Operation
  <2>2. op' = [op EXCEPT ![r] = o]
    BY <1>1, <1>4 DEF Operation
  <2>3. QED BY <1>1, <1>4, <2>1, <2>2, OneGoesOn
<1>5. QED BY <1>2, <1>3, <1>4 DEF Claim, Expired, ExpiredIsReleased

(* RecordBroadcast keeps the charge. *)
LEMMA RecordBroadcastMoves ==
    ASSUME IInv, AInv, NEW w \in Worker, RecordBroadcast(w)
    PROVE  LedgerStep
<1> PICK r : r = RequestOf(w)
  OBVIOUS
<1> PICK o : o = [op[r] EXCEPT !.state = "broadcast", !.lease = "none",
                               !.tx = worker[w].attempt]
  OBVIOUS
<1>1. /\ r \in Request /\ UNCHANGED <<usage, world>> /\ op[r] \in Operation
      /\ op \in [Request -> Operation] /\ op[r].state = "reserved" /\ Consistent(op[r])
  BY ServedRequest DEF RecordBroadcast, MayRecord, At, IInv, Typed
<1>2. /\ o.active = op[r].active /\ o.day = op[r].day /\ o.policy = op[r].policy
      /\ o.state = "broadcast" /\ op[r].tx = 0
  BY <1>1 DEF Operation, Consistent
<1>3. op' = [op EXCEPT ![r] = o]
  BY <1>1 DEF RecordBroadcast, Operation
<1>4. QED BY <1>1, <1>2, <1>3, OneGoesOn

(* A failure gives the charge back before the broadcast and keeps it after. *)
LEMMA MarkFailedMoves ==
    ASSUME IInv, AInv, NEW w \in Worker, NEW attempt, ~At(w, "rest"),
           MarkFailed(w, attempt)
    PROVE  LedgerStep
<1> PICK r : r = RequestOf(w)
  OBVIOUS
<1>1. /\ r \in Request /\ UNCHANGED world /\ op[r] \in Operation /\ Consistent(op[r])
      /\ op \in [Request -> Operation]
  BY ServedRequest DEF MarkFailed, IInv, Typed
<1>2. CASE UNCHANGED store
  BY <1>1, <1>2, NothingMoves
<1>3. CASE op[r].state = "reserved" /\ op' = [op EXCEPT ![r] = AfterFailure(@)]
           /\ (IF ReleasesOnFailure(op[r]) THEN Release(r) ELSE UNCHANGED usage)
  <2>1. op' = [op EXCEPT ![r] = GivenBack(op[r])] /\ Release(r)
    BY <1>1, <1>3 DEF AfterFailure, ReleasesOnFailure, ReleaseWhenReserved, Consistent
  <2>2. QED BY <1>1, <1>3, <2>1, OneGivenBack
<1>4. CASE op[r].state \in InDoubt /\ op' = [op EXCEPT ![r] = AfterFailure(@)]
           /\ (IF ReleasesOnFailure(op[r]) THEN Release(r) ELSE UNCHANGED usage)
  <2> PICK o : o = KeptOnFailure(op[r])
    OBVIOUS
  <2>1. op' = [op EXCEPT ![r] = o] /\ UNCHANGED usage /\ op[r].state # "none"
    BY <1>4 DEF AfterFailure, ReleasesOnFailure, ReleaseWhenReserved, InDoubt
  <2>2. /\ o.active = op[r].active /\ o.day = op[r].day /\ o.policy = op[r].policy
        /\ o.state = "failed" /\ o.tx = op[r].tx
    BY <1>1 DEF KeptOnFailure, End, Operation
  <2>3. QED BY <1>1, <2>1, <2>2, OneGoesOn
<1>5. QED BY <1>2, <1>3, <1>4 DEF MarkFailed, MayFail

(* MarkConfirmed and MarkUnknown keep the charge. *)
LEMMA MarkedMoves ==
    ASSUME IInv, AInv, NEW w \in Worker, MarkConfirmed(w) \/ MarkUnknown(w)
    PROVE  LedgerStep
<1> PICK r : r = RequestOf(w)
  OBVIOUS
<1>1. /\ r \in Request /\ UNCHANGED <<usage, world>> /\ op[r] \in Operation
      /\ op \in [Request -> Operation]
  BY ServedRequest DEF MarkConfirmed, Learns, MarkUnknown, At, IInv, Typed
<1>2. CASE UNCHANGED op
  BY <1>1, <1>2, NothingMoves DEF store
<1>3. CASE op[r].state \in InDoubt /\ op' = [op EXCEPT ![r] = End(@, "confirmed")]
  <2> PICK o : o = End(op[r], "confirmed")
    OBVIOUS
  <2>1. op' = [op EXCEPT ![r] = o] /\ op[r].state # "none"
    BY <1>3 DEF InDoubt
  <2>2. /\ o.active = op[r].active /\ o.day = op[r].day /\ o.policy = op[r].policy
        /\ o.state = "confirmed" /\ o.tx = op[r].tx
    BY <1>1 DEF End, Operation
  <2>3. QED BY <1>1, <2>1, <2>2, OneGoesOn
<1>4. CASE op[r].state \in InDoubt /\ op' = [op EXCEPT ![r].state = "unknown"]
  <2> PICK o : o = [op[r] EXCEPT !.state = "unknown"]
    OBVIOUS
  <2>1. op' = [op EXCEPT ![r] = o] /\ op[r].state # "none"
    BY <1>1, <1>4 DEF InDoubt, Operation
  <2>2. /\ o.active = op[r].active /\ o.day = op[r].day /\ o.policy = op[r].policy
        /\ o.state = "unknown" /\ o.tx = op[r].tx
    BY <1>1 DEF Operation
  <2>3. QED BY <1>1, <2>1, <2>2, OneGoesOn
<1>5. QED BY <1>2, <1>3, <1>4 DEF MarkConfirmed, MarkUnknown

(* LeaseExpires keeps the charge: the lease is of a reservation. *)
LEMMA LeaseExpiresMoves ==
    ASSUME IInv, AInv, NEW r \in Request, LeaseExpires(r)
    PROVE  LedgerStep
<1> PICK o : o = [op[r] EXCEPT !.lease = "expired"]
  OBVIOUS
<1>1. /\ UNCHANGED <<usage, world>> /\ op[r] \in Operation /\ Consistent(op[r])
      /\ op \in [Request -> Operation] /\ op[r].lease = "live"
  BY DEF LeaseExpires, IInv, Typed
<1>2. /\ o.active = op[r].active /\ o.day = op[r].day /\ o.policy = op[r].policy
      /\ o.state = op[r].state /\ o.tx = op[r].tx /\ op[r].state # "none"
  BY <1>1 DEF Operation, Consistent
<1>3. op' = [op EXCEPT ![r] = o]
  BY <1>1 DEF LeaseExpires, Operation
<1>4. QED BY <1>1, <1>2, <1>3, OneGoesOn

(* Whatever the next step is, of the ledger, the chain or the caps. *)
LEMMA StepMoves ==
    ASSUME IInv, AInv, [Next]_vars
    PROVE  \/ UNCHANGED chain /\ LedgerStep
           \/ UNCHANGED chain /\ \E r \in Request : Reserves(r)
           \/ \E c \in Caps : PutPolicy(c)
           \/ DayPasses
           \/ \E w \in Worker, answer \in Answers : Broadcast(w, answer)
           \/ \E r \in Request, a \in Attempt : TransactionEnds(r, a)
<1> DEFINE Goal == \/ UNCHANGED chain /\ LedgerStep
                   \/ UNCHANGED chain /\ \E r \in Request : Reserves(r)
                   \/ \E c \in Caps : PutPolicy(c)
                   \/ DayPasses
                   \/ \E w \in Worker, answer \in Answers : Broadcast(w, answer)
                   \/ \E r \in Request, a \in Attempt : TransactionEnds(r, a)
<1>1. ASSUME NEW w \in Worker, NEW r \in Request, StartExecute(w, r) \/ StartReconcile(w, r)
      PROVE  UNCHANGED chain /\ LedgerStep
  BY <1>1, StartExecuteMoves, NothingMoves DEF StartExecute, StartReconcile
<1>2. ASSUME NEW w \in Worker, ExecuteStep(w)
      PROVE  UNCHANGED chain /\ (LedgerStep \/ \E r \in Request : Reserves(r))
  <2>1. MarkFailedClaim(w) => ~At(w, "rest") /\ MarkFailed(w, worker[w].attempt)
    BY DEF MarkFailedClaim, At
  <2>2. \A a : ~At(w, "rest") /\ MarkFailed(w, a) => LedgerStep
    BY <1>2, MarkFailedMoves
  <2>3. UNCHANGED chain
    BY <1>2 DEF ExecuteStep, Reserve, Claim, RecordBroadcast, MarkFailedClaim, MarkFailed
  <2>4. QED BY <1>2, <2>1, <2>2, <2>3, ReserveMoves, ClaimMoves, RecordBroadcastMoves
     DEF ExecuteStep
<1>3. ASSUME NEW w \in Worker, ChainStep(w)
      PROVE  \/ UNCHANGED chain /\ LedgerStep
             \/ \E answer \in Answers : Broadcast(w, answer)
  <2>1. MarkReverted(w) => ~At(w, "rest") /\ MarkFailed(w, 0)
    BY DEF MarkReverted, Learns, At
  <2>2. ~At(w, "rest") /\ MarkFailed(w, 0) => LedgerStep
    BY <1>3, MarkFailedMoves
  <2>3. LookupFails(w) => UNCHANGED <<store, world>>
    BY DEF LookupFails
  <2>4. LookupFails(w) \/ MarkConfirmed(w) \/ MarkReverted(w) \/ MarkUnknown(w) => UNCHANGED chain
    BY DEF LookupFails, MarkConfirmed, MarkReverted, MarkUnknown, MarkFailed
  <2>5. QED BY <1>3, <2>1, <2>2, <2>3, <2>4, MarkedMoves, NothingMoves DEF ChainStep
<1>4. ASSUME NEW r \in Request, LeaseExpires(r)
      PROVE  UNCHANGED chain /\ LedgerStep
  BY <1>4, LeaseExpiresMoves DEF LeaseExpires
<1>5. Restart => UNCHANGED chain /\ LedgerStep
  BY MaintenanceGivesBack DEF Restart
<1>6. UNCHANGED vars => UNCHANGED chain /\ LedgerStep
  BY NothingMoves DEF vars, store, world
<1>7. QED BY <1>1, <1>2, <1>3, <1>4, <1>5, <1>6 DEF Next, Proceed

(* Every step keeps the accounts. *)
LEMMA StepCharged == IInv /\ AInv /\ [Next]_vars => AInv'
<1> SUFFICES ASSUME IInv, AInv, [Next]_vars PROVE AInv'
  OBVIOUS
<1>1. UNCHANGED <<store, world>> => LedgerStep
  BY NothingMoves
<1>2. (\E w \in Worker, answer \in Answers : Broadcast(w, answer))
        \/ (\E r \in Request, a \in Attempt : TransactionEnds(r, a)) => UNCHANGED <<store, world>>
  BY DEF Broadcast, TransactionEnds
<1>3. LedgerStep => AInv'
  BY ChargesReleased DEF LedgerStep
<1>4. QED BY <1>1, <1>2, <1>3, StepMoves, NewReservationCharged, CapsCharged

(* The accounts of the signer: its counters, caps and ledger. *)
LEMMA AccountsInvariant == Spec => [](IInv /\ AInv)
<1>1. Init => IInv /\ AInv
  BY InitSound, InitCharged
<1>2. IInv /\ AInv /\ [Next]_vars => IInv' /\ AInv'
  BY StepSound, StepCharged
<1>3. QED BY <1>1, <1>2, PTL DEF Spec

(* The types, of which one is a fact about every path of failure, expiry and
   maintenance: no counter falls below zero (releaseUsageReservationV2). *)
THEOREM SignerTypeCorrect == Spec => []TypeOK
<1>1. IInv /\ AInv => TypeOK
  <2> SUFFICES ASSUME IInv, AInv PROVE TypeOK
    OBVIOUS
  <2>1. \A d \in Day : usage[d] \in Nat
    BY HoldersFinite DEF AInv, Counters, Charged
  <2>2. usage \in [Day -> Nat]
    BY <2>1 DEF AInv, Counters
  <2>3. ASSUME NEW r \in Request
        PROVE  op[r] \in [state : States, active : BOOLEAN, day : Day,
                          policy : 0..MaxPolicies, attempt : 0..MaxAttempts,
                          lease : Leases, tx : 0..MaxAttempts, ended : Day]
    <3>1. op[r] \in Operation /\ op[r].policy <= version /\ version \in 1..MaxPolicies
      BY <2>3 DEF IInv, Typed, AInv, Ledger, Policies
    <3>2. op[r].policy \in 0..MaxPolicies
      BY <3>1, SignerAssumption DEF Operation
    <3>3. QED BY <3>1, <3>2 DEF Operation
  <2>4. QED BY <2>2, <2>3
     DEF TypeOK, IInv, Typed, AInv, Policies, States, Leases, Connection, Fates
<1>2. QED BY <1>1, AccountsInvariant, PTL

(* The counter of a day is what the operations reserved on it still hold, until it is
   swept with none of them reserved (releaseUsageReservationV2 and its callers,
   maintainStateV2). *)
THEOREM CountersAreReserved == Spec => []UsageIsReserved
<1>1. AInv => UsageIsReserved
  BY DEF AInv, Counters, Charged, Holders, UsageIsReserved
<1>2. QED BY <1>1, AccountsInvariant, PTL

(* On no day is more sent than the largest cap in force that day, over changes of the
   policy, expired leases, failures and restarts (reserveOperation). *)
THEOREM SentWithinTheCap == Spec => []SpentWithinCap
<1>1. IInv /\ AInv => SpentWithinCap
  <2> SUFFICES ASSUME IInv, AInv, NEW d \in Day
               PROVE  Total({r \in Request : WasSent(r) /\ op[r].day = d}) <= topCap[d]
    BY DEF SpentWithinCap
  <2> PICK H : H = Holders(d)
    OBVIOUS
  <2> PICK S : S = {r \in Request : WasSent(r) /\ op[r].day = d}
    OBVIOUS
  <2>1. ASSUME NEW r \in Request, WasSent(r)
        PROVE  op[r].active
    BY <2>1 DEF IInv, Truthful, Consistent, WasSent, Attempt
  <2>2. S \in SUBSET H
    BY <2>1 DEF Holders
  <2>3. Total(S) <= Total(H) /\ Total(S) \in Nat /\ Total(H) \in Nat
    BY <2>2, HoldersFinite, TotalOfPart
  <2>4. Total(H) <= topCap[d] /\ topCap[d] \in Nat
    BY DEF AInv, Counters, Policies
  <2>5. QED BY <2>3, <2>4
<1>2. QED BY <1>1, AccountsInvariant, PTL

-----------------------------------------------------------------------------
(* The signer implements SpendingContract.                                 *)

(* A new store is a wallet nothing was spent from. *)
LEMMA WalletInit == Init => Wallet!Init
<1> SUFFICES ASSUME Init PROVE Wallet!Init
  OBVIOUS
<1>1. \A r \in Request : Charge(r) = "none" /\ op[r].day = 1
  BY DEF Init, Charge, NoOperation
<1>2. \E c \in Caps : topCap = [d \in 1..MaxDay |-> IF d = 1 THEN c ELSE 0]
  BY DEF Init, Day
<1>3. QED BY <1>1, <1>2 DEF Init, Wallet!Init

(* What is charged, in terms of the ledger. *)
LEMMA ChargeOfRecord ==
    ASSUME IInv, AInv, NEW r \in Request
    PROVE  /\ op[r].tx = 0 =>
                Charge(r) = IF op[r].state = "none" THEN "none"
                            ELSE IF op[r].active THEN "held" ELSE "returned"
           /\ op[r].tx # 0 =>
                /\ op[r].tx \in Attempt
                /\ Charge(r) = IF Fate(r, op[r].tx) = "unsent" THEN "held"
                               ELSE Fate(r, op[r].tx)
           /\ Charge(r) \in Wallet!Charged => op[r].active
<1>1. op[r] \in Operation /\ Consistent(op[r])
  BY DEF IInv, Typed
<1>2. op[r].tx # 0 => op[r].active /\ op[r].state # "none"
  BY <1>1 DEF Consistent
<1>3. op[r].tx # 0 => op[r].tx \in Attempt
  BY <1>1 DEF Operation, Attempt
<1>4. QED BY <1>2, <1>3 DEF Charge, Wallet!Charged

(* What the ledger gives back comes back to the wallet. *)
LEMMA WalletGivesBack ==
    ASSUME IInv, AInv, IInv', NEW R \in SUBSET Request, GivesBack(R), UNCHANGED chain
    PROVE  Wallet!GiveBack(R)
<1>1. ASSUME NEW r \in R
      PROVE  Charge(r) = "held" /\ Charge(r)' = "returned"
  <2>1. r \in Request /\ op[r].state = "reserved" /\ op[r].active /\ op[r].tx = 0
    BY <1>1 DEF GivesBack, IInv, Consistent
  <2>2. op'[r].tx = 0 /\ op'[r].active = FALSE /\ op'[r].state # "none"
    BY <1>1, <2>1 DEF GivesBack
  <2>3. QED BY <2>1, <2>2 DEF Charge
<1>2. ASSUME NEW r \in Request, r \notin R
      PROVE  Charge(r)' = Charge(r)
  <2>1. /\ op'[r].active = (op[r].active /\ TRUE)
        /\ op'[r].tx = op[r].tx \/ op[r].tx = 0
        /\ (op'[r].state = "none") = (op[r].state = "none")
    BY <1>2 DEF GivesBack
  <2>2. op'[r].active = op[r].active
    BY <1>2, <2>1 DEF IInv, Typed, Operation
  <2>3. CASE op'[r].tx = op[r].tx
    BY <2>1, <2>2, <2>3 DEF Charge, Fate
  <2>4. CASE op[r].tx = 0 /\ op'[r].tx # 0
    <3>1. op'[r].tx \in Attempt
      BY <1>2, <2>4 DEF IInv, Typed, Operation, Attempt
    <3>2. chain'[r][op'[r].tx] = "unsent"
      BY <1>2, <2>4, <3>1 DEF IInv, Truthful, Fate
    <3>3. QED BY <2>1, <2>2, <2>4, <3>2 DEF Charge, Fate
  <2>5. QED BY <2>1, <2>3, <2>4
<1>3. [r \in Request |-> op[r].day]' = [r \in Request |-> op[r].day]
      /\ UNCHANGED <<today, topCap>>
  BY DEF GivesBack, world
<1>4. QED BY <1>1, <1>2, <1>3 DEF Wallet!GiveBack

(* A new reservation is a charge within the limit of the day. *)
LEMMA WalletHolds ==
    ASSUME IInv, AInv, IInv', AInv', NEW r \in Request, Reserves(r), UNCHANGED chain
    PROVE  Wallet!Hold(r)
<1>1. /\ op \in [Request -> Operation] /\ op[r] \in Operation /\ today \in Day
      /\ op[r].state = "none" /\ op[r].tx = 0
  BY DEF Reserves, IInv, Typed, Consistent
<1>2. op'[r] = [op[r] EXCEPT !.state = "reserved", !.active = TRUE,
                             !.day = today, !.policy = version]
  BY <1>1 DEF Reserves, Operation
<1>3. /\ op'[r].state = "reserved" /\ op'[r].active /\ op'[r].day = today /\ op'[r].tx = 0
      /\ \A q \in Request : q # r => op'[q] = op[q]
  BY <1>1, <1>2 DEF Reserves, Operation
<1>4. Charge(r) = "none" /\ Charge(r)' = "held"
  BY <1>1, <1>3 DEF Charge
<1>5. \A q \in Request : q # r => Charge(q)' = Charge(q)
  BY <1>3 DEF Charge, Fate
<1>6. Wallet!Total(Wallet!ChargedTo(today) \cup {r}) <= topCap[today]
  <2> PICK C : C = Wallet!ChargedTo(today) \cup {r}
    OBVIOUS
  <2> PICK H : H = Holders(today)'
    OBVIOUS
  <2>1. \A q \in Wallet!ChargedTo(today) :
          q \in Request /\ op[q].active /\ op[q].day = today /\ q # r
    BY <1>4, ChargeOfRecord DEF Wallet!ChargedTo, Wallet!Charged
  <2>2. today' = today /\ topCap' = topCap
    BY DEF Reserves, world
  <2>3. C \in SUBSET H
    BY <1>3, <2>1, <2>2 DEF Holders
  <2>4. H \in SUBSET Request /\ IsFiniteSet(H)
    <3>1. Known' \in SUBSET Request /\ IsFiniteSet(Known')
      BY DEF AInv, Ledger, Known
    <3>2. H \in SUBSET Known'
      BY DEF AInv, Ledger, Holders
    <3>3. QED BY <3>1, <3>2, FS_Subset
  <2>5. Total(C) <= Total(H) /\ Total(C) \in Nat /\ Total(H) \in Nat
    BY <2>3, <2>4, TotalOfPart
  <2>6. Total(H) <= topCap[today] /\ topCap[today] \in Nat
    BY <1>1, <2>2 DEF AInv, Counters, Policies
  <2>7. Wallet!Total(C) = Total(C)
    <3>1. Wallet!Units(C) = Units(C)
      BY Zenon DEF Wallet!Units, Units
    <3>2. Wallet!Cardinality(Units(C)) = Cardinality(Units(C))
      BY Zenon DEF Wallet!Cardinality, Cardinality
    <3>3. QED BY <3>1, <3>2, Zenon DEF Wallet!Total, Total
  <2>8. QED BY <2>5, <2>6, <2>7
<1>7. [q \in Request |-> Charge(q)]' = [[q \in Request |-> Charge(q)] EXCEPT ![r] = "held"]
  BY <1>4, <1>5
<1>8. [q \in Request |-> op[q].day]' = [[q \in Request |-> op[q].day] EXCEPT ![r] = today]
  BY <1>3
<1>9. UNCHANGED <<today, topCap>>
  BY DEF Reserves, world
<1>10. QED BY <1>4, <1>6, <1>7, <1>8, <1>9 DEF Wallet!Hold

(* The first broadcast of the recorded transaction spends the charge; the outcome of a
   pending transaction concludes it. *)
LEMMA WalletSends ==
    ASSUME IInv, AInv, NEW w \in Worker, NEW answer \in Answers, Broadcast(w, answer)
    PROVE  (\E r \in Request : Wallet!Send(r)) \/ UNCHANGED Wallet!spendingVars
<1> PICK r : r = RequestOf(w)
  OBVIOUS
<1> PICK a : a = worker[w].attempt
  OBVIOUS
<1>1. /\ r \in Request /\ op[r].tx = a /\ a # 0 /\ a \in Attempt
      /\ chain \in [Request -> [Attempt -> Fates]]
  <2>1. ~At(w, "rest") /\ Asking(w)
    BY DEF Broadcast, At, IInv, Serves
  <2>2. r \in Request
    BY <2>1, ServedRequest
  <2>3. QED BY <2>1, <2>2, ChargeOfRecord DEF Asking, IInv, Typed
<1>2. UNCHANGED <<op, today, topCap>>
  BY DEF Broadcast, store, world
<1>3. CASE UNCHANGED chain
  <2>1. \A q \in Request : Charge(q)' = Charge(q)
    BY <1>2, <1>3 DEF Charge, Fate
  <2>2. QED BY <1>2, <2>1 DEF Wallet!spendingVars
<1>4. CASE Fate(r, a) = "unsent" /\ chain' = [chain EXCEPT ![r][a] = "pending"]
  <2>1. Charge(r) = "held"
    BY <1>1, <1>4, ChargeOfRecord
  <2>2. chain'[r][a] = "pending" /\ \A q \in Request : q # r => chain'[q] = chain[q]
    BY <1>1, <1>4
  <2>3. op[r].state # "none"
    BY <1>1 DEF IInv, Consistent
  <2>4. Charge(r)' = "pending"
    BY <1>1, <1>2, <2>2, <2>3 DEF Charge, Fate
  <2>5. \A q \in Request : q # r => Charge(q)' = Charge(q)
    BY <1>2, <2>2 DEF Charge, Fate
  <2>6. [q \in Request |-> Charge(q)]'
          = [[q \in Request |-> Charge(q)] EXCEPT ![r] = "pending"]
    BY <2>4, <2>5
  <2>7. Wallet!Send(r)
    BY <1>1, <1>2, <2>1, <2>6 DEF Wallet!Send
  <2>8. QED BY <1>1, <2>7
<1>5. QED BY <1>3, <1>4 DEF Broadcast

LEMMA WalletConcludes ==
    ASSUME IInv, AInv, NEW r \in Request, NEW a \in Attempt, TransactionEnds(r, a)
    PROVE  Wallet!Conclude(r)
<1>1. Fate(r, a) = "pending" /\ UNCHANGED <<op, today, topCap>>
  BY DEF TransactionEnds, store, world
<1>2. PICK fate \in {"landed", "reverted"} : chain' = [chain EXCEPT ![r][a] = fate]
  BY DEF TransactionEnds
<1>3. /\ op[r].tx = a /\ a # 0 /\ op[r].state # "none"
      /\ chain \in [Request -> [Attempt -> Fates]]
  BY <1>1 DEF IInv, Typed, Truthful, Consistent, Attempt
<1>4. Charge(r) = "pending"
  BY <1>1, <1>3 DEF Charge
<1>5. chain'[r][a] = fate /\ \A q \in Request : q # r => chain'[q] = chain[q]
  BY <1>2, <1>3
<1>6. Charge(r)' = fate
  BY <1>1, <1>3, <1>5 DEF Charge, Fate
<1>7. \A q \in Request : q # r => Charge(q)' = Charge(q)
  BY <1>1, <1>5 DEF Charge, Fate
<1>8. [q \in Request |-> Charge(q)]' = [[q \in Request |-> Charge(q)] EXCEPT ![r] = fate]
  BY <1>6, <1>7
<1>9. QED BY <1>1, <1>4, <1>8 DEF Wallet!Conclude

(* The caps and the days of the signer are those of the wallet. *)
LEMMA WalletCaps ==
    ASSUME AInv
    PROVE  /\ \A c \in Caps : PutPolicy(c) => Wallet!SetCap(c)
           /\ DayPasses => cap \in Caps /\ Wallet!NextDay(cap)
<1>1. UNCHANGED <<op, chain>> => \A r \in Request : Charge(r)' = Charge(r)
  BY DEF Charge, Fate
<1>2. (\E c \in Caps : PutPolicy(c)) \/ DayPasses => UNCHANGED <<op, chain>>
  BY DEF PutPolicy, DayPasses, store
<1>3. QED BY <1>1, <1>2
   DEF PutPolicy, DayPasses, AInv, Policies, Wallet!SetCap, Wallet!NextDay

(* Whatever expires, fails, is swept or archived, and whoever else works on a request: it
   is charged once and within the cap of its day, and what is charged is sent or given
   back (reserveOperation, releaseUsageReservationV2, markBroadcastClaim, maintainStateV2). *)
THEOREM SignerKeepsContract == Spec => KeepsSpendingContract
<1>1. IInv /\ AInv /\ IInv' /\ AInv' /\ [Next]_vars => [Wallet!Next]_Wallet!spendingVars
  <2> SUFFICES ASSUME IInv, AInv, IInv', AInv', [Next]_vars
               PROVE  Wallet!Next \/ UNCHANGED Wallet!spendingVars
    OBVIOUS
  <2>1. CASE UNCHANGED chain /\ LedgerStep
    <3>1. PICK R \in SUBSET Request : GivesBack(R)
      BY <2>1 DEF LedgerStep
    <3>2. QED BY <2>1, <3>1, WalletGivesBack DEF Wallet!Next
  <2>2. CASE UNCHANGED chain /\ \E r \in Request : Reserves(r)
    BY <2>2, WalletHolds DEF Wallet!Next
  <2>3. CASE (\E c \in Caps : PutPolicy(c)) \/ DayPasses
    BY <2>3, WalletCaps DEF Wallet!Next
  <2>4. CASE \E w \in Worker, answer \in Answers : Broadcast(w, answer)
    BY <2>4, WalletSends DEF Wallet!Next
  <2>5. CASE \E r \in Request, a \in Attempt : TransactionEnds(r, a)
    BY <2>5, WalletConcludes DEF Wallet!Next
  <2>6. QED BY <2>1, <2>2, <2>3, <2>4, <2>5, StepMoves
<1>2. QED BY <1>1, WalletInit, AccountsInvariant, PTL
   DEF Spec, KeepsSpendingContract, Wallet!Spec
=============================================================================
