--------------------------- MODULE SignerOperations ---------------------------
(***************************************************************************)
(* The durable operations of the signer daemon (src/tools/fased-signerd):  *)
(* a request is reserved against the daily cap of its wallet, claimed by   *)
(* one of the connections that execute it, signed, recorded, sent, and     *)
(* confirmed or reconciled with the chain.  One wallet, one asset.         *)
(*                                                                         *)
(* A transaction of the store (bbolt) is one step.  Between two of them,   *)
(* and while the chain is asked, other connections run; no lock is held.   *)
(***************************************************************************)
EXTENDS Amounts, Integers, FiniteSets

CONSTANTS Request,        \* request ids
          Worker,         \* connections served at once
          Caps,           \* the daily caps a policy may set
          MaxOperations,  \* maxSignerOperationsV2
          UsageDays,      \* signerUsageRetentionV2, in days
          OperationDays,  \* signerOperationRetentionV2, in days
          MaxDay,         \* bound: days that pass
          MaxPolicies,    \* bound: versions of the policy
          MaxAttempts     \* bound: execution attempts of a request

ASSUME SignerAssumption ==
  /\ Amount \in [Request -> Nat \ {0}]
  /\ Caps \subseteq Nat \ {0} /\ Caps # {}
  /\ MaxOperations \in Nat /\ MaxPolicies \in Nat \ {0}
  /\ UsageDays \in Nat /\ OperationDays \in Nat /\ UsageDays <= OperationDays
  /\ MaxDay \in Nat \ {0} /\ MaxAttempts \in Nat \ {0}

Day == 1..MaxDay
Attempt == 1..MaxAttempts

VARIABLES op,        \* the operation of each request
          usage,     \* the usage counter of each day
          version,   \* the policy in force: its version, which fixes its hash ...
          cap,       \* ... and its daily cap
          today,     \* currentDayBucket
          worker,    \* what each connection is doing
          chain,     \* external: the fate of the transaction each attempt signed
          topCap,    \* history: the largest cap in force on each day
          outlived   \* history: the lease of a request expired under its worker

vars == <<op, usage, version, cap, today, worker, chain, topCap, outlived>>
store == <<op, usage>>
world == <<version, cap, today, topCap>>

Resting == [at |-> "rest", request |-> 0, policy |-> 0, attempt |-> 0]
NoOperation == [state |-> "none", active |-> FALSE, day |-> 1, policy |-> 0,
                attempt |-> 0, lease |-> "none", tx |-> 0, ended |-> 1]

Init ==
  /\ op = [r \in Request |-> NoOperation]
  /\ usage = [d \in Day |-> 0]
  /\ version = 1 /\ cap \in Caps
  /\ today = 1
  /\ worker = [w \in Worker |-> Resting]
  /\ chain = [r \in Request |-> [a \in Attempt |-> "unsent"]]
  /\ topCap = [d \in Day |-> IF d = 1 THEN cap ELSE 0]
  /\ outlived = [r \in Request |-> FALSE]

At(w, stage) == worker[w].at = stage
RequestOf(w) == worker[w].request
Go(w, stage) == worker' = [worker EXCEPT ![w].at = stage]
Rest(w) == worker' = [worker EXCEPT ![w] = Resting]

InLedger(r) == op[r].state \notin {"none", "archived"}
InDoubt == {"broadcast", "unknown"}
Ended == {"confirmed", "failed"}

-----------------------------------------------------------------------------
(* Changes of one operation.                                               *)

End(o, state) == [o EXCEPT !.state = state, !.ended = today]

\* A failure proven to come before the broadcast gives the reservation back.
KeptOnFailure(o) == [End(o, "failed") EXCEPT !.lease = "none"]
NotHeld(o) == [KeptOnFailure(o) EXCEPT !.active = FALSE]
GivenBack(o) == NotHeld(o)

ReleaseAlways(o) == TRUE
ReleaseWhenReserved(o) == o.state = "reserved" /\ o.active
ReleasesOnFailure(o) == ReleaseWhenReserved(o)
AfterFailure(o) == IF ReleasesOnFailure(o) THEN GivenBack(o) ELSE KeptOnFailure(o)

\* The amounts of the requests in R come off the counters of their days.
Released(R) == [d \in Day |-> usage[d] - Total({r \in R : op[r].day = d})]
Release(r) == usage' = Released({r})

\* A reservation of an earlier day.
UsesPriorDay(r) == op[r].state = "reserved" /\ op[r].active /\ op[r].day # today

-----------------------------------------------------------------------------
(* Maintenance: one transaction over the ledger.                           *)

IsOld(r) == op[r].state \in Ended /\ today - op[r].ended > OperationDays
IsSwept(d) == today - d > UsageDays

\* What the archive drops of an operation is kept in the model as history.
Archived(o) == [o EXCEPT !.state = "archived"]

ExpiredUnsaved(o) == o
ExpiredIsReleased(o) == GivenBack(o)
Expired(o) == ExpiredIsReleased(o)

Maintenance ==
  /\ op' = [r \in Request |-> IF UsesPriorDay(r) THEN Expired(op[r])
                              ELSE IF IsOld(r) THEN Archived(op[r]) ELSE op[r]]
  /\ usage' = [d \in Day |-> IF IsSwept(d) THEN 0
                             ELSE Released({r \in Request : UsesPriorDay(r)})[d]]

AtCapacity == Cardinality({r \in Request : InLedger(r)}) >= MaxOperations

\* maintainStateIfDueV2, where the last maintenance may be an hour ago or not, and the
\* forced maintenance of a full ledger.
MaintainIfDue == Maintenance \/ (~AtCapacity /\ UNCHANGED store)

-----------------------------------------------------------------------------
(* execute.                                                                *)

\* The caller names the policy it has reviewed, which has to be the one in force.  A
\* refusal, as of a wallet that has no network yet, changes nothing.  The policy may
\* change before the maintenance as well as after it: the two commute.
StartExecute(w, r) ==
  /\ At(w, "rest")
  /\ MaintainIfDue
  /\ worker' = [worker EXCEPT ![w] = [Resting EXCEPT !.at = "reserve", !.request = r,
                                        !.policy = version]]
  /\ UNCHANGED <<world, chain, outlived>>

ToClaim(w) == worker' = [worker EXCEPT ![w].at = "claim", ![w].policy = 0]

\* reserveOperation for a request that is in the ledger, bound to the policy of the
\* caller; a claim of one that is not reserved does nothing.
ReserveExisting(w) ==
  LET r == RequestOf(w)
  IN IF op[r].policy # worker[w].policy
     THEN UNCHANGED store /\ Rest(w)
     ELSE /\ ToClaim(w)
          /\ IF op[r].state = "reserved" /\ op[r].policy # version
             THEN op' = [op EXCEPT ![r] = GivenBack(@)] /\ Release(r)
             ELSE UNCHANGED store

AnyRequest(r) == TRUE
NotArchived(r) == op[r].state = "none"
MayBeNew(r) == NotArchived(r)

WithinEachCap(r) == Amount[r] <= cap
WithinDailyCap(r) == usage[today] + Amount[r] <= cap
FitsCap(r) == WithinDailyCap(r)

\* ... and for a new one.
ReserveNew(w) ==
  LET r == RequestOf(w)
  IN IF MayBeNew(r) /\ ~AtCapacity /\ worker[w].policy = version /\ FitsCap(r)
     THEN /\ op' = [op EXCEPT ![r].state = "reserved", ![r].active = TRUE,
                             ![r].day = today, ![r].policy = version]
          /\ usage' = [usage EXCEPT ![today] = @ + Amount[r]]
          /\ ToClaim(w)
     ELSE UNCHANGED store /\ Rest(w)

Reserve(w) ==
  /\ At(w, "reserve")
  /\ IF InLedger(RequestOf(w)) THEN ReserveExisting(w) ELSE ReserveNew(w)
  /\ UNCHANGED <<world, chain, outlived>>

\* claimReservedOperation.
AnyLease(r) == TRUE
NoLiveLease(r) == op[r].lease # "live"
MayClaim(r) == NoLiveLease(r)

Claim(w) ==
  /\ At(w, "claim")
  /\ LET r == RequestOf(w)
     IN IF UsesPriorDay(r)
        THEN op' = [op EXCEPT ![r] = Expired(@)] /\ Release(r) /\ Rest(w)
        ELSE IF op[r].state = "reserved" /\ MayClaim(r)
        THEN /\ op' = [op EXCEPT ![r].attempt = @ + 1, ![r].lease = "live"]
             /\ worker' = [worker EXCEPT ![w].at = "build", ![w].attempt = op[r].attempt + 1]
             /\ UNCHANGED usage
        ELSE UNCHANGED store /\ Rest(w)
  /\ UNCHANGED <<world, chain, outlived>>

\* markBroadcastClaim, before anything is sent: the attempt is the fence.
MayRecord(w, r) == op[r].state = "reserved" /\ op[r].attempt = worker[w].attempt

RecordBroadcast(w) ==
  /\ At(w, "build") /\ MayRecord(w, RequestOf(w))
  /\ op' = [op EXCEPT ![RequestOf(w)].state = "broadcast", ![RequestOf(w)].lease = "none",
                      ![RequestOf(w)].tx = worker[w].attempt]
  /\ Go(w, "send")
  /\ UNCHANGED <<usage, world, chain, outlived>>

\* markFailedClaim: only a reserved operation is fenced by the attempt; attempt 0 is none.
MayFail(r, attempt) ==
  \/ op[r].state = "reserved" /\ attempt \in {0, op[r].attempt}
  \/ op[r].state \in InDoubt

MarkFailed(w, attempt) ==
  LET r == RequestOf(w)
  IN /\ IF MayFail(r, attempt)
        THEN /\ op' = [op EXCEPT ![r] = AfterFailure(@)]
             /\ IF ReleasesOnFailure(op[r]) THEN Release(r) ELSE UNCHANGED usage
        ELSE UNCHANGED store
     /\ Rest(w)
     /\ UNCHANGED <<world, chain, outlived>>

\* The key, the chain or a check of the built transaction fails; or the record of it is
\* refused, which once true stays true.
MarkFailedClaim(w) == At(w, "build") /\ MarkFailed(w, worker[w].attempt)

-----------------------------------------------------------------------------
(* The chain, asked by execute and by reconcile.                           *)

Fate(r, a) == chain[r][a]

\* broadcastSignedOnceV2, after the record or, with the exact bytes, after a lookup that
\* found nothing: the transaction may reach the chain whatever the answer is.
Answers == {"accepted", "ambiguous", "lost"}
Broadcast(w, answer) ==
  /\ worker[w].at \in {"send", "lookup"}
  /\ chain' = IF answer # "lost" /\ Fate(RequestOf(w), worker[w].attempt) = "unsent"
              THEN [chain EXCEPT ![RequestOf(w)][worker[w].attempt] = "pending"] ELSE chain
  /\ Go(w, IF answer = "accepted" THEN "confirm" ELSE "unclear")
  /\ UNCHANGED <<store, world, outlived>>

LookupFails(w) ==
  /\ At(w, "lookup")
  /\ Rest(w)
  /\ UNCHANGED <<store, world, chain, outlived>>

\* The chain has answered with the outcome, which is final, and the store is told.
Learns(w, fate) ==
  worker[w].at \in {"confirm", "lookup"} /\ Fate(RequestOf(w), worker[w].attempt) = fate

MarkConfirmed(w) ==
  /\ Learns(w, "landed")
  /\ op' = IF op[RequestOf(w)].state \in InDoubt
           THEN [op EXCEPT ![RequestOf(w)] = End(@, "confirmed")] ELSE op
  /\ Rest(w)
  /\ UNCHANGED <<usage, world, chain, outlived>>

MarkReverted(w) == Learns(w, "reverted") /\ MarkFailed(w, 0)

\* The send or the confirmation is ambiguous.
MarkUnknown(w) ==
  /\ worker[w].at \in {"confirm", "unclear"}
  /\ op' = IF op[RequestOf(w)].state \in InDoubt
           THEN [op EXCEPT ![RequestOf(w)].state = "unknown"] ELSE op
  /\ Rest(w)
  /\ UNCHANGED <<usage, world, chain, outlived>>

\* reconcile, whose lookup asks for the signature that was recorded.
StartReconcile(w, r) ==
  /\ At(w, "rest") /\ op[r].state \in InDoubt
  /\ worker' = [worker EXCEPT ![w] = [Resting EXCEPT !.at = "lookup", !.request = r,
                                        !.attempt = op[r].tx]]
  /\ UNCHANGED <<store, world, chain, outlived>>

\* A transaction that was sent is executed or fails on chain; one whose blockhash
\* expires stays pending.
TransactionEnds(r, a) ==
  /\ Fate(r, a) = "pending"
  /\ \E fate \in {"landed", "reverted"} : chain' = [chain EXCEPT ![r][a] = fate]
  /\ UNCHANGED <<store, world, worker, outlived>>

-----------------------------------------------------------------------------
(* Time, the policy, and the death of the daemon.                          *)

PutPolicy(c) ==
  /\ version < MaxPolicies
  /\ version' = version + 1 /\ cap' = c
  /\ topCap' = [topCap EXCEPT ![today] = IF @ < c THEN c ELSE @]
  /\ UNCHANGED <<store, today, worker, chain, outlived>>

IsWorkingOn(w, r) ==
  /\ At(w, "build") /\ RequestOf(w) = r /\ worker[w].attempt = op[r].attempt

LeaseExpires(r) ==
  /\ op[r].lease = "live" /\ op[r].attempt < MaxAttempts
  /\ op' = [op EXCEPT ![r].lease = "expired"]
  /\ outlived' = [outlived EXCEPT ![r] = @ \/ \E w \in Worker : IsWorkingOn(w, r)]
  /\ UNCHANGED <<usage, world, worker, chain>>

DayPasses ==
  /\ today < MaxDay
  /\ today' = today + 1
  /\ topCap' = [topCap EXCEPT ![today + 1] = cap]
  /\ UNCHANGED <<store, version, cap, worker, chain, outlived>>

\* The daemon dies and starts again, with a maintenance before it serves.
Restart ==
  /\ Maintenance
  /\ worker' = [w \in Worker |-> Resting]
  /\ UNCHANGED <<world, chain, outlived>>

-----------------------------------------------------------------------------
ExecuteStep(w) ==
  \/ Reserve(w) \/ Claim(w)
  \/ RecordBroadcast(w) \/ MarkFailedClaim(w)
ChainStep(w) ==
  \/ \E answer \in Answers : Broadcast(w, answer)
  \/ LookupFails(w) \/ MarkConfirmed(w) \/ MarkReverted(w) \/ MarkUnknown(w)
Proceed(w) == ExecuteStep(w) \/ ChainStep(w)

Next ==
  \/ \E w \in Worker, r \in Request : StartExecute(w, r) \/ StartReconcile(w, r)
  \/ \E w \in Worker : Proceed(w)
  \/ \E r \in Request, a \in Attempt : TransactionEnds(r, a)
  \/ \E c \in Caps : PutPolicy(c)
  \/ \E r \in Request : LeaseExpires(r)
  \/ DayPasses \/ Restart

Spec == Init /\ [][Next]_vars

-----------------------------------------------------------------------------
Stages == {"rest", "reserve", "claim", "build", "send", "lookup",
           "confirm", "unclear"}

TypeOK ==
  /\ op \in [Request -> [state : {"none", "reserved", "archived"} \cup InDoubt \cup Ended,
                         active : BOOLEAN, day : Day, policy : 0..MaxPolicies,
                         attempt : 0..MaxAttempts, lease : {"none", "live", "expired"},
                         tx : 0..MaxAttempts, ended : Day]]
  /\ usage \in [Day -> Nat]
  /\ version \in Nat /\ cap \in Caps
  /\ today \in Day
  /\ worker \in [Worker -> [at : Stages, request : Request \cup {0}, policy : Nat,
                            attempt : 0..MaxAttempts]]
  /\ chain \in [Request -> [Attempt -> {"unsent", "pending", "landed", "reverted"}]]
  /\ topCap \in [Day -> Nat]
  /\ outlived \in [Request -> BOOLEAN]

WasSent(r) == \E a \in Attempt : Fate(r, a) # "unsent"

\* The counter of a day is what the operations reserved on that day still hold, until
\* it is swept, when none of them is reserved any more: no path of failure, expiry,
\* refusal or maintenance gives an amount back twice or keeps it for nothing
\* (releaseUsageReservationV2 and its callers).
UsageIsReserved ==
  \A d \in Day :
    LET holders == {r \in Request : op[r].active /\ op[r].day = d}
    IN \/ usage[d] = Total(holders)
       \/ IsSwept(d) /\ usage[d] = 0 /\ \A r \in holders : op[r].state # "reserved"

\* What may have reached the chain stays charged, whoever records a failure of it, and
\* when (markFailedClaim, expirePriorDayReservationV2).
SentIsReserved == \A r \in Request : WasSent(r) => op[r].active

\* On no day are requests reserved whose transactions were sent for more than the
\* largest cap in force that day (reserveOperation, over changes of the policy).
SpentWithinCap ==
  \A d \in Day : Total({r \in Request : WasSent(r) /\ op[r].day = d}) <= topCap[d]

\* A request sends one transaction, over any number of callers, expired leases,
\* restarts, replays and its archiving (claimReservedOperation, markBroadcastClaim).
OneTransaction ==
  \A r \in Request, a, b \in Attempt : Fate(r, a) # "unsent" /\ Fate(r, b) # "unsent" => a = b

\* The recorded outcome is the chain's; only where a worker was still building when its
\* lease expired may an operation be called failed that was sent (markFailedClaim does
\* not fence a broadcast operation by the attempt).
OutcomeIsTrue ==
  \A r \in Request :
    /\ op[r].state = "confirmed" => Fate(r, op[r].tx) = "landed"
    /\ op[r].state = "failed" /\ WasSent(r) => Fate(r, op[r].tx) = "reverted" \/ outlived[r]

\* The signer implements SpendingContract: what an operation has come to, of its record
\* and of what the chain knows of the transaction recorded in it.
Charge(r) ==
  IF op[r].state = "none" THEN "none"
  ELSE IF op[r].tx # 0 /\ Fate(r, op[r].tx) # "unsent" THEN Fate(r, op[r].tx)
  ELSE IF op[r].active THEN "held" ELSE "returned"

Wallet == INSTANCE SpendingContract WITH
  charge <- [r \in Request |-> Charge(r)],
  day <- [r \in Request |-> op[r].day],
  limit <- topCap

\* Whatever expires, fails, is swept or archived, and whoever else works on a request: it
\* is charged once and within the cap, and either sent or given back
\* (reserveOperation, releaseUsageReservationV2, markBroadcastClaim, maintainStateV2).
KeepsSpendingContract == Wallet!Spec
=============================================================================
