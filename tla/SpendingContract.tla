-------------------------- MODULE SpendingContract --------------------------
(***************************************************************************)
(* What the owner of a wallet relies on, without connections, leases, a    *)
(* store or its maintenance: a request is charged once, to one day, within *)
(* the largest cap of that day; what is charged is sent or given back,     *)
(* never both; and the outcome of what was sent is final.                  *)
(***************************************************************************)
EXTENDS Amounts, Integers

CONSTANTS Request, Caps, MaxDay

VARIABLES charge,   \* what became of the amount of each request
          day,      \* the day it is charged to
          today,
          limit     \* the most that may be charged to each day

spendingVars == <<charge, day, today, limit>>

Charged == {"held", "pending", "landed", "reverted"}
ChargedTo(d) == {r \in Request : charge[r] \in Charged /\ day[r] = d}

Init ==
  /\ charge = [r \in Request |-> "none"]
  /\ day = [r \in Request |-> 1]
  /\ today = 1
  /\ \E c \in Caps : limit = [d \in 1..MaxDay |-> IF d = 1 THEN c ELSE 0]

Hold(r) ==
  /\ charge[r] = "none"
  /\ Total(ChargedTo(today) \cup {r}) <= limit[today]
  /\ charge' = [charge EXCEPT ![r] = "held"]
  /\ day' = [day EXCEPT ![r] = today]
  /\ UNCHANGED <<today, limit>>

\* Any number of charges is given back at once.
GiveBack(R) ==
  /\ \A r \in R : charge[r] = "held"
  /\ charge' = [r \in Request |-> IF r \in R THEN "returned" ELSE charge[r]]
  /\ UNCHANGED <<day, today, limit>>

Send(r) ==
  /\ charge[r] = "held"
  /\ charge' = [charge EXCEPT ![r] = "pending"]
  /\ UNCHANGED <<day, today, limit>>

Conclude(r) ==
  /\ charge[r] = "pending"
  /\ \E outcome \in {"landed", "reverted"} : charge' = [charge EXCEPT ![r] = outcome]
  /\ UNCHANGED <<day, today, limit>>

\* A larger cap admits more today, a smaller one takes nothing back.
SetCap(c) ==
  /\ limit' = [limit EXCEPT ![today] = IF @ < c THEN c ELSE @]
  /\ UNCHANGED <<charge, day, today>>

NextDay(c) ==
  /\ today < MaxDay
  /\ today' = today + 1
  /\ limit' = [limit EXCEPT ![today + 1] = c]
  /\ UNCHANGED <<charge, day>>

Next ==
  \/ \E R \in SUBSET Request : GiveBack(R)
  \/ \E r \in Request : Hold(r) \/ Send(r) \/ Conclude(r)
  \/ \E c \in Caps : SetCap(c) \/ NextDay(c)

Spec == Init /\ [][Next]_spendingVars
=============================================================================
