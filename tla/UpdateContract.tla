--------------------------- MODULE UpdateContract ---------------------------
(***************************************************************************)
(* What an update promises whoever asked for it, without engines,          *)
(* journals, participants or faults: a transaction replaces the installed  *)
(* generation by its own at most once, only while it is being decided, and *)
(* is confirmed only with the new generation installed.  It may also be    *)
(* given up, but never once it is confirmed.  Every transaction ends.      *)
(***************************************************************************)
EXTENDS Naturals

CONSTANT MaxTx   \* bound: transactions in a behaviour

VARIABLES txn, status, installed

contractVars == <<txn, status, installed>>

Closed == {"none", "committed", "rolledBack"}

Init == txn = 0 /\ status = "none" /\ installed \in {0, 1}

Begin ==
    /\ status \in Closed
    /\ txn < MaxTx
    /\ txn' = txn + 1
    /\ status' = "open"
    /\ UNCHANGED installed

Decide ==
    /\ status = "open"
    /\ status' = "deciding"
    /\ UNCHANGED <<txn, installed>>

Install ==
    /\ status = "deciding"
    /\ installed' = txn + 1
    /\ UNCHANGED <<txn, status>>

Confirm ==
    /\ status = "deciding"
    /\ installed = txn + 1
    /\ status' = "confirmed"
    /\ UNCHANGED <<txn, installed>>

Finish ==
    /\ status = "confirmed"
    /\ status' = "committed"
    /\ UNCHANGED <<txn, installed>>

GiveUp ==
    /\ status \in {"open", "deciding"}
    /\ status' = "rolledBack"
    /\ UNCHANGED <<txn, installed>>

Next == Begin \/ Decide \/ Install \/ Confirm \/ Finish \/ GiveUp

(* What may happen, and what must. *)
Safety == Init /\ [][Next]_contractVars
Spec == Safety /\ WF_contractVars(Decide \/ Confirm \/ Finish \/ GiveUp)

=============================================================================
