---------------------------- MODULE LaneContract ----------------------------
(***************************************************************************)
(* What the callers of the command lanes rely on, without pumps, call      *)
(* stacks, marks, generations or task ids: the commands of a lane start in *)
(* the order of their arrival, no more at a time than the lane allows, and *)
(* each is settled once.  Only a restart leaves running commands behind.   *)
(***************************************************************************)
EXTENDS Integers, Sequences, FiniteSets

CONSTANTS Lane, Entry, LaneOf, MaxLimit

VARIABLES line,      \* the commands of a lane that wait, in the order of their arrival
          running,   \* those a lane executes
          left,      \* those still executing that a restart has left behind
          settled,
          allowed,   \* how many a lane may execute at a time
          open       \* commands are accepted

contractVars == <<line, running, left, settled, allowed, open>>

InLine(l) == {line[l][i] : i \in 1..Len(line[l])}

Init ==
  /\ line = [l \in Lane |-> <<>>]
  /\ running = [l \in Lane |-> {}]
  /\ left = {}
  /\ settled = {}
  /\ allowed = [l \in Lane |-> 1]
  /\ open = TRUE

IsNew(e) ==
  LET l == LaneOf[e] IN e \notin InLine(l) \cup running[l] \cup left \cup settled

Arrive(e) ==
  /\ IsNew(e) /\ open
  /\ line' = [line EXCEPT ![LaneOf[e]] = Append(@, e)]
  /\ UNCHANGED <<running, left, settled, allowed, open>>

Refuse(e) ==
  /\ IsNew(e) /\ ~open
  /\ settled' = settled \cup {e}
  /\ UNCHANGED <<line, running, left, allowed, open>>

Start(l) ==
  /\ line[l] # <<>> /\ Cardinality(running[l]) < allowed[l]
  /\ line' = [line EXCEPT ![l] = Tail(@)]
  /\ running' = [running EXCEPT ![l] = @ \cup {Head(line[l])}]
  /\ UNCHANGED <<left, settled, allowed, open>>

Settle(e) ==
  /\ \/ /\ e \in running[LaneOf[e]]
        /\ running' = [running EXCEPT ![LaneOf[e]] = @ \ {e}]
        /\ UNCHANGED left
     \/ /\ e \in left
        /\ left' = left \ {e}
        /\ UNCHANGED running
  /\ settled' = settled \cup {e}
  /\ UNCHANGED <<line, allowed, open>>

Clear(l) ==
  /\ line' = [line EXCEPT ![l] = <<>>]
  /\ settled' = settled \cup InLine(l)
  /\ UNCHANGED <<running, left, allowed, open>>

\* A smaller allowance stops nothing that runs.
Allow(l, n) ==
  /\ allowed' = [allowed EXCEPT ![l] = n]
  /\ UNCHANGED <<line, running, left, settled, open>>

Close ==
  /\ open' = FALSE
  /\ UNCHANGED <<line, running, left, settled, allowed>>

\* The commands in line survive a restart.
Reopen ==
  /\ ~open
  /\ open' = TRUE
  /\ left' = left \cup UNION {running[l] : l \in Lane}
  /\ running' = [l \in Lane |-> {}]
  /\ UNCHANGED <<line, settled, allowed>>

Next ==
  \/ \E e \in Entry : Arrive(e) \/ Refuse(e) \/ Settle(e)
  \/ \E l \in Lane : Start(l) \/ Clear(l) \/ \E n \in 1..MaxLimit : Allow(l, n)
  \/ Close \/ Reopen

Spec == Init /\ [][Next]_contractVars
=============================================================================
