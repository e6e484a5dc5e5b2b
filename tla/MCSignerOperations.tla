------------------------- MODULE MCSignerOperations -------------------------
\* Requests of the same amount, of which the larger cap admits one and the smaller none, and
\* connections that are alike.
EXTENDS SignerOperations, Functions, TLC
CONSTANTS r1, r2
MCAmount == [r \in {r1, r2} |-> 2]
Symmetry == Permutations(Worker) \cup Permutations(Request)

\* Counting units is summing amounts.
ASSUME TotalIsTheSum ==
  \A R \in SUBSET Request : Total(R) = SumFunctionOnSet(Amount, R)
=============================================================================
