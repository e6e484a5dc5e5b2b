------------------------------ MODULE Amounts ------------------------------
(***************************************************************************)
(* What a set of requests holds of a wallet's money.                       *)
(***************************************************************************)
EXTENDS Naturals, FiniteSets

CONSTANT Amount   \* what each request reserves

\* The sum of the amounts of the requests in R, counted unit by unit: what the counter of a
\* day holds of them, and what is subtracted when they are released together.
Units(R) == UNION {{r} \X (1..Amount[r]) : r \in R}
Total(R) == Cardinality(Units(R))
=============================================================================
