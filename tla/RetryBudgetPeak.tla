-------------------------- MODULE RetryBudgetPeak --------------------------
(***************************************************************************)
(* The retry budget with a history variable: the highest load it has seen. *)
(* limit() follows the load, so a retry granted at a high load may outlive *)
(* it; what the code bounds at every moment is the retries in flight by    *)
(* the limit at the peak.                                                  *)
(***************************************************************************)
EXTENDS RetryBudget

VARIABLE peak   \* history: the most requests ever in flight at once

varsP == <<vars, peak>>

InitP == Init /\ peak = 0

NextP ==
    /\ Next
    /\ peak' = IF requests' > peak THEN requests' ELSE peak

SpecP == InitP /\ [][NextP]_varsP

TypeOKP == TypeOK /\ peak \in Nat

\* A failing pool is never sent more retries at once than the budget allows at
\* the highest load it was offered: however the additions, the reads of the
\* load and the refusals of concurrent tryRetry calls interleave, the retries
\* holding a reservation stay within limit() at that load
\* (internal/proxy/retrybudget.go, tryRetry).
RetriesWithinPeak == Cardinality(Holding) <= Limit(peak)

\* Why it holds: the holders and the askers as good as granted never number
\* more than L, for any L a grant could be decided by.
TicketsRation == \A L \in Nat : L >= Limit(peak) => Cardinality(Destined(L)) <= L

=============================================================================
