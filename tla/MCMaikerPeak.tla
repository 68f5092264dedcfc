---------------------------- MODULE MCMaikerPeak ----------------------------
(***************************************************************************)
(* Maiker with a history of the share values a user was settled at.        *)
(***************************************************************************)
EXTENDS Maiker

PerformanceOnly == {<<1, 0>>}
NoPairs == {}
FeesInX == {<<3, 0>>}
SwapOut == {<<1, 0>>}

\* peak[u]: the highest share value recorded for u's position so far.
VARIABLE peak

PeakInit == Init /\ peak = [u \in Users |-> 0]

PeakNext ==
  /\ Next
  /\ peak' = [u \in Users |->
                IF userPosition'[u].last_share_value > peak[u]
                THEN userPosition'[u].last_share_value ELSE peak[u]]

PeakSpec == PeakInit /\ [][PeakNext]_<<vars, peak>>

\* docs/PerformanceFee.md: "Fees are only charged on actual gains, not on
\* recovering previous losses".  A deposit is charged only above the peak.
NoFeeOnRecovery ==
  [][\A u \in Users :
       tokenX'[u] < tokenX[u] /\ feeShares' > feeShares
         => CurrentShareValue > peak[u]]_<<vars, peak>>
=============================================================================
