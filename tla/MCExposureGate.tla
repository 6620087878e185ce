--------------------------- MODULE MCExposureGate ---------------------------
(* Instance of ExposureGate for TLC: orders of 1 and 2 units against a cap of *)
(* 2, so that each fits alone and they exclude each other.                    *)
EXTENDS ExposureGate, TLC

CONSTANTS o1, o2

TwoOrders == {o1, o2}
TwoVolumes == (o1 :> 1) @@ (o2 :> 2)
=============================================================================
