--------------------------- MODULE MCMmcTransfer ---------------------------
(* Model checking of MmcTransfer: requests of up to two transfers.         *)
EXTENDS MmcTransfer

MCLbas == {0, 4}
=============================================================================
