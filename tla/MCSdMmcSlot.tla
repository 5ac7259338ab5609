---------------------------- MODULE MCSdMmcSlot ----------------------------
(* Model checking of SdMmcSlot: two controllers, one SD card and two MMCs. *)
EXTENDS SdMmcSlot

CONSTANTS h1, h2, s1, m1, m2

MCHosts == {h1, h2}
MCSdCards == {s1}
MCMmcCards == {m1, m2}
AtCallback == {"CALLBACK"}
AtApplication == {"APPLICATION"}
=============================================================================
