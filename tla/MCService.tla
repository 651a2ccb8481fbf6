------------------------------ MODULE MCService ------------------------------
(***************************************************************************)
(* Service for TLC: four requests on two io threads, of which two need a   *)
(* second client.                                                          *)
(***************************************************************************)
EXTENDS Service

CONSTANTS r1, r2, r3, r4

Four == {r1, r2, r3, r4}
Renames == {r1, r2}
SkipMetrics == {r2}
=============================================================================
