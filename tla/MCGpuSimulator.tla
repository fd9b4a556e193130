--------------------------- MODULE MCGpuSimulator ---------------------------
(* Four calls, one of them with a payload that raises.                     *)
EXTENDS GpuSimulator

CONSTANTS i1, i2, i3, i4
=============================================================================
