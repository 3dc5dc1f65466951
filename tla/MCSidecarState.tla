---------------------------- MODULE MCSidecarState -----------------------------
(* Small instances of SidecarState for TLC.                                *)
EXTENDS SidecarState, TLC
CONSTANTS s1, g1, g2
================================================================================
