------------------------------ MODULE MCIomem ------------------------------
(* Instances of Iomem for TLC. *)
EXTENDS Iomem

CONSTANTS c0, c1
=============================================================================
