----------------------------- MODULE MCPowerCut -----------------------------
(* Instances of PowerCut for TLC. Delays are scaled down: what matters is    *)
(* their order (the unit's is shorter than the hook's, the margin positive). *)
EXTENDS PowerCut
=============================================================================
