----------------------------- MODULE MCSettings -----------------------------
(* Bounds for TLC: the two pages with the most handlers get an input less. *)
EXTENDS Settings, TLC

Inputs == [p \in DOMAIN Pages |-> IF p \in {"wireguard", "power"} THEN 2 ELSE 3]

=============================================================================
