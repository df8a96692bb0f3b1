---- MODULE MCPowerLoop ----
EXTENDS PowerLoop

WakeOf == [m \in Modes |-> CASE m = "short" -> 2 [] m = "long" -> 3 [] OTHER -> 0]
====
