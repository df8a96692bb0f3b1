----------------------------- MODULE MCEventBus -----------------------------
(* An instance of EventBus for TLC: EventBus.cfg names its clients, its topic *)
(* and its messages.                                                          *)
EXTENDS EventBus
=============================================================================
