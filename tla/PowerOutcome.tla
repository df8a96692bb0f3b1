---------------------------- MODULE PowerOutcome ----------------------------
(* What the power-off path promises, without registers, clocks or scripts:   *)
(* a shutdown is closed at most once with a verdict, the verdict does not     *)
(* change until the next boot, a "reboot" verdict is never turned into a halt *)
(* and a "forced" cut is never turned into a reboot. The power may vanish at  *)
(* any moment. PowerCut is shown to implement this.                           *)

VARIABLES stage, verdict

vars == <<stage, verdict>>

TypeOK == /\ stage \in {"up", "closing", "rebooting", "halted", "off"}
          /\ verdict \in {"none", "cut", "forced", "reboot"}

Init == stage = "up" /\ verdict = "none"

Close  == /\ stage = "up" /\ stage' = "closing"
          /\ UNCHANGED verdict

Decide == /\ stage = "closing" /\ verdict = "none"
          /\ verdict' \in {"cut", "forced", "reboot"}
          /\ UNCHANGED stage

Reboot == /\ stage \in {"up", "closing"} /\ verdict # "forced"
          /\ stage' = "rebooting"
          /\ UNCHANGED verdict

Halt   == /\ stage = "closing" /\ verdict # "reboot"
          /\ stage' = "halted"
          /\ UNCHANGED verdict

LosePower == stage' = "off" /\ verdict' = "none"

Start  == /\ stage \in {"rebooting", "halted", "off"}
          /\ stage' = "up" /\ verdict' = "none"

Next == Close \/ Decide \/ Reboot \/ Halt \/ LosePower \/ Start

Spec == Init /\ [][Next]_vars
=============================================================================
