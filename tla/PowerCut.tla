------------------------------ MODULE PowerCut ------------------------------
(***************************************************************************)
(* The power-off path of the recorder: three shell scripts and the PiSugar *)
(* UPS chip they program over I2C.                                         *)
(*                                                                         *)
(*   task/service/vrg-poweroff.sh       ExecStop of a systemd unit: decides *)
(*                                      cut or reboot, arms the cut, hands  *)
(*                                      its decision over through /run/vrg  *)
(*   tools/install/shutdown-pisugar.sh  the last thing systemd runs: carries *)
(*                                      the decision out, waits for the cut *)
(*   task/service/vrg-pisugar-cancel-powercut.sh                            *)
(*                                      boot: cancels a leftover cut        *)
(*   task/pisugar.sh                    register access used by both units  *)
(*                                                                         *)
(* One action is one I2C transaction of a script (read_register or         *)
(* write_register with its retries and its read-back) or one step of       *)
(* plain shell between two transactions. The supply changes and time       *)
(* passes between any two of them.                                         *)
(***************************************************************************)
EXTENDS Naturals

CONSTANTS
    UnitDelay,     \* seconds, POWER_CUT_DELAY_SECONDS of vrg-poweroff.sh
    HookDelay,     \* seconds, DELAY_SECONDS of shutdown-pisugar.sh
    OldDelay,      \* what the delay register holds before anything wrote it
    Margin,        \* seconds, CUT_DEADLINE_MARGIN_SECONDS
    SampleCount,   \* CHARGING_SAMPLE_COUNT
    MaxFaults,     \* bound: accesses that fail after all their retries
    NoByte         \* the empty string where a register byte is expected

VARIABLES
    plugged,       \* external power is attached
    flow,          \* charging-status bit: current flows into the battery
    cutArmed,      \* bit 5 of REG_POWER is 0
    countdown,     \* seconds until the chip cuts power, once armed
    delayReg,      \* REG_SHUTDOWN_DELAY
    cfg,           \* bits 4 and 6 of REG_POWER
    alarm,         \* the RTC alarm is enabled
    rails,         \* what the chip feeds the board
    pc,            \* where the OS is: a script step, or a state of the machine
    bootByte,      \* /run/vrg/pisugar-power-byte
    handoff,       \* /run/vrg/pisugar-poweroff
    unit,          \* shell variables of vrg-poweroff.sh
    hook,          \* shell variables of shutdown-pisugar.sh
    waitLeft,      \* seconds to the deadline of wait_for_cut
    marker,        \* the power plugin's force-powercut file
    reason,        \* why the machine is going down
    faults         \* accesses that may still fail

supply  == <<plugged, flow>>
power   == <<cutArmed, countdown, cfg>>      \* REG_POWER and its countdown
chip    == <<power, delayReg, alarm, rails>>
runDir  == <<bootByte, handoff>>
plugin  == <<marker, reason>>
vars    == <<supply, chip, pc, runDir, unit, hook, waitLeft, plugin, faults>>

-----------------------------------------------------------------------------
(* Values                                                                  *)

Cfg   == [wake : BOOLEAN, charge : BOOLEAN]
Byte  == [flow : BOOLEAN, cfg : Cfg]     \* REG_POWER with the cut bit cleared
Bytes == Byte \cup {NoByte}

BootSteps == {"boot_flags", "boot_cancel", "boot_charging", "boot_wakeup", "boot_publish"}
UnitSteps == {"unit_byte", "unit_charging", "unit_alarm", "unit_decide",
              "arm_read", "arm_delay", "arm_write", "unit_publish"}
HookSteps == {"hook_load", "hook_sample", "hook_decide", "hook_undo", "hook_delay",
              "hook_arm", "hook_wait", "hook_cancel"}
Steps == BootSteps \cup UnitSteps \cup HookSteps
             \cup {"plugin_start", "plugin_wakeup", "running", "rebooting", "halted", "off"}

\* The values shutdown-pisugar.sh starts from when there is no state file.
NoHandoff == [decision |-> "unknown", byte |-> NoByte, charging |-> FALSE,
              alarm |-> FALSE, armed |-> FALSE, force |-> FALSE]
Handoffs  == [decision : {"unknown", "reboot", "powercut"}, byte : Bytes,
              charging : BOOLEAN, alarm : BOOLEAN, armed : BOOLEAN, force : BOOLEAN]

NoUnit == [mode |-> "unknown", byte |-> NoByte, charging |-> FALSE,
           alarm |-> FALSE, force |-> FALSE, target |-> NoByte, armed |-> FALSE]
Units  == [mode : {"poweroff", "unknown"}, byte : Bytes, charging : BOOLEAN,
           alarm : BOOLEAN, force : BOOLEAN, target : Bytes, armed : BOOLEAN]

NoHook == [byte |-> NoByte, charging |-> FALSE, left |-> 0]
Hooks  == [byte : Bytes, charging : BOOLEAN, left : 0..SampleCount]

ASSUME ConstantsOK ==
    /\ {UnitDelay, HookDelay, OldDelay, Margin, MaxFaults} \subseteq Nat
    /\ SampleCount \in Nat \ {0}
    /\ NoByte \notin Byte

TypeOK ==
    /\ plugged \in BOOLEAN /\ flow \in BOOLEAN
    /\ cutArmed \in BOOLEAN /\ countdown \in Nat /\ cfg \in Cfg
    /\ delayReg \in Nat /\ alarm \in BOOLEAN /\ rails \in {"live", "cut", "dark"}
    /\ pc \in Steps
    /\ bootByte \in Bytes /\ handoff \in Handoffs
    /\ unit \in Units /\ hook \in Hooks /\ waitLeft \in Nat
    /\ marker \in {"none", "fresh", "stale"}
    /\ reason \in {"none", "power_loss", "beacon", "manual"}
    /\ faults \in 0..MaxFaults

-----------------------------------------------------------------------------
(* Register access                                                         *)

RegByte == [flow |-> flow, cfg |-> cfg]

Fault == faults > 0 /\ faults' = faults - 1

\* read_register: the byte, or nothing once five attempts have failed.
Read(v) == \/ v = RegByte /\ UNCHANGED faults
           \/ v = NoByte /\ Fault

\* What the register holds after `byte` was written with the cut bit set to arm.
\* Arming an armed chip may or may not restart its countdown.
Store(arm, byte) ==
    /\ cutArmed' = arm
    /\ cfg' = byte.cfg
    /\ countdown' \in IF ~arm THEN {0}
                      ELSE IF cutArmed THEN {countdown, delayReg} ELSE {delayReg}

\* write_register on REG_POWER. The read-back compares the whole byte, and bit 7
\* of what is read is the charging status of the moment, not what was written: a
\* write that took effect is reported as failed when the status has changed since
\* the byte was read. A failing bus loses the write or only its read-back.
Write(arm, byte, verified) ==
    \/ /\ Store(arm, byte)
       /\ \/ verified = (byte.flow = flow) /\ UNCHANGED faults
          \/ verified = FALSE /\ Fault
    \/ verified = FALSE /\ Fault /\ UNCHANGED power

\* write_register on REG_SHUTDOWN_DELAY; no caller stops when it fails.
WriteDelay(d) ==
    \/ delayReg' = d /\ UNCHANGED faults
    \/ UNCHANGED delayReg /\ Fault

Goto(from, to) == pc = from /\ pc' = to

-----------------------------------------------------------------------------
(* Boot: vrg-pisugar-cancel-powercut.sh, then the power plugin              *)

\* write_register_bit: the register is read, one bit changed, and written back.
SetBits(arm, newCfg) ==
    \/ Store(arm, [RegByte EXCEPT !.cfg = newCfg]) /\ UNCHANGED faults
    \/ Fault /\ UNCHANGED power

\* A new boot: /run is an empty tmpfs, the shell variables are gone.
PowerUp ==
    /\ pc' = "boot_flags" /\ rails' = "live"
    /\ bootByte' = NoByte /\ handoff' = NoHandoff
    /\ unit' = NoUnit /\ hook' = NoHook /\ waitLeft' = 0
    /\ reason' = "none"

BootFlags ==
    /\ pc = "boot_flags"
    /\ \E v \in {RegByte, NoByte} :
          /\ Read(v)
          /\ pc' = IF v = NoByte THEN "plugin_start" ELSE "boot_cancel"
    /\ UNCHANGED <<supply, chip, runDir, unit, hook, waitLeft, plugin>>

\* The three corrections act on the flags read by BootFlags; nothing else writes
\* REG_POWER before basic.target, so those are the bits the register still has.
BootStep(from, to, needed, arm, newCfg) ==
    /\ Goto(from, to)
    /\ IF needed THEN SetBits(arm, newCfg) ELSE UNCHANGED <<power, faults>>
    /\ UNCHANGED <<supply, delayReg, alarm, rails, runDir, unit, hook, waitLeft, plugin>>

\* Mutant: the bit is taken for active-high.
BootCancel_Inverted == BootStep("boot_cancel", "boot_charging", ~cutArmed, FALSE, cfg)

BootCancel   == BootStep("boot_cancel", "boot_charging", cutArmed, FALSE, cfg)
BootCharging == BootStep("boot_charging", "boot_wakeup", ~cfg.charge, cutArmed,
                         [cfg EXCEPT !.charge = TRUE])
BootWakeup   == BootStep("boot_wakeup", "boot_publish", ~cfg.wake, cutArmed,
                         [cfg EXCEPT !.wake = TRUE])

BootPublish ==
    /\ Goto("boot_publish", "plugin_start")
    /\ \E v \in {RegByte, NoByte} : Read(v) /\ bootByte' = v
    /\ UNCHANGED <<supply, chip, handoff, unit, hook, waitLeft, plugin>>

\* PowerPlugin.start drops the marker and disables the alarm ...
PluginStart ==
    /\ Goto("plugin_start", "plugin_wakeup")
    /\ marker' = "none"
    /\ \/ alarm' = FALSE /\ UNCHANGED faults
       \/ UNCHANGED alarm /\ Fault
    /\ UNCHANGED <<supply, power, delayReg, rails, runDir, unit, hook, waitLeft, reason>>

\* ... and enables the wake on power restore.
PluginWakeup == BootStep("plugin_wakeup", "running", TRUE, cutArmed,
                         [cfg EXCEPT !.wake = TRUE])

-----------------------------------------------------------------------------
(* Requests                                                                 *)

\* delayed_shutdown of the power plugin, after its ShutdownController set the
\* alarm. A beacon shutdown first writes the marker, and goes on without it when
\* that fails.
RequestPoweroff(why) ==
    /\ Goto("running", "unit_byte")
    /\ why = "power_loss" => ~flow
    /\ why = "beacon" => flow
    /\ \/ why = "beacon" /\ marker' = "fresh" /\ UNCHANGED faults
       \/ why = "beacon" /\ UNCHANGED marker /\ Fault
       \/ why # "beacon" /\ UNCHANGED <<marker, faults>>
    /\ alarm' \in BOOLEAN
    /\ reason' = why
    /\ UNCHANGED <<supply, power, delayReg, rails, runDir, unit, hook, waitLeft>>

UpSteps == {"plugin_start", "plugin_wakeup", "running"}

\* `poweroff -f`, or a shutdown that never stops the unit: the hook runs alone.
PoweroffWithoutUnit ==
    /\ pc \in UpSteps /\ pc' = "hook_load"
    /\ reason' = "manual"
    /\ UNCHANGED <<supply, chip, runDir, unit, hook, waitLeft, marker, faults>>

\* A reboot request, for which the unit and the hook both do nothing, or a reset.
Restart ==
    /\ pc \in UpSteps /\ pc' = "rebooting"
    /\ UNCHANGED <<supply, chip, runDir, unit, hook, waitLeft, plugin, faults>>

BootAgain ==
    /\ pc = "rebooting" /\ PowerUp
    /\ UNCHANGED <<supply, power, delayReg, alarm, marker, faults>>

-----------------------------------------------------------------------------
(* vrg-poweroff.sh                                                          *)

\* get_shutdown_mode may be unable to tell; get_powercut_byte is read next.
UnitByte ==
    /\ pc = "unit_byte"
    /\ \E m \in {"poweroff", "unknown"}, v \in {RegByte, NoByte} :
          /\ Read(v)
          /\ IF v = NoByte
             THEN pc' = "hook_load" /\ UNCHANGED unit
             ELSE /\ pc' = "unit_charging"
                  /\ unit' = [NoUnit EXCEPT !.mode = m, !.byte = v]
    /\ UNCHANGED <<supply, chip, runDir, hook, waitLeft, plugin>>

UnitCharging ==
    /\ Goto("unit_charging", "unit_alarm")
    /\ \E v \in {RegByte, NoByte} :
          /\ Read(v)
          /\ unit' = [unit EXCEPT !.charging = (v # NoByte) /\ flow]
    /\ UNCHANGED <<supply, chip, runDir, hook, waitLeft, plugin>>

\* is_alarm_in_future: the time the chip reports is the next occurrence of a
\* daily alarm, so an enabled alarm is always ahead. Unreadable means "no".
UnitAlarm ==
    /\ Goto("unit_alarm", "unit_decide")
    /\ \/ unit' = [unit EXCEPT !.alarm = alarm] /\ UNCHANGED faults
       \/ unit' = [unit EXCEPT !.alarm = FALSE] /\ Fault
    /\ UNCHANGED <<supply, chip, runDir, hook, waitLeft, plugin>>

\* write_state, without the time stamp, which Deadline stands for.
State(decision, force) ==
    [decision |-> decision, byte |-> unit.byte, charging |-> unit.charging,
     alarm |-> unit.alarm, armed |-> unit.armed, force |-> force]

\* Mutant: the marker is not looked at.
StayOnline_IgnoresForce(charging, alarmAhead, force) == charging /\ alarmAhead

\* On external power with an alarm ahead a poweroff becomes a reboot, unless the
\* marker is fresh.
StayOnline(charging, alarmAhead, force) == ~force /\ charging /\ alarmAhead

UnitDecide ==
    /\ pc = "unit_decide"
    /\ LET force == marker = "fresh"
           stay  == StayOnline(unit.charging, unit.alarm, force)
       IN IF unit.mode = "poweroff" /\ ~stay
          THEN /\ pc' = "arm_read"
               /\ unit' = [unit EXCEPT !.force = force]
               /\ UNCHANGED handoff
          ELSE /\ pc' = "hook_load"
               /\ handoff' = State(IF unit.mode = "poweroff" THEN "reboot" ELSE "unknown",
                                   force)
               /\ unit' = NoUnit
    /\ UNCHANGED <<supply, chip, bootByte, hook, waitLeft, plugin, faults>>

\* arm_powercut: read, set the delay, write, and believe the read-back.
ArmRead ==
    /\ pc = "arm_read"
    /\ \E v \in {RegByte, NoByte} :
          /\ Read(v)
          /\ pc' = IF v = NoByte THEN "unit_publish" ELSE "arm_delay"
          /\ unit' = [unit EXCEPT !.target = v]
    /\ UNCHANGED <<supply, chip, runDir, hook, waitLeft, plugin>>

ArmDelay ==
    /\ Goto("arm_delay", "arm_write")
    /\ WriteDelay(UnitDelay)
    /\ UNCHANGED <<supply, power, alarm, rails, runDir, unit, hook, waitLeft, plugin>>

ArmWrite ==
    /\ Goto("arm_write", "unit_publish")
    /\ \E ok \in BOOLEAN :
          /\ Write(TRUE, unit.target, ok)
          /\ unit' = [unit EXCEPT !.armed = ok]
    /\ UNCHANGED <<supply, delayReg, alarm, rails, runDir, hook, waitLeft, plugin>>

\* Mutant: nothing is added to the countdown.
Deadline_NoMargin(delay) == delay

\* Seconds from the arming to the deadline of wait_for_cut.
Deadline(delay) == delay + Margin

UnitPublish ==
    /\ Goto("unit_publish", "hook_load")
    /\ handoff' = State("powercut", unit.force)
    /\ waitLeft' = IF unit.armed THEN Deadline(UnitDelay) ELSE 0
    /\ unit' = NoUnit
    /\ UNCHANGED <<supply, chip, bootByte, hook, plugin, faults>>

\* TimeoutStopSec=20 expires: systemd kills the script where it is.
UnitKilled ==
    /\ pc \in UnitSteps /\ pc' = "hook_load"
    /\ unit' = NoUnit
    /\ UNCHANGED <<supply, chip, runDir, hook, waitLeft, plugin, faults>>

-----------------------------------------------------------------------------
(* shutdown-pisugar.sh                                                      *)

HookLoad ==
    /\ Goto("hook_load", "hook_sample")
    /\ hook' = [byte |-> IF handoff.byte = NoByte THEN bootByte ELSE handoff.byte,
                charging |-> handoff.charging, left |-> SampleCount]
    /\ UNCHANGED <<supply, chip, runDir, unit, waitLeft, plugin, faults>>

\* Mutant: the last sample decides.
Sampled_LastOne(v) == v # NoByte /\ flow

\* Charging seen by one sample: a later one cannot take it back.
Sampled(v) == hook.charging \/ (v # NoByte /\ flow)

\* The byte to write back is the last one that was read.
Newest(v) == IF v = NoByte THEN hook.byte ELSE v

HookSample ==
    /\ pc = "hook_sample" /\ hook.left > 0
    /\ \E v \in {RegByte, NoByte} :
          /\ Read(v)
          /\ hook' = [byte |-> Newest(v),
                      charging |-> Sampled(v), left |-> hook.left - 1]
          /\ pc' = IF (v # NoByte /\ flow) \/ hook.left = 1
                   THEN "hook_decide" ELSE "hook_sample"
    /\ UNCHANGED <<supply, chip, runDir, unit, waitLeft, plugin>>

\* Mutant: the hook returns once the cut is armed, as it once did.
AfterArming_NoWait == "halted"

\* wait_for_cut does not wait for a cut decided on external power or forced.
AfterArming == IF handoff.charging \/ handoff.force THEN "halted" ELSE "hook_wait"

HookDecide ==
    /\ pc = "hook_decide"
    /\ pc' = IF StayOnline(hook.charging, handoff.alarm, handoff.force)
             THEN IF handoff.armed /\ hook.byte # NoByte THEN "hook_undo" ELSE "rebooting"
             ELSE IF handoff.armed THEN AfterArming
             ELSE IF hook.byte = NoByte THEN "halted" ELSE "hook_delay"
    /\ UNCHANGED <<supply, chip, runDir, unit, hook, waitLeft, plugin, faults>>

\* Mutant: the byte is written without the bit that cancels the cut.
RebootUndoing_Rearms(from) ==
    /\ Goto(from, "rebooting")
    /\ \E ok \in BOOLEAN : Write(TRUE, hook.byte, ok)
    /\ UNCHANGED <<supply, delayReg, alarm, rails, runDir, unit, hook, waitLeft, plugin>>

\* Both `reboot -f` paths write the cut bit back and ignore the outcome.
RebootUndoing(from) ==
    /\ Goto(from, "rebooting")
    /\ \E ok \in BOOLEAN : Write(FALSE, hook.byte, ok)
    /\ UNCHANGED <<supply, delayReg, alarm, rails, runDir, unit, hook, waitLeft, plugin>>

HookUndo   == RebootUndoing("hook_undo")
HookCancel == RebootUndoing("hook_cancel")

HookDelayWrite ==
    /\ Goto("hook_delay", "hook_arm")
    /\ WriteDelay(HookDelay)
    /\ UNCHANGED <<supply, power, alarm, rails, runDir, unit, hook, waitLeft, plugin>>

\* The fallback arming: `write_register ... || exit 0`.
HookArm ==
    /\ pc = "hook_arm"
    /\ \E ok \in BOOLEAN :
          /\ Write(TRUE, hook.byte, ok)
          /\ pc' = IF ok THEN AfterArming ELSE "halted"
          /\ waitLeft' = IF pc' = "hook_wait" THEN Deadline(HookDelay) ELSE 0
    /\ UNCHANGED <<supply, delayReg, alarm, rails, runDir, unit, hook, plugin>>

\* A poll that reads no charging, or nothing, just polls again.
PollSeesPower ==
    /\ Goto("hook_wait", "hook_cancel")
    /\ waitLeft > 0 /\ flow
    /\ hook' = [hook EXCEPT !.byte = RegByte]
    /\ UNCHANGED <<supply, chip, runDir, unit, waitLeft, plugin, faults>>

\* Mutant: only returning power ends the wait.
DeadlinePasses_Dropped == FALSE

DeadlinePasses ==
    /\ Goto("hook_wait", "hook_cancel")
    /\ waitLeft = 0
    /\ UNCHANGED <<supply, chip, runDir, unit, hook, waitLeft, plugin, faults>>

-----------------------------------------------------------------------------
(* The supply, the clock and the chip                                       *)

\* Attaching power wakes a board that was cut while it was detached.
PlugIn ==
    /\ ~plugged /\ plugged' = TRUE
    /\ flow' \in BOOLEAN
    /\ IF rails = "cut" /\ cfg.wake
       THEN PowerUp
       ELSE UNCHANGED <<rails, pc, runDir, unit, hook, waitLeft, reason>>
    /\ UNCHANGED <<power, delayReg, alarm, marker, faults>>

Unplug ==
    /\ plugged /\ plugged' = FALSE /\ flow' = FALSE
    /\ UNCHANGED <<chip, pc, runDir, unit, hook, waitLeft, plugin, faults>>

\* The charger idles or resumes with the plug in.
ChargerIdles ==
    /\ plugged /\ flow' = ~flow
    /\ UNCHANGED <<plugged, chip, pc, runDir, unit, hook, waitLeft, plugin, faults>>

MarkerAges ==
    /\ marker = "fresh" /\ marker' = "stale"
    /\ UNCHANGED <<supply, chip, pc, runDir, unit, hook, waitLeft, reason, faults>>

CutDue == rails = "live" /\ cutArmed /\ countdown = 0

Minus1(n) == IF n = 0 THEN 0 ELSE n - 1

\* A second. On battery the chip does not let the due moment pass.
Tick ==
    /\ rails = "live"
    /\ ~(CutDue /\ ~plugged)
    /\ (cutArmed /\ countdown > 0) \/ waitLeft > 0
    /\ countdown' = IF cutArmed THEN Minus1(countdown) ELSE 0
    /\ waitLeft' = Minus1(waitLeft)
    /\ UNCHANGED <<supply, cutArmed, cfg, delayReg, alarm, rails, pc, runDir, unit,
                   hook, plugin, faults>>

\* With external power present the cut may fail to happen; when it does happen it
\* leaves a state that neither the alarm nor the power-restore wake ends.
CutFires ==
    /\ CutDue
    /\ rails' = IF plugged THEN "dark" ELSE "cut"
    /\ pc' = "off"
    /\ cutArmed' = FALSE /\ UNCHANGED <<countdown, cfg>>
    /\ unit' = NoUnit /\ hook' = NoHook /\ waitLeft' = 0
    /\ bootByte' = NoByte /\ handoff' = NoHandoff
    /\ UNCHANGED <<supply, delayReg, alarm, plugin, faults>>

AlarmRings ==
    /\ rails = "cut" /\ alarm /\ PowerUp
    /\ UNCHANGED <<supply, power, delayReg, alarm, marker, faults>>

\* Somebody power-cycles a cut or dark board, or one that stays halted.
HandStart ==
    /\ pc = "off" \/ (pc = "halted" /\ (cutArmed => plugged))
    /\ PowerUp
    /\ UNCHANGED <<supply, power, delayReg, alarm, marker, faults>>

-----------------------------------------------------------------------------
Init ==
    /\ plugged \in BOOLEAN /\ flow \in BOOLEAN /\ (flow => plugged)
    /\ cutArmed = FALSE /\ countdown = 0 /\ delayReg = OldDelay
    /\ cfg \in Cfg /\ alarm \in BOOLEAN /\ rails = "live"
    /\ pc = "boot_flags"
    /\ bootByte = NoByte /\ handoff = NoHandoff
    /\ unit = NoUnit /\ hook = NoHook /\ waitLeft = 0
    /\ marker = "none" /\ reason = "none"
    /\ faults = MaxFaults

Boot == BootFlags \/ BootCancel \/ BootCharging \/ BootWakeup \/ BootPublish
            \/ PluginStart \/ PluginWakeup
Unit == UnitByte \/ UnitCharging \/ UnitAlarm \/ UnitDecide
            \/ ArmRead \/ ArmDelay \/ ArmWrite \/ UnitPublish
Hook == HookLoad \/ HookSample \/ HookDecide \/ HookUndo \/ HookDelayWrite \/ HookArm
            \/ PollSeesPower \/ DeadlinePasses \/ HookCancel
Request == PoweroffWithoutUnit \/ Restart
               \/ \E why \in {"power_loss", "beacon", "manual"} : RequestPoweroff(why)
Environment == PlugIn \/ Unplug \/ ChargerIdles \/ MarkerAges \/ UnitKilled
                   \/ AlarmRings \/ HandStart

Next == Boot \/ Unit \/ Hook \/ Request \/ BootAgain \/ Tick \/ CutFires \/ Environment

Spec == Init /\ [][Next]_vars

\* The scripts run to their end, time passes (strongly: the supply cannot change
\* for ever within one second) and, on battery, the due cut comes.
Fairness ==
    /\ WF_vars(Boot) /\ WF_vars(Unit) /\ WF_vars(Hook) /\ WF_vars(BootAgain)
    /\ SF_vars(Tick) /\ WF_vars(CutFires /\ ~plugged)

FairSpec == Spec /\ Fairness

-----------------------------------------------------------------------------
(* Properties                                                               *)

\* The contract: see PowerOutcome. The stage is read off the program counter,
\* the verdict off the state file.
Stage == IF pc \in UnitSteps \cup HookSteps THEN "closing"
         ELSE IF pc \in {"rebooting", "halted", "off"} THEN pc ELSE "up"
Verdict == IF handoff.decision = "reboot" THEN "reboot"
           ELSE IF handoff.force THEN "forced"
           ELSE IF handoff.decision = "powercut" THEN "cut" ELSE "none"
Outcome == INSTANCE PowerOutcome WITH stage <- Stage, verdict <- Verdict
OutcomeSpec == Outcome!Spec

\* "Withdrawing a decision is worse than making the wrong one": once the unit
\* has decided to reboot, the hook neither arms a cut nor waits for one nor
\* halts, whatever its samples say (shutdown-pisugar.sh, sampling loop).
RebootDecisionFinal ==
    handoff.decision = "reboot" =>
        pc \notin {"hook_undo", "hook_delay", "hook_arm", "hook_wait", "hook_cancel", "halted"}

\* A forced (beacon) cut that the unit recorded is never turned into a reboot:
\* only the alarm may bring the recorder back (shutdown-pisugar.sh, reboot branch).
ForcedCutNeverReboots ==
    handoff.force => pc \notin {"hook_undo", "hook_cancel", "rebooting"}

\* A cut that was armed and verified on battery never ends in a halted machine
\* with live rails: the hook stays up until the cut, or reboots.
VerifiedCutNeverStrands ==
    pc = "halted" /\ handoff.armed => handoff.charging \/ handoff.force

\* The board never reboots under a pending cut unless a bus access failed or the
\* unit reported its arming as failed (see RebootCancelsCut for the latter).
RebootUndoesVerifiedCut ==
    pc = "rebooting" /\ cutArmed =>
        \/ faults < MaxFaults
        \/ handoff.decision = "powercut" /\ ~handoff.armed

\* "Never derive a value from a failed read" (pisugar.sh, I2C ACCESS): wherever a
\* script is about to write REG_POWER, the byte it holds was read from it.
WritesOnlyReadBytes ==
    /\ pc \in {"arm_delay", "arm_write"} => unit.target \in Byte
    /\ pc \in {"hook_undo", "hook_delay", "hook_arm", "hook_wait", "hook_cancel"} =>
          hook.byte \in Byte

\* After the boot script ran on a working bus no cut is pending, whatever the
\* last shutdown left behind, so the services never run under a countdown.
BootClearsCut == pc \in UpSteps /\ cutArmed => faults < MaxFaults

\* What makes the invariants above inductive: which parts of the hand-over are
\* settled at which step. Proved in PowerCutProofs.
HandoverOK ==
    /\ pc \notin HookSteps \cup {"rebooting", "halted"} => handoff = NoHandoff
    /\ pc \in UnitSteps \ {"unit_byte"} => unit.byte \in Byte
    /\ pc \in {"unit_charging", "unit_alarm", "unit_decide"} => ~unit.armed
    /\ handoff.armed => handoff.byte \in Byte
    /\ handoff.decision = "reboot" =>
          /\ handoff.charging /\ handoff.alarm /\ ~handoff.force /\ ~handoff.armed
          /\ pc \in {"hook_load", "hook_sample", "hook_decide", "rebooting"}
    /\ pc \in {"hook_sample", "hook_decide"} =>
          /\ handoff.charging => hook.charging
          /\ handoff.armed => hook.byte \in Byte
    /\ pc \in {"hook_delay", "hook_arm"} => ~handoff.armed
    /\ handoff.force => pc \in {"hook_load", "hook_sample", "hook_decide", "hook_delay",
                                "hook_arm", "halted"}
    /\ VerifiedCutNeverStrands

\* Every poweroff that reached the scripts ends: cut, reboot or halt.
ShutdownEnds ==
    pc \in UnitSteps \cup HookSteps ~> pc \in {"rebooting", "halted", "off"}

\* With a working bus, a poweroff during which no power ever comes back takes
\* the power away (it neither halts nor reboots).
BatteryPoweroffCuts ==
    (pc = "unit_byte" /\ [](~plugged /\ faults = MaxFaults)) ~> pc = "off"

\* shutdown-pisugar.sh:176: a cut "armed before the power appeared" is undone
\* before `reboot -f`, "or the PiSugar will pull power in the middle of the reboot".
RebootCancelsCut == ~(pc = "rebooting" /\ cutArmed)

=============================================================================
