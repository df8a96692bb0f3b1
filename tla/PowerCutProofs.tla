--------------------------- MODULE PowerCutProofs ---------------------------
(* Proofs about PowerCut for every value of its constants: type correctness,  *)
(* the invariants of the hand-over between the three scripts, and that the    *)
(* scripts implement PowerOutcome.                                            *)
EXTENDS PowerCut, TLAPS

USE ConstantsOK

-----------------------------------------------------------------------------
(* Type correctness                                                          *)

LEMMA RegByteType == TypeOK => RegByte \in Byte
  BY DEF TypeOK, RegByte, Byte

LEMMA DefaultsTyped == NoHandoff \in Handoffs /\ NoUnit \in Units /\ NoHook \in Hooks
  BY DEF NoHandoff, Handoffs, NoUnit, Units, NoHook, Hooks, Bytes

\* One write of REG_POWER leaves a well-formed register.
LEMMA StoreType ==
  ASSUME TypeOK, NEW arm \in BOOLEAN, NEW byte \in Byte, Store(arm, byte)
  PROVE  cutArmed' \in BOOLEAN /\ countdown' \in Nat /\ cfg' \in Cfg
<1>1. cutArmed' \in BOOLEAN /\ cfg' \in Cfg
  BY DEF Store, Byte
<1>2. countdown' \in Nat
  BY DEF Store, TypeOK
<1> QED BY <1>1, <1>2

LEMMA FaultType == TypeOK /\ (Fault \/ UNCHANGED faults) => faults' \in 0..MaxFaults
  BY DEF TypeOK, Fault

LEMMA ReadType ==
  ASSUME TypeOK, NEW v \in {RegByte, NoByte}, Read(v)
  PROVE  v \in Bytes /\ faults' \in 0..MaxFaults /\ (v # NoByte => v = RegByte)
  BY RegByteType, FaultType DEF Read, Bytes

LEMMA WriteType ==
  ASSUME TypeOK, NEW arm \in BOOLEAN, NEW byte \in Byte, NEW ok, Write(arm, byte, ok)
  PROVE  /\ cutArmed' \in BOOLEAN /\ countdown' \in Nat /\ cfg' \in Cfg
         /\ faults' \in 0..MaxFaults
<1>1. CASE Store(arm, byte)
  BY <1>1, StoreType, FaultType DEF Write
<1>2. CASE UNCHANGED power
  BY <1>2, FaultType DEF Write, power, TypeOK
<1> QED BY <1>1, <1>2 DEF Write

LEMMA SetBitsType ==
  ASSUME TypeOK, NEW arm \in BOOLEAN, NEW newCfg \in Cfg, SetBits(arm, newCfg)
  PROVE  /\ cutArmed' \in BOOLEAN /\ countdown' \in Nat /\ cfg' \in Cfg
         /\ faults' \in 0..MaxFaults
<1>1. [RegByte EXCEPT !.cfg = newCfg] \in Byte
  BY RegByteType DEF Byte
<1>2. CASE Store(arm, [RegByte EXCEPT !.cfg = newCfg]) /\ UNCHANGED faults
  BY <1>1, <1>2, StoreType, FaultType
<1>3. CASE Fault /\ UNCHANGED power
  BY <1>3, FaultType DEF power, TypeOK
<1> QED BY <1>2, <1>3 DEF SetBits

\* The parts of TypeOK, so that a step need only consider what it changes.
TypeChip == /\ plugged \in BOOLEAN /\ flow \in BOOLEAN
            /\ cutArmed \in BOOLEAN /\ countdown \in Nat /\ cfg \in Cfg
            /\ delayReg \in Nat /\ alarm \in BOOLEAN /\ rails \in {"live", "cut", "dark"}
            /\ faults \in 0..MaxFaults
TypeScripts == /\ pc \in Steps
               /\ bootByte \in Bytes /\ handoff \in Handoffs
               /\ unit \in Units /\ hook \in Hooks /\ waitLeft \in Nat
               /\ marker \in {"none", "fresh", "stale"}
               /\ reason \in {"none", "power_loss", "beacon", "manual"}

LEMMA BootStepType ==
  ASSUME TypeOK, NEW from, NEW to \in Steps, NEW needed \in BOOLEAN,
         NEW arm \in BOOLEAN, NEW newCfg \in Cfg,
         BootStep(from, to, needed, arm, newCfg)
  PROVE  TypeOK'
<1>1. TypeChip'
  BY SetBitsType DEF BootStep, TypeOK, TypeChip, supply, power
<1>2. TypeScripts'
  BY DEF BootStep, TypeOK, TypeScripts, Goto, runDir, plugin
<1> QED BY <1>1, <1>2 DEF TypeOK, TypeChip, TypeScripts

LEMMA PowerUpType == TypeOK /\ PowerUp /\ UNCHANGED marker => TypeScripts' /\ rails' = "live"
  BY DefaultsTyped DEF PowerUp, TypeOK, TypeScripts, Steps, BootSteps, Bytes

LEMMA BootType == TypeOK /\ Boot => TypeOK'
<1> SUFFICES ASSUME TypeOK, Boot PROVE TypeOK'
  OBVIOUS
<1>0. /\ cfg \in Cfg /\ cutArmed \in BOOLEAN
      /\ [cfg EXCEPT !.charge = TRUE] \in Cfg /\ [cfg EXCEPT !.wake = TRUE] \in Cfg
      /\ cfg.charge \in BOOLEAN /\ cfg.wake \in BOOLEAN
  BY DEF TypeOK, Cfg
<1>s. {"boot_cancel", "boot_charging", "boot_wakeup", "boot_publish", "plugin_start",
       "plugin_wakeup", "running"} \subseteq Steps
  BY DEF Steps, BootSteps
<1>1. CASE BootFlags
  <2>1. TypeChip'
    BY <1>1, ReadType DEF BootFlags, TypeOK, TypeChip, supply, chip, power
  <2>2. TypeScripts'
    BY <1>1, <1>s DEF BootFlags, TypeOK, TypeScripts, runDir, plugin
  <2> QED BY <2>1, <2>2 DEF TypeOK, TypeChip, TypeScripts
<1>2. CASE BootCancel
  BY <1>0, <1>2, <1>s, BootStepType DEF BootCancel
<1>3. CASE BootCharging
  BY <1>0, <1>3, <1>s, BootStepType DEF BootCharging
<1>4. CASE BootWakeup
  BY <1>0, <1>4, <1>s, BootStepType DEF BootWakeup
<1>5. CASE BootPublish
  <2>1. TypeChip'
    BY <1>5, ReadType DEF BootPublish, TypeOK, TypeChip, supply, chip, power
  <2>2. TypeScripts'
    BY <1>5, <1>s, ReadType DEF BootPublish, TypeOK, TypeScripts, Goto, plugin
  <2> QED BY <2>1, <2>2 DEF TypeOK, TypeChip, TypeScripts
<1>6. CASE PluginStart
  <2>1. TypeChip'
    BY <1>6, FaultType DEF PluginStart, TypeOK, TypeChip, supply, power
  <2>2. TypeScripts'
    BY <1>6, <1>s DEF PluginStart, TypeOK, TypeScripts, Goto, runDir
  <2> QED BY <2>1, <2>2 DEF TypeOK, TypeChip, TypeScripts
<1>7. CASE PluginWakeup
  BY <1>0, <1>7, <1>s, BootStepType DEF PluginWakeup
<1> QED BY <1>1, <1>2, <1>3, <1>4, <1>5, <1>6, <1>7 DEF Boot

LEMMA UnitByteType == TypeOK /\ UnitByte => TypeOK'
<1> SUFFICES ASSUME TypeOK, UnitByte PROVE TypeOK'
  OBVIOUS
<1>1. PICK m \in {"poweroff", "unknown"}, v \in {RegByte, NoByte} :
         /\ Read(v)
         /\ IF v = NoByte
            THEN pc' = "hook_load" /\ UNCHANGED unit
            ELSE /\ pc' = "unit_charging"
                 /\ unit' = [NoUnit EXCEPT !.mode = m, !.byte = v]
  BY DEF UnitByte
<1>2. v \in Bytes /\ faults' \in 0..MaxFaults
  BY <1>1, ReadType
<1>3. unit' \in Units
  <2>1. CASE v = NoByte
    BY <2>1, <1>1 DEF TypeOK
  <2>2. CASE v # NoByte
    <3>1. unit' = [NoUnit EXCEPT !.mode = m, !.byte = v]
      BY <2>2, <1>1
    <3> QED BY <3>1, <1>2, DefaultsTyped DEF Units
  <2> QED BY <2>1, <2>2
<1>4. pc' \in Steps
  BY <1>1 DEF Steps, UnitSteps, HookSteps
<1> QED BY <1>2, <1>3, <1>4 DEF TypeOK, UnitByte, supply, chip, power, runDir, plugin

LEMMA UnitDecideType == TypeOK /\ UnitDecide => TypeOK'
<1> SUFFICES ASSUME TypeOK, UnitDecide PROVE TypeOK'
  OBVIOUS
<1> DEFINE force == marker = "fresh"
<1>1. unit.byte \in Bytes /\ {unit.charging, unit.alarm, unit.armed, force} \subseteq BOOLEAN
  BY DEF TypeOK, Units
<1>2. \A d \in {"unknown", "reboot", "powercut"} : State(d, force) \in Handoffs
  BY <1>1 DEF State, Handoffs
<1>3. unit' \in Units /\ handoff' \in Handoffs
  <2>1. CASE unit' = [unit EXCEPT !.force = force] /\ UNCHANGED handoff
    BY <2>1 DEF TypeOK, Units
  <2>2. CASE /\ unit' = NoUnit
             /\ handoff' = State(IF unit.mode = "poweroff" THEN "reboot" ELSE "unknown", force)
    BY <2>2, <1>2, DefaultsTyped
  <2> QED BY <2>1, <2>2 DEF UnitDecide
<1>4. pc' \in Steps
  BY DEF UnitDecide, Steps, UnitSteps, HookSteps
<1> QED BY <1>3, <1>4 DEF TypeOK, UnitDecide, supply, chip, power, plugin

LEMMA UnitType == TypeOK /\ WritesOnlyReadBytes /\ Unit => TypeOK'
<1> SUFFICES ASSUME TypeOK, WritesOnlyReadBytes, Unit PROVE TypeOK'
  OBVIOUS
<1>s. UnitSteps \subseteq Steps /\ HookSteps \subseteq Steps
  BY DEF Steps
<1>1. CASE UnitByte
  BY <1>1, UnitByteType
<1>2. CASE UnitCharging
  <2>1. TypeChip'
    BY <1>2, ReadType DEF UnitCharging, TypeOK, TypeChip, supply, chip, power
  <2>2. TypeScripts'
    BY <1>2, <1>s DEF UnitCharging, TypeOK, TypeScripts, Units, UnitSteps, Goto, runDir, plugin
  <2> QED BY <2>1, <2>2 DEF TypeOK, TypeChip, TypeScripts
<1>3. CASE UnitAlarm
  <2>1. TypeChip'
    BY <1>3, FaultType DEF UnitAlarm, TypeOK, TypeChip, supply, chip, power
  <2>2. TypeScripts'
    BY <1>3, <1>s DEF UnitAlarm, TypeOK, TypeScripts, Units, UnitSteps, Goto, runDir, plugin
  <2> QED BY <2>1, <2>2 DEF TypeOK, TypeChip, TypeScripts
<1>4. CASE UnitDecide
  BY <1>4, UnitDecideType
<1>5. CASE ArmRead
  <2>1. PICK v \in {RegByte, NoByte} :
           /\ Read(v)
           /\ pc' = IF v = NoByte THEN "unit_publish" ELSE "arm_delay"
           /\ unit' = [unit EXCEPT !.target = v]
    BY <1>5 DEF ArmRead
  <2>2. v \in Bytes /\ faults' \in 0..MaxFaults
    BY <2>1, ReadType
  <2>3. unit' \in Units /\ pc' \in Steps
    BY <2>1, <2>2, <1>s DEF TypeOK, Units, UnitSteps
  <2> QED BY <1>5, <2>2, <2>3 DEF ArmRead, TypeOK, supply, chip, power, runDir, plugin
<1>6. CASE ArmDelay
  <2>1. TypeChip'
    BY <1>6, FaultType DEF ArmDelay, WriteDelay, TypeOK, TypeChip, supply, power
  <2>2. TypeScripts'
    BY <1>6, <1>s DEF ArmDelay, TypeOK, TypeScripts, UnitSteps, Goto, runDir, plugin
  <2> QED BY <2>1, <2>2 DEF TypeOK, TypeChip, TypeScripts
<1>7. CASE ArmWrite
  <2>1. PICK ok \in BOOLEAN : /\ Write(TRUE, unit.target, ok)
                              /\ unit' = [unit EXCEPT !.armed = ok]
    BY <1>7 DEF ArmWrite
  <2>2. unit.target \in Byte
    BY <1>7 DEF ArmWrite, Goto, WritesOnlyReadBytes
  <2>3. /\ cutArmed' \in BOOLEAN /\ countdown' \in Nat /\ cfg' \in Cfg
        /\ faults' \in 0..MaxFaults
    BY <2>1, <2>2, WriteType
  <2>4. unit' \in Units /\ pc' \in Steps
    BY <1>7, <2>1, <1>s DEF TypeOK, Units, UnitSteps, ArmWrite, Goto
  <2> QED BY <1>7, <2>3, <2>4 DEF ArmWrite, TypeOK, supply, runDir, plugin
<1>8. CASE UnitPublish
  <2>1. unit.byte \in Bytes
        /\ {unit.charging, unit.alarm, unit.armed, unit.force} \subseteq BOOLEAN
    BY DEF TypeOK, Units
  <2>2. handoff' \in Handoffs
    BY <1>8, <2>1 DEF UnitPublish, State, Handoffs
  <2>3. waitLeft' \in Nat
    BY <1>8 DEF UnitPublish, Deadline
  <2> QED BY <1>8, <2>2, <2>3, <1>s, DefaultsTyped
          DEF UnitPublish, TypeOK, HookSteps, Goto, supply, chip, power, plugin
<1> QED BY <1>1, <1>2, <1>3, <1>4, <1>5, <1>6, <1>7, <1>8 DEF Unit

LEMMA RebootUndoingType ==
  ASSUME TypeOK, WritesOnlyReadBytes, NEW from \in {"hook_undo", "hook_cancel"},
         RebootUndoing(from)
  PROVE  TypeOK'
<1>1. PICK ok \in BOOLEAN : Write(FALSE, hook.byte, ok)
  BY DEF RebootUndoing
<1>2. hook.byte \in Byte
  BY DEF RebootUndoing, Goto, WritesOnlyReadBytes
<1>3. /\ cutArmed' \in BOOLEAN /\ countdown' \in Nat /\ cfg' \in Cfg
      /\ faults' \in 0..MaxFaults
  BY <1>1, <1>2, WriteType
<1> QED BY <1>3 DEF RebootUndoing, TypeOK, Goto, Steps, supply, runDir, plugin

LEMMA HookType == TypeOK /\ WritesOnlyReadBytes /\ Hook => TypeOK'
<1> SUFFICES ASSUME TypeOK, WritesOnlyReadBytes, Hook PROVE TypeOK'
  OBVIOUS
<1>s. /\ HookSteps \subseteq Steps
      /\ {"hook_sample", "hook_decide", "hook_undo", "hook_delay", "hook_arm", "hook_wait",
          "hook_cancel"} \subseteq HookSteps
      /\ {"halted", "rebooting"} \subseteq Steps
  BY DEF Steps, HookSteps
<1>1. CASE HookLoad
  <2>1. hook' \in Hooks
    BY <1>1 DEF HookLoad, TypeOK, Hooks, Handoffs
  <2> QED BY <1>1, <2>1, <1>s DEF HookLoad, TypeOK, Goto, supply, chip, power, runDir, plugin
<1>2. CASE HookSample
  <2>1. PICK v \in {RegByte, NoByte} :
           /\ Read(v)
           /\ hook' = [byte |-> Newest(v),
                       charging |-> Sampled(v), left |-> hook.left - 1]
           /\ pc' = IF (v # NoByte /\ flow) \/ hook.left = 1
                    THEN "hook_decide" ELSE "hook_sample"
    BY <1>2 DEF HookSample
  <2>2. v \in Bytes /\ faults' \in 0..MaxFaults
    BY <2>1, ReadType
  <2>3. Sampled(v) \in BOOLEAN
    BY DEF Sampled, TypeOK, Hooks
  <2>4. hook.left - 1 \in 0..SampleCount
    BY <1>2 DEF HookSample, TypeOK, Hooks
  <2>5. hook' \in Hooks
    BY <2>1, <2>2, <2>3, <2>4 DEF Newest, TypeOK, Hooks
  <2> QED BY <1>2, <2>1, <2>2, <2>5, <1>s
          DEF HookSample, TypeOK, supply, chip, power, runDir, plugin
<1>3. CASE HookDecide
  BY <1>3, <1>s DEF HookDecide, AfterArming, TypeOK, supply, chip, power, runDir, plugin
<1>4. CASE HookUndo
  BY <1>4, RebootUndoingType DEF HookUndo
<1>5. CASE HookDelayWrite
  BY <1>5, <1>s, FaultType DEF HookDelayWrite, WriteDelay, TypeOK, Goto, supply, power, runDir, plugin
<1>6. CASE HookArm
  <2>1. PICK ok \in BOOLEAN : /\ Write(TRUE, hook.byte, ok)
                              /\ pc' = IF ok THEN AfterArming ELSE "halted"
                              /\ waitLeft' = IF pc' = "hook_wait" THEN Deadline(HookDelay) ELSE 0
    BY <1>6 DEF HookArm
  <2>2. hook.byte \in Byte
    BY <1>6 DEF HookArm, WritesOnlyReadBytes
  <2>3. /\ cutArmed' \in BOOLEAN /\ countdown' \in Nat /\ cfg' \in Cfg
        /\ faults' \in 0..MaxFaults
    BY <2>1, <2>2, WriteType
  <2>4. pc' \in Steps /\ waitLeft' \in Nat
    BY <2>1, <1>s DEF AfterArming, Deadline
  <2> QED BY <1>6, <2>3, <2>4 DEF HookArm, TypeOK, supply, runDir, plugin
<1>7. CASE PollSeesPower
  <2>1. hook' \in Hooks
    BY <1>7, RegByteType DEF PollSeesPower, TypeOK, Hooks, Bytes
  <2> QED BY <1>7, <2>1, <1>s
          DEF PollSeesPower, TypeOK, Goto, supply, chip, power, runDir, plugin
<1>8. CASE DeadlinePasses
  BY <1>8, <1>s DEF DeadlinePasses, TypeOK, Goto, supply, chip, power, runDir, plugin
<1>9. CASE HookCancel
  BY <1>9, RebootUndoingType DEF HookCancel
<1> QED BY <1>1, <1>2, <1>3, <1>4, <1>5, <1>6, <1>7, <1>8, <1>9 DEF Hook

LEMMA RequestType == TypeOK /\ (Request \/ BootAgain) => TypeOK'
<1> SUFFICES ASSUME TypeOK, Request \/ BootAgain PROVE TypeOK'
  OBVIOUS
<1>s. {"unit_byte", "hook_load", "rebooting"} \subseteq Steps
  BY DEF Steps, UnitSteps, HookSteps
<1>1. ASSUME NEW why \in {"power_loss", "beacon", "manual"}, RequestPoweroff(why)
      PROVE  TypeOK'
  <2>1. faults' \in 0..MaxFaults
    BY <1>1, FaultType DEF RequestPoweroff
  <2> QED BY <1>1, <2>1, <1>s DEF RequestPoweroff, TypeOK, Goto, supply, power, runDir
<1>2. CASE PoweroffWithoutUnit
  BY <1>2, <1>s DEF PoweroffWithoutUnit, TypeOK, supply, chip, power, runDir
<1>3. CASE Restart
  BY <1>3, <1>s DEF Restart, TypeOK, supply, chip, power, runDir, plugin
<1>4. CASE BootAgain
  BY <1>4, PowerUpType DEF BootAgain, TypeOK, TypeScripts, supply, power
<1> QED BY <1>1, <1>2, <1>3, <1>4 DEF Request

LEMMA EnvironmentType == TypeOK /\ (Environment \/ Tick \/ CutFires) => TypeOK'
<1> SUFFICES ASSUME TypeOK, Environment \/ Tick \/ CutFires PROVE TypeOK'
  OBVIOUS
<1>1. CASE PlugIn
  <2>1. CASE PowerUp
    BY <1>1, <2>1, PowerUpType DEF PlugIn, TypeOK, TypeScripts, power
  <2>2. CASE UNCHANGED <<rails, pc, runDir, unit, hook, waitLeft, reason>>
    BY <1>1, <2>2 DEF PlugIn, TypeOK, power, runDir
  <2> QED BY <1>1, <2>1, <2>2 DEF PlugIn
<1>2. CASE Unplug
  BY <1>2 DEF Unplug, TypeOK, chip, power, runDir, plugin
<1>3. CASE ChargerIdles
  BY <1>3 DEF ChargerIdles, TypeOK, chip, power, runDir, plugin
<1>4. CASE MarkerAges
  BY <1>4 DEF MarkerAges, TypeOK, supply, chip, power, runDir
<1>5. CASE UnitKilled
  BY <1>5, DefaultsTyped DEF UnitKilled, TypeOK, Steps, HookSteps, supply, chip, power, runDir, plugin
<1>6. CASE AlarmRings
  BY <1>6, PowerUpType DEF AlarmRings, TypeOK, TypeScripts, supply, power
<1>7. CASE HandStart
  BY <1>7, PowerUpType DEF HandStart, TypeOK, TypeScripts, supply, power
<1>8. CASE Tick
  <2>1. \A n \in Nat : Minus1(n) \in Nat
    BY DEF Minus1
  <2> QED BY <1>8, <2>1 DEF Tick, TypeOK, supply, runDir, plugin
<1>9. CASE CutFires
  BY <1>9, DefaultsTyped DEF CutFires, TypeOK, Steps, Bytes, supply, plugin
<1> QED BY <1>1, <1>2, <1>3, <1>4, <1>5, <1>6, <1>7, <1>8, <1>9 DEF Environment

LEMMA TypeInductive == TypeOK /\ WritesOnlyReadBytes /\ [Next]_vars => TypeOK'
<1>1. ASSUME TypeOK, UNCHANGED vars PROVE TypeOK'
  BY <1>1 DEF TypeOK, vars, supply, chip, power, runDir, plugin
<1> QED BY <1>1, BootType, UnitType, HookType, RequestType, EnvironmentType DEF Next

-----------------------------------------------------------------------------
(* The hand-over between the scripts                                         *)

Handed == WritesOnlyReadBytes /\ HandoverOK

\* A new boot forgets the hand-over.
LEMMA PowerUpHanded == PowerUp => Handed'
  BY DEF PowerUp, Handed, WritesOnlyReadBytes, HandoverOK, VerifiedCutNeverStrands,
         HookSteps, UnitSteps, NoHandoff

\* Outside the shutdown scripts no decision is pending.
LEMMA QuietHanded ==
  ASSUME pc' \notin UnitSteps \cup HookSteps \cup {"rebooting", "halted"}, handoff' = NoHandoff
  PROVE  Handed'
  BY DEF Handed, WritesOnlyReadBytes, HandoverOK, VerifiedCutNeverStrands,
         HookSteps, UnitSteps, NoHandoff

LEMMA BootHanded == TypeOK /\ Handed /\ Boot => Handed'
<1> SUFFICES ASSUME Handed, Boot PROVE Handed'
  OBVIOUS
<1>1. /\ pc \in {"boot_flags", "boot_cancel", "boot_charging", "boot_wakeup", "boot_publish",
                 "plugin_start", "plugin_wakeup"}
      /\ pc' \in {"boot_cancel", "boot_charging", "boot_wakeup", "boot_publish",
                  "plugin_start", "plugin_wakeup", "running"}
      /\ handoff' = handoff
  BY DEF Boot, BootFlags, BootCancel, BootCharging, BootWakeup, BootPublish, PluginStart,
         PluginWakeup, BootStep, Goto, runDir
<1>2. handoff = NoHandoff
  BY <1>1 DEF Handed, HandoverOK, HookSteps
<1> QED BY <1>1, <1>2, QuietHanded DEF UnitSteps, HookSteps

LEMMA UnitHanded == TypeOK /\ Handed /\ Unit => Handed'
<1> SUFFICES ASSUME TypeOK, Handed, Unit PROVE Handed'
  OBVIOUS
<1> USE DEF Handed, WritesOnlyReadBytes, HandoverOK, VerifiedCutNeverStrands, HookSteps,
            UnitSteps, Goto, runDir
<1>0. handoff = NoHandoff /\ pc \in UnitSteps
  BY DEF Unit, UnitByte, UnitCharging, UnitAlarm, UnitDecide, ArmRead, ArmDelay, ArmWrite,
         UnitPublish
<1>n. ~NoHandoff.armed /\ ~NoHandoff.force /\ NoHandoff.decision = "unknown"
  BY DEF NoHandoff
<1>1. CASE UnitByte
  BY <1>0, <1>n, <1>1, ReadType, RegByteType DEF UnitByte, NoUnit
<1>2. CASE UnitCharging
  BY <1>0, <1>n, <1>2 DEF UnitCharging, TypeOK, Units
<1>3. CASE UnitAlarm
  BY <1>0, <1>n, <1>3 DEF UnitAlarm, TypeOK, Units
<1>4. CASE UnitDecide
  BY <1>0, <1>n, <1>4 DEF UnitDecide, StayOnline, State, TypeOK, Units, NoUnit
<1>5. CASE ArmRead
  BY <1>0, <1>n, <1>5, ReadType, RegByteType DEF ArmRead, TypeOK, Units
<1>6. CASE ArmDelay
  BY <1>0, <1>n, <1>6 DEF ArmDelay
<1>7. CASE ArmWrite
  BY <1>0, <1>n, <1>7 DEF ArmWrite, TypeOK, Units
<1>8. CASE UnitPublish
  BY <1>0, <1>n, <1>8 DEF UnitPublish, State, NoUnit
<1> QED BY <1>1, <1>2, <1>3, <1>4, <1>5, <1>6, <1>7, <1>8 DEF Unit

LEMMA HookHanded == TypeOK /\ Handed /\ Hook => Handed'
<1> SUFFICES ASSUME TypeOK, Handed, Hook PROVE Handed'
  OBVIOUS
<1> USE DEF Handed, WritesOnlyReadBytes, HandoverOK, VerifiedCutNeverStrands, HookSteps,
            UnitSteps, Goto, runDir
<1>1. CASE HookLoad
  <2>1. hook'.byte = (IF handoff.byte = NoByte THEN bootByte ELSE handoff.byte)
        /\ hook'.charging = handoff.charging
    BY <1>1 DEF HookLoad
  <2>2. handoff.armed => hook'.byte \in Byte
    BY <2>1 DEF ConstantsOK
  <2> QED BY <1>1, <2>1, <2>2 DEF HookLoad
<1>2. CASE HookSample
  <2>1. PICK v \in {RegByte, NoByte} :
           /\ hook' = [byte |-> Newest(v),
                       charging |-> Sampled(v), left |-> hook.left - 1]
           /\ pc' \in {"hook_sample", "hook_decide"}
    BY <1>2 DEF HookSample
  <2>2. v \in Byte \cup {NoByte} /\ (hook.charging => Sampled(v))
    BY RegByteType DEF Sampled
  <2>3. /\ handoff.armed => hook'.byte \in Byte
        /\ hook.charging => hook'.charging
    BY <1>2, <2>1, <2>2 DEF HookSample, Newest
  <2>4. pc = "hook_sample" /\ handoff' = handoff /\ unit' = unit
    BY <1>2 DEF HookSample
  <2> QED BY <2>1, <2>3, <2>4
<1>3. CASE HookDecide
  BY <1>3 DEF HookDecide, AfterArming, StayOnline, TypeOK, Hooks, Bytes
<1>4. CASE HookUndo
  BY <1>4 DEF HookUndo, RebootUndoing
<1>5. CASE HookDelayWrite
  BY <1>5 DEF HookDelayWrite
<1>6. CASE HookArm
  BY <1>6 DEF HookArm, AfterArming
<1>7. CASE PollSeesPower
  BY <1>7, RegByteType DEF PollSeesPower, TypeOK, Hooks
<1>8. CASE DeadlinePasses
  BY <1>8 DEF DeadlinePasses
<1>9. CASE HookCancel
  BY <1>9 DEF HookCancel, RebootUndoing
<1> QED BY <1>1, <1>2, <1>3, <1>4, <1>5, <1>6, <1>7, <1>8, <1>9 DEF Hook

LEMMA OtherHanded ==
  TypeOK /\ Handed /\ (Request \/ BootAgain \/ Environment \/ Tick \/ CutFires) => Handed'
<1> SUFFICES ASSUME TypeOK, Handed, Request \/ BootAgain \/ Environment \/ Tick \/ CutFires
             PROVE  Handed'
  OBVIOUS
<1>n. ~NoHandoff.armed /\ ~NoHandoff.force /\ NoHandoff.decision = "unknown"
  BY DEF NoHandoff
<1>s. ASSUME UNCHANGED <<pc, handoff, unit, hook>> PROVE Handed'
  BY <1>s DEF Handed, WritesOnlyReadBytes, HandoverOK, VerifiedCutNeverStrands
<1>1. CASE Request
  <2>1. pc \in UpSteps /\ pc' \in {"unit_byte", "hook_load", "rebooting"} /\ handoff' = handoff
    BY <1>1 DEF Request, RequestPoweroff, PoweroffWithoutUnit, Restart, Goto, UpSteps, runDir
  <2>2. handoff = NoHandoff
    BY <2>1 DEF Handed, HandoverOK, UpSteps, HookSteps
  <2> QED BY <1>n, <2>1, <2>2 DEF Handed, WritesOnlyReadBytes, HandoverOK,
             VerifiedCutNeverStrands, UnitSteps, HookSteps
<1>2. CASE BootAgain
  BY <1>2, PowerUpHanded DEF BootAgain
<1>3. CASE Environment
  <2>1. CASE UnitKilled
    <3>1. handoff = NoHandoff /\ handoff' = handoff /\ pc' = "hook_load"
      BY <2>1 DEF UnitKilled, Handed, HandoverOK, UnitSteps, HookSteps, runDir
    <3> QED BY <1>n, <3>1 DEF Handed, WritesOnlyReadBytes, HandoverOK,
               VerifiedCutNeverStrands, UnitSteps, HookSteps
  <2>2. CASE PlugIn \/ AlarmRings \/ HandStart
    BY <1>s, <2>2, PowerUpHanded DEF PlugIn, AlarmRings, HandStart, runDir
  <2>3. CASE Unplug \/ ChargerIdles \/ MarkerAges
    BY <1>s, <2>3 DEF Unplug, ChargerIdles, MarkerAges, runDir
  <2> QED BY <1>3, <2>1, <2>2, <2>3 DEF Environment
<1>4. CASE Tick
  BY <1>s, <1>4 DEF Tick, runDir
<1>5. CASE CutFires
  BY <1>5, QuietHanded DEF CutFires, UnitSteps, HookSteps
<1> QED BY <1>1, <1>2, <1>3, <1>4, <1>5

-----------------------------------------------------------------------------
(* The inductive invariant and the theorems                                  *)

IInv == TypeOK /\ Handed

LEMMA InitIInv == Init => IInv
<1>0. "boot_flags" \in Steps /\ MaxFaults \in 0..MaxFaults /\ OldDelay \in Nat
  BY DEF Steps, BootSteps, ConstantsOK
<1>1. Init => TypeOK
  <2> SUFFICES ASSUME Init PROVE TypeOK
    OBVIOUS
  <2>1. bootByte \in Bytes /\ pc \in Steps /\ delayReg \in Nat /\ faults \in 0..MaxFaults
    BY <1>0 DEF Init, Bytes
  <2>2. handoff \in Handoffs /\ unit \in Units /\ hook \in Hooks
    BY DefaultsTyped DEF Init
  <2> QED BY <2>1, <2>2 DEF Init, TypeOK
<1>n. ~NoHandoff.armed /\ ~NoHandoff.force /\ NoHandoff.decision = "unknown"
  BY DEF NoHandoff
<1>2. Init => pc = "boot_flags" /\ handoff = NoHandoff
  BY DEF Init
<1>3. Init => Handed
  BY <1>n, <1>2 DEF Handed, WritesOnlyReadBytes, HandoverOK, VerifiedCutNeverStrands,
                    HookSteps, UnitSteps
<1> QED BY <1>1, <1>3 DEF IInv

LEMMA NextIInv == IInv /\ [Next]_vars => IInv'
<1> SUFFICES ASSUME IInv, [Next]_vars PROVE IInv'
  OBVIOUS
<1>1. TypeOK'
  BY TypeInductive DEF IInv, Handed
<1>2. ASSUME UNCHANGED vars PROVE Handed'
  BY <1>2 DEF IInv, Handed, WritesOnlyReadBytes, HandoverOK, VerifiedCutNeverStrands,
              vars, runDir
<1>3. ASSUME Next PROVE Handed'
  <2>1. TypeOK /\ Handed
    BY DEF IInv
  <2>2. \/ Boot \/ Unit \/ Hook
        \/ Request \/ BootAgain \/ Environment \/ Tick \/ CutFires
    BY <1>3 DEF Next
  <2> QED BY <2>1, <2>2, BootHanded, UnitHanded, HookHanded, OtherHanded
<1> QED BY <1>1, <1>2, <1>3 DEF IInv

LEMMA AlwaysIInv == Spec => []IInv
  BY InitIInv, NextIInv, PTL DEF Spec

\* The state of the three scripts is always well formed.
THEOREM TypeCorrect == Spec => []TypeOK
<1>1. IInv => TypeOK
  BY DEF IInv
<1> QED BY <1>1, AlwaysIInv, PTL

\* A decision to reboot is never withdrawn by the hook's samples: it neither
\* arms, nor waits, nor halts.
THEOREM RebootDecisionIsFinal == Spec => []RebootDecisionFinal
<1>1. IInv => RebootDecisionFinal
  BY DEF IInv, Handed, HandoverOK, RebootDecisionFinal
<1> QED BY <1>1, AlwaysIInv, PTL

\* A recorded forced cut is never turned into a reboot.
THEOREM ForcedCutIsNeverRebooted == Spec => []ForcedCutNeverReboots
<1>1. IInv => ForcedCutNeverReboots
  BY DEF IInv, Handed, HandoverOK, ForcedCutNeverReboots
<1> QED BY <1>1, AlwaysIInv, PTL

\* A cut armed and verified on battery does not leave a halted, powered board.
THEOREM VerifiedCutIsWaitedFor == Spec => []VerifiedCutNeverStrands
<1>1. IInv => VerifiedCutNeverStrands
  BY DEF IInv, Handed, HandoverOK
<1> QED BY <1>1, AlwaysIInv, PTL

\* No script writes a register byte that was not read.
THEOREM OnlyReadBytesAreWritten == Spec => []WritesOnlyReadBytes
<1>1. IInv => WritesOnlyReadBytes
  BY DEF IInv, Handed
<1> QED BY <1>1, AlwaysIInv, PTL

-----------------------------------------------------------------------------
(* Pending cuts, while no access failed                                      *)

\* Between the boot script's second step and the arming of the unit no cut is pending; the
\* hook decides under one only with a state file that says so, or without an alarm.
Pending ==
  faults = MaxFaults /\ cutArmed =>
    /\ pc \notin {"boot_charging", "boot_wakeup", "boot_publish"} \cup UpSteps
    /\ pc \in UnitSteps => pc = "unit_publish"
    /\ pc \in {"hook_load", "hook_sample", "hook_decide"} =>
          handoff.decision = "powercut" \/ ~handoff.alarm
    /\ pc = "rebooting" => handoff.decision = "powercut" /\ ~handoff.armed

\* A fault is counted, and none is taken back.
LEMMA FaultCounted ==
  ASSUME TypeOK, Fault \/ UNCHANGED faults, faults' = MaxFaults
  PROVE  faults = MaxFaults /\ UNCHANGED faults /\ ~Fault
  BY DEF TypeOK, Fault

\* Without a fault a register that is read is not taken for an empty string.
LEMMA ReadCounted ==
  ASSUME TypeOK, NEW v \in {RegByte, NoByte}, Read(v), faults' = MaxFaults
  PROVE  faults = MaxFaults /\ v # NoByte
  BY RegByteType, FaultCounted DEF Read

LEMMA BootPending == TypeOK /\ Pending /\ Boot => Pending'
<1> SUFFICES ASSUME TypeOK, Pending, Boot, faults' = MaxFaults, cutArmed' PROVE Pending'
  BY DEF Pending
<1> USE DEF Pending, UpSteps, UnitSteps
<1>1. CASE BootFlags
  <2>1. faults = MaxFaults /\ pc' = "boot_cancel"
    BY <1>1, ReadCounted DEF BootFlags
  <2> QED BY <1>1, <2>1 DEF BootFlags
<1>2. ASSUME NEW from, NEW to, NEW needed, NEW arm, NEW newCfg,
             BootStep(from, to, needed, arm, newCfg)
      PROVE  /\ faults = MaxFaults /\ pc = from /\ pc' = to
             /\ needed => cutArmed' = arm
             /\ ~needed => cutArmed' = cutArmed
  <2>1. CASE needed
    <3>1. SetBits(arm, newCfg) /\ pc = from /\ pc' = to
      BY <1>2, <2>1 DEF BootStep, Goto
    <3> QED BY <2>1, <3>1, FaultCounted DEF SetBits, Store
  <2>2. CASE ~needed
    BY <1>2, <2>2 DEF BootStep, Goto, power
  <2> QED BY <2>1, <2>2
<1>3. CASE BootCancel
  BY <1>2, <1>3 DEF BootCancel
<1>4. CASE BootCharging
  <2>1. faults = MaxFaults /\ pc = "boot_charging" /\ pc' = "boot_wakeup" /\ cutArmed' = cutArmed
    BY <1>2, <1>4 DEF BootCharging
  <2> QED BY <2>1
<1>5. CASE BootWakeup
  <2>1. faults = MaxFaults /\ pc = "boot_wakeup" /\ pc' = "boot_publish" /\ cutArmed' = cutArmed
    BY <1>2, <1>5 DEF BootWakeup
  <2> QED BY <2>1
<1>6. CASE BootPublish
  BY <1>6, ReadCounted DEF BootPublish, Goto, chip, power
<1>7. CASE PluginStart
  BY <1>7, FaultCounted DEF PluginStart, Goto, power
<1>8. CASE PluginWakeup
  <2>1. faults = MaxFaults /\ pc = "plugin_wakeup" /\ pc' = "running" /\ cutArmed' = cutArmed
    BY <1>2, <1>8 DEF PluginWakeup
  <2> QED BY <2>1
<1> QED BY <1>1, <1>3, <1>4, <1>5, <1>6, <1>7, <1>8 DEF Boot

LEMMA UnitPending == TypeOK /\ Handed /\ Pending /\ Unit => Pending'
<1> SUFFICES ASSUME TypeOK, Handed, Pending, Unit, faults' = MaxFaults, cutArmed' PROVE Pending'
  BY DEF Pending
<1> USE DEF Pending, UpSteps, UnitSteps, Goto
<1>1. CASE UnitByte \/ UnitCharging \/ ArmRead
  BY <1>1, ReadCounted DEF UnitByte, UnitCharging, ArmRead, chip, power
<1>2. CASE UnitAlarm
  BY <1>2, FaultCounted DEF UnitAlarm, chip, power
<1>3. CASE UnitDecide
  BY <1>3 DEF UnitDecide, chip, power
<1>4. CASE ArmDelay
  BY <1>4, FaultCounted DEF ArmDelay, WriteDelay, power
<1>5. CASE ArmWrite
  BY <1>5 DEF ArmWrite
<1>6. CASE UnitPublish
  BY <1>6 DEF UnitPublish, State
<1> QED BY <1>1, <1>2, <1>3, <1>4, <1>5, <1>6 DEF Unit

LEMMA HookPending == TypeOK /\ Handed /\ Pending /\ Hook => Pending'
<1> SUFFICES ASSUME TypeOK, Handed, Pending, Hook, faults' = MaxFaults, cutArmed' PROVE Pending'
  BY DEF Pending
<1> USE DEF Pending, UpSteps, UnitSteps, Goto
<1>1. CASE HookLoad
  BY <1>1 DEF HookLoad, chip, power, runDir
<1>2. CASE HookSample
  <2>1. faults = MaxFaults
    BY <1>2, ReadCounted DEF HookSample
  <2>2. cutArmed' = cutArmed /\ handoff' = handoff /\ pc = "hook_sample" /\ pc' \in {"hook_sample", "hook_decide"}
    BY <1>2 DEF HookSample, chip, power, runDir
  <2> QED BY <2>1, <2>2
<1>3. CASE HookDecide
  <2>1. UNCHANGED <<cutArmed, faults, handoff>> /\ pc = "hook_decide"
    BY <1>3 DEF HookDecide, chip, power, runDir
  <2>2. ASSUME pc' = "rebooting" PROVE handoff.decision = "powercut" /\ ~handoff.armed
    <3>1. handoff.alarm /\ ~(handoff.armed /\ hook.byte # NoByte)
      BY <1>3, <2>2 DEF HookDecide, AfterArming, StayOnline
    <3>2. handoff.armed => hook.byte \in Byte
      BY <2>1 DEF Handed, HandoverOK
    <3> QED BY <2>1, <3>1, <3>2, ConstantsOK
  <2>3. pc' \in {"rebooting", "hook_undo", "halted", "hook_wait", "hook_delay"}
    BY <1>3 DEF HookDecide, AfterArming
  <2> QED BY <2>1, <2>2, <2>3
<1>4. CASE HookUndo \/ HookCancel
  <2>1. PICK ok \in BOOLEAN : Write(FALSE, hook.byte, ok)
    BY <1>4 DEF HookUndo, HookCancel, RebootUndoing
  <2>2. ~cutArmed'
    BY <2>1, FaultCounted DEF Write, Store
  <2> QED BY <2>2
<1>5. CASE HookDelayWrite
  BY <1>5 DEF HookDelayWrite
<1>6. CASE HookArm
  BY <1>6 DEF HookArm, AfterArming
<1>7. CASE PollSeesPower \/ DeadlinePasses
  BY <1>7 DEF PollSeesPower, DeadlinePasses
<1> QED BY <1>1, <1>2, <1>3, <1>4, <1>5, <1>6, <1>7 DEF Hook

LEMMA OtherPending ==
  TypeOK /\ Handed /\ Pending /\ (Request \/ BootAgain \/ Environment \/ Tick \/ CutFires) => Pending'
<1> SUFFICES ASSUME TypeOK, Handed, Pending, Request \/ BootAgain \/ Environment \/ Tick \/ CutFires,
                    faults' = MaxFaults, cutArmed'
             PROVE  Pending'
  BY DEF Pending
<1> USE DEF Pending, UpSteps, UnitSteps, Goto
<1>s. ASSUME UNCHANGED <<pc, handoff, faults, cutArmed>> PROVE Pending'
  BY <1>s
<1>1. CASE Request
  <2>1. pc \in UpSteps /\ cutArmed' = cutArmed
    BY <1>1 DEF Request, RequestPoweroff, PoweroffWithoutUnit, Restart, chip, power
  <2>2. faults = MaxFaults
    BY <1>1, FaultCounted DEF Request, RequestPoweroff, PoweroffWithoutUnit, Restart
  <2> QED BY <2>1, <2>2
<1>2. CASE BootAgain
  BY <1>2 DEF BootAgain, PowerUp
<1>3. CASE Environment
  <2>1. CASE UnitKilled
    <3>1. handoff' = NoHandoff /\ pc' = "hook_load"
      BY <2>1 DEF UnitKilled, Handed, HandoverOK, HookSteps, runDir
    <3> QED BY <3>1 DEF NoHandoff
  <2>2. CASE PlugIn \/ AlarmRings \/ HandStart
    BY <1>s, <2>2 DEF PlugIn, AlarmRings, HandStart, PowerUp, runDir, power
  <2>3. CASE Unplug \/ ChargerIdles \/ MarkerAges
    BY <1>s, <2>3 DEF Unplug, ChargerIdles, MarkerAges, runDir, chip, power
  <2> QED BY <1>3, <2>1, <2>2, <2>3 DEF Environment
<1>4. CASE Tick
  BY <1>s, <1>4 DEF Tick, runDir
<1>5. CASE CutFires
  BY <1>5 DEF CutFires
<1> QED BY <1>1, <1>2, <1>3, <1>4, <1>5

LEMMA AlwaysPending == Spec => []Pending
<1>1. Init => Pending
  BY DEF Init, Pending
<1>2. IInv /\ Pending /\ [Next]_vars => Pending'
  <2> SUFFICES ASSUME IInv, Pending, [Next]_vars PROVE Pending'
    OBVIOUS
  <2>1. TypeOK /\ Handed
    BY DEF IInv
  <2>2. CASE Next
    BY <2>1, <2>2, BootPending, UnitPending, HookPending, OtherPending DEF Next
  <2>3. CASE UNCHANGED vars
    BY <2>3 DEF Pending, vars, chip, power, runDir
  <2> QED BY <2>2, <2>3
<1> QED BY <1>1, <1>2, AlwaysIInv, PTL DEF Spec

\* While no access failed, the board reboots under a pending cut only after the unit reported
\* its arming as failed.
THEOREM RebootsUndoVerifiedCuts == Spec => []RebootUndoesVerifiedCut
<1>1. IInv /\ Pending => RebootUndoesVerifiedCut
  BY DEF IInv, TypeOK, Pending, RebootUndoesVerifiedCut
<1> QED BY <1>1, AlwaysIInv, AlwaysPending, PTL

\* While no access failed, the services run under no countdown.
THEOREM BootsClearCuts == Spec => []BootClearsCut
<1>1. IInv /\ Pending => BootClearsCut
  BY DEF IInv, TypeOK, Pending, BootClearsCut
<1> QED BY <1>1, AlwaysIInv, AlwaysPending, PTL

-----------------------------------------------------------------------------
(* Refinement: the scripts implement PowerOutcome                            *)

\* A board whose rails are down runs nothing.
Powered == rails # "live" => pc = "off"

LEMMA AlwaysPowered == Spec => []Powered
<1>1. Init => Powered
  BY DEF Init, Powered
<1>2. Powered /\ [Next]_vars => Powered'
  <2> SUFFICES ASSUME Powered, [Next]_vars PROVE Powered'
    OBVIOUS
  <2> USE DEF Powered
  <2>1. CASE Boot
    BY <2>1 DEF Boot, BootFlags, BootCancel, BootCharging, BootWakeup, BootPublish,
               PluginStart, PluginWakeup, BootStep, Goto, chip
  <2>2. CASE Unit
    BY <2>2 DEF Unit, UnitByte, UnitCharging, UnitAlarm, UnitDecide, ArmRead, ArmDelay,
               ArmWrite, UnitPublish, Goto, chip
  <2>3. CASE Hook
    BY <2>3 DEF Hook, HookLoad, HookSample, HookDecide, HookUndo, HookDelayWrite, HookArm,
               PollSeesPower, DeadlinePasses, HookCancel, RebootUndoing, Goto, chip
  <2>4. CASE Request
    BY <2>4 DEF Request, RequestPoweroff, PoweroffWithoutUnit, Restart, UpSteps, Goto, chip
  <2>5. CASE BootAgain \/ Tick \/ CutFires
    BY <2>5 DEF BootAgain, PowerUp, Tick, CutFires
  <2>6. CASE Environment
    BY <2>6 DEF Environment, PlugIn, PowerUp, Unplug, ChargerIdles, MarkerAges, UnitKilled,
               AlarmRings, HandStart, UnitSteps, chip
  <2>7. CASE UNCHANGED vars
    BY <2>7 DEF vars, chip
  <2> QED BY <2>1, <2>2, <2>3, <2>4, <2>5, <2>6, <2>7 DEF Next
<1> QED BY <1>1, <1>2, PTL DEF Spec

\* The stage and the verdict depend on the program counter and the state file only.
LEMMA StageVerdict ==
  /\ pc \in UnitSteps \cup HookSteps => Stage = "closing"
  /\ pc \in {"rebooting", "halted", "off"} => Stage = pc
  /\ pc \in BootSteps \cup UpSteps => Stage = "up"
  /\ handoff = NoHandoff => Verdict = "none"
  BY DEF Stage, Verdict, UnitSteps, HookSteps, BootSteps, UpSteps, NoHandoff

LEMMA StageVerdictNext ==
  /\ pc' \in UnitSteps \cup HookSteps => Stage' = "closing"
  /\ pc' \in {"rebooting", "halted", "off"} => Stage' = pc'
  /\ pc' \in BootSteps \cup UpSteps => Stage' = "up"
  /\ handoff' = NoHandoff => Verdict' = "none"
  /\ pc' = pc => Stage' = Stage
  /\ handoff' = handoff => Verdict' = Verdict
  BY DEF Stage, Verdict, UnitSteps, HookSteps, BootSteps, UpSteps, NoHandoff

Mapped == Outcome!Next \/ UNCHANGED <<Stage, Verdict>>

LEMMA BootMapped == Boot => Mapped
<1> SUFFICES ASSUME Boot PROVE Mapped
  OBVIOUS
<1>1. /\ pc \in BootSteps \cup UpSteps /\ pc' \in BootSteps \cup UpSteps
      /\ handoff' = handoff
  BY DEF Boot, BootFlags, BootCancel, BootCharging, BootWakeup, BootPublish, PluginStart,
         PluginWakeup, BootStep, Goto, runDir, BootSteps, UpSteps
<1> QED BY <1>1, StageVerdict, StageVerdictNext DEF Mapped

\* The unit records at most one verdict, over an empty state file.
LEMMA UnitMapped == TypeOK /\ Handed /\ Unit => Mapped
<1> SUFFICES ASSUME TypeOK, Handed, Unit PROVE Mapped
  OBVIOUS
<1>1. pc \in UnitSteps /\ pc' \in UnitSteps \cup HookSteps
  BY DEF Unit, UnitByte, UnitCharging, UnitAlarm, UnitDecide, ArmRead, ArmDelay, ArmWrite,
         UnitPublish, Goto, UnitSteps, HookSteps
<1>2. Stage = "closing" /\ Stage' = "closing"
  BY <1>1, StageVerdict, StageVerdictNext
<1>3. handoff = NoHandoff
  BY <1>1 DEF Handed, HandoverOK, UnitSteps, HookSteps
<1>4. Verdict = "none"
  BY <1>3, StageVerdict
<1>5. Verdict' \in {"none", "cut", "forced", "reboot"}
  BY DEF Verdict
<1> QED BY <1>2, <1>4, <1>5 DEF Mapped, Outcome!Next, Outcome!Decide

LEMMA HookMapped == Hook /\ Handed' => Mapped
<1> SUFFICES ASSUME Hook, Handed' PROVE Mapped
  OBVIOUS
<1>1. /\ pc \in HookSteps /\ pc' \in HookSteps \cup {"rebooting", "halted"}
      /\ handoff' = handoff
  BY DEF Hook, HookLoad, HookSample, HookDecide, HookUndo, HookDelayWrite, HookArm,
         PollSeesPower, DeadlinePasses, HookCancel, RebootUndoing, AfterArming, Goto,
         runDir, HookSteps
<1>2. Stage = "closing" /\ Verdict' = Verdict
  BY <1>1, StageVerdict, StageVerdictNext
<1>3. CASE pc' \in HookSteps
  BY <1>2, <1>3, StageVerdictNext DEF Mapped
<1>4. CASE pc' = "rebooting"
  <2>1. Verdict # "forced"
    BY <1>1, <1>4 DEF Handed, HandoverOK, Verdict
  <2> QED BY <1>2, <1>4, <2>1, StageVerdictNext DEF Mapped, Outcome!Next, Outcome!Reboot
<1>5. CASE pc' = "halted"
  <2>1. Verdict # "reboot"
    BY <1>1, <1>5 DEF Handed, HandoverOK, Verdict
  <2> QED BY <1>2, <1>5, <2>1, StageVerdictNext DEF Mapped, Outcome!Next, Outcome!Halt
<1> QED BY <1>1, <1>3, <1>4, <1>5

LEMMA OtherMapped ==
  Handed /\ Powered /\ (Request \/ BootAgain \/ Environment \/ Tick \/ CutFires) => Mapped
<1> SUFFICES ASSUME Handed, Powered, Request \/ BootAgain \/ Environment \/ Tick \/ CutFires
             PROVE  Mapped
  OBVIOUS
<1>s. ASSUME pc' = pc, handoff' = handoff PROVE Mapped
  BY <1>s, StageVerdictNext DEF Mapped
<1>p. ASSUME PowerUp, pc \in {"rebooting", "halted", "off"} PROVE Mapped
  <2>1. Stage' = "up" /\ Verdict' = "none"
    BY <1>p, StageVerdictNext DEF PowerUp, BootSteps
  <2> QED BY <1>p, <2>1, StageVerdict DEF Mapped, Outcome!Next, Outcome!Start
<1>1. CASE Request
  <2>1. pc \in UpSteps /\ pc' \in {"unit_byte", "hook_load", "rebooting"} /\ handoff' = handoff
    BY <1>1 DEF Request, RequestPoweroff, PoweroffWithoutUnit, Restart, Goto, UpSteps, runDir
  <2>2. handoff = NoHandoff
    BY <2>1 DEF Handed, HandoverOK, UpSteps, HookSteps
  <2>3. Stage = "up" /\ Verdict = "none" /\ Verdict' = Verdict
    BY <2>1, <2>2, StageVerdict, StageVerdictNext
  <2>4. Stage' \in {"closing", "rebooting"}
    BY <2>1, StageVerdictNext DEF UnitSteps, HookSteps
  <2> QED BY <2>3, <2>4 DEF Mapped, Outcome!Next, Outcome!Close, Outcome!Reboot
<1>2. CASE BootAgain
  BY <1>2, <1>p DEF BootAgain
<1>3. CASE Environment
  <2>1. CASE UnitKilled
    <3>1. pc \in UnitSteps /\ pc' \in HookSteps /\ handoff' = handoff
      BY <2>1 DEF UnitKilled, HookSteps, runDir
    <3> QED BY <3>1, StageVerdict, StageVerdictNext DEF Mapped
  <2>2. CASE PlugIn
    BY <1>s, <1>p, <2>2 DEF PlugIn, Powered, runDir
  <2>3. CASE AlarmRings \/ HandStart
    BY <1>p, <2>3 DEF AlarmRings, HandStart, Powered
  <2>4. CASE Unplug \/ ChargerIdles \/ MarkerAges
    BY <1>s, <2>4 DEF Unplug, ChargerIdles, MarkerAges, runDir
  <2> QED BY <1>3, <2>1, <2>2, <2>3, <2>4 DEF Environment
<1>4. CASE Tick
  BY <1>s, <1>4 DEF Tick, runDir
<1>5. CASE CutFires
  <2>1. Stage' = "off" /\ Verdict' = "none"
    BY <1>5, StageVerdictNext DEF CutFires
  <2> QED BY <2>1 DEF Mapped, Outcome!Next, Outcome!LosePower
<1> QED BY <1>1, <1>2, <1>3, <1>4, <1>5

\* Whatever the bus, the supply and the clock do, the three scripts together
\* behave as PowerOutcome says: one verdict per shutdown, never withdrawn.
THEOREM ScriptsImplementOutcome == Spec => OutcomeSpec
<1>1. Init => Outcome!Init
  BY StageVerdict DEF Init, Outcome!Init, BootSteps
<1>2. IInv /\ IInv' /\ Powered /\ [Next]_vars => [Outcome!Next]_(Outcome!vars)
  <2> SUFFICES ASSUME IInv, IInv', Powered, [Next]_vars PROVE Mapped
    BY DEF Mapped, Outcome!vars
  <2>1. TypeOK /\ Handed /\ Handed'
    BY DEF IInv
  <2>2. CASE UNCHANGED vars
    BY <2>2, StageVerdictNext DEF Mapped, vars, runDir
  <2>3. CASE Next
    <3>1. \/ Boot \/ Unit \/ Hook
          \/ Request \/ BootAgain \/ Environment \/ Tick \/ CutFires
      BY <2>3 DEF Next
    <3> QED BY <2>1, <3>1, BootMapped, UnitMapped, HookMapped, OtherMapped
  <2> QED BY <2>2, <2>3
<1> QED BY <1>1, <1>2, AlwaysIInv, AlwaysPowered, PTL DEF Spec, OutcomeSpec, Outcome!Spec
=============================================================================
