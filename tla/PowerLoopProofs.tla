-------------------------- MODULE PowerLoopProofs --------------------------
(***************************************************************************)
(* What the power plugin's loop guarantees for any set of plugins, any     *)
(* wake-up periods and any number of calls, changes and failures.          *)
(***************************************************************************)
EXTENDS PowerLoop, TLAPS

\* Who is where: the loop waits for the controller exactly while it applies a
\* configuration, its task exists only after its end, and a call of shutdown by hand
\* never has an alarm.
Shape ==
    /\ ctl["loop"].pc # "none" <=> loop.pc = "apply"
    /\ task["loop"] # "none" => loop.pc = "over"
    /\ ctl["hand"].pc \in {"none", "restore", "enable", "log"} /\ ctl["hand"].alarm = 0

\* The charging target follows the noted status while a reading is under way.
TargetNoted ==
    loop.pc \in {"read", "recheck"} =>
        /\ last = "ON" => target
        /\ last = "OFF" => ~target

\* Between the two readings: without an outage the first one was wrong.
DoubtIsRight == loop.pc = "recheck" /\ ~outage => lied /\ power

\* While the plugins are asked, the plugins held back are busy, and after a yes
\* only those not asked yet are left.
HeldAreBusy ==
    loop.pc = "ask" =>
        /\ \A p \in held : Unready(p)
        /\ loop.ready => held \subseteq loop.unasked

\* A call by hand restarts the thirty seconds, never shortens them.
AttemptIsNoOlder == attempt <= sinceTry

\* What start() does to the alarm is done before the loop asks anyone: the loop sleeps first,
\* and no command outlasts its sleep.
BootTasksFirst ==
    bootTasks # {} /\ phase # "off" =>
        /\ loop.pc \in {"read", "recheck", "targets", "sleep"}
        /\ loop.pc \in {"targets", "sleep"} => loop.timer = LoopDelay

\* As long as nobody calls and no command fails: the PiSugar has what the controller has
\* applied so far, and from the task of the shutdown on what the configuration says.
Armed ==
    calls = MaxCalls /\ faults = MaxFaults =>
        /\ ctl["hand"].pc = "none" /\ task["hand"] = "none" /\ ~disarming
        /\ phase # "up" => loop.pc = "over"
        /\ ctl["loop"].alarm > 0 =>
              /\ ctl["loop"].pc \in {"restore", "enable", "log"} => alarmIn = ctl["loop"].alarm
              /\ ctl["loop"].pc = "log" => alarmOn
        /\ (task["loop"] # "none" \/ phase # "up") /\ saved > 0 => alarmOn /\ alarmIn = saved

\* A reading uses up at most one failure.
LEMMA ReadingTypes ==
    ASSUME WorldTypes, NEW r \in Status, Reading(r)
    PROVE  lied' \in BOOLEAN /\ faults' \in 0..MaxFaults
<1>1. lied' \in BOOLEAN
  BY DEF Reading, WorldTypes
<1>2. faults' \in 0..MaxFaults
  BY LoopConstants DEF LoopConstants, Reading, Works, Fails, WorldTypes
<1>q. QED
  BY <1>1, <1>2

\* A judged reading leads to the charging target or to the sleep.
LEMMA JudgedTypes ==
    ASSUME LoopTypes, NEW r \in Status, Judged(r)
    PROVE  /\ loop' \in LoopRecord
           /\ loop'.pc \in {"targets", "sleep"} /\ loop'.raw = r /\ loop'.status = Effective(r)
           /\ keep' \in [Reason -> Nat]
<1> DEFINE s  == Effective(r)
           pc == IF s # last /\ s # "UNKNOWN" THEN "targets" ELSE "sleep"
<1>1. s \in Status /\ pc \in {"targets", "sleep"}
  BY DEF Effective, Status
<1>2. keep' \in [Reason -> Nat]
  BY LoopConstants DEF LoopConstants, Judged, LoopTypes, HaveToWait, Reason
<1>3. loop' = [loop EXCEPT !.pc = pc, !.raw = r, !.status = s, !.timer = LoopDelay, !.first = FALSE]
  BY DEF Judged
<1>4. loop' \in LoopRecord /\ loop'.pc = pc /\ loop'.raw = r /\ loop'.status = s
  <2> HIDE DEF s, pc
  <2>1. LoopDelay \in 0..LoopDelay
    BY LoopConstants DEF LoopConstants
  <2>2. loop \in LoopRecord
    BY DEF LoopTypes
  <2>3. loop' \in LoopRecord
    BY <1>1, <1>3, <2>1, <2>2 DEF LoopRecord
  <2>4. loop'.pc = pc /\ loop'.raw = r /\ loop'.status = s
    BY <1>3, <2>2 DEF LoopRecord
  <2>q. QED
    BY <2>3, <2>4
<1>q. QED
  BY <1>1, <1>2, <1>4

\* The first reading is doubted, or judged at once.
LEMMA ReadOutcome ==
    ASSUME ReadStatus
    PROVE  \/ loop' = [loop EXCEPT !.pc = "recheck"] /\ UNCHANGED keep /\ Reading("OFF")
           \/ \E r \in {"ON", "UNKNOWN"} : Reading(r) /\ Judged(r)
  BY DEF ReadStatus, Doubted, Status

\* Every step keeps the types.
LEMMA TypeStep ==
    ASSUME TypeOK, [Next]_vars
    PROVE  TypeOK'
<1> USE LoopConstants DEF LoopConstants, TypeOK, WorldTypes, LoopTypes, LoopRecord, CallTypes, StoreTypes, HistoryTypes, Caller, Reason, Asked, Status
<1>0. CASE UNCHANGED vars
  BY <1>0 DEF vars, world, round, hw, ghost
<1>1. CASE ReadStatus
  <2>1. lied' \in BOOLEAN /\ faults' \in 0..MaxFaults
    BY <1>1, ReadOutcome, ReadingTypes
  <2>2. loop' \in LoopRecord /\ keep' \in [Reason -> Nat]
    <3>1. CASE loop' = [loop EXCEPT !.pc = "recheck"] /\ UNCHANGED keep
      BY <3>1
    <3>2. CASE \E r \in {"ON", "UNKNOWN"} : Judged(r)
      BY <3>2, JudgedTypes
    <3>q. QED
      BY <1>1, <3>1, <3>2, ReadOutcome
  <2>3. outage' \in BOOLEAN
    BY <1>1 DEF ReadStatus
  <2>4. WorldTypes'
    BY <1>1, <2>1 DEF ReadStatus, world
  <2>5. LoopTypes'
    BY <1>1, <2>2 DEF ReadStatus
  <2>6. CallTypes' /\ StoreTypes' /\ HistoryTypes'
    BY <1>1, <2>3 DEF ReadStatus, hw
  <2>q. QED
    BY <2>4, <2>5, <2>6
<1>2. CASE ReadAgain
  <2>1. PICK r \in Status : Reading(r) /\ Judged(r)
    BY <1>2 DEF ReadAgain
  <2>2. lied' \in BOOLEAN /\ faults' \in 0..MaxFaults
    BY <2>1, ReadingTypes
  <2>3. loop' \in LoopRecord /\ keep' \in [Reason -> Nat]
    BY <2>1, JudgedTypes
  <2>4. WorldTypes'
    BY <1>2, <2>2 DEF ReadAgain, world
  <2>5. LoopTypes'
    BY <1>2, <2>3 DEF ReadAgain
  <2>6. CallTypes' /\ StoreTypes' /\ HistoryTypes'
    BY <1>2 DEF ReadAgain, hw, ghost
  <2>q. QED
    BY <2>4, <2>5, <2>6
<1>3. CASE SwitchTarget
  BY <1>3 DEF SwitchTarget, world, round, hw, ghost, Running
<1>4. CASE Awake
  <2>1. loop' \in LoopRecord
    <3>1. CASE loop.status = "OFF"
      <4>1. loop' = [loop EXCEPT !.pc = "ask", !.unasked = Asked, !.ready = TRUE]
        BY <1>4, <3>1 DEF Awake
      <4>q. QED
        BY <4>1
    <3>2. CASE loop.status # "OFF"
      BY <1>4, <3>2 DEF Awake, NextRound
    <3>q. QED
      BY <3>1, <3>2
  <2>2. LoopTypes'
    BY <1>4, <2>1 DEF Awake, NextRound
  <2>3. WorldTypes' /\ CallTypes' /\ StoreTypes'
    BY <1>4 DEF Awake, world, hw
  <2>4. HistoryTypes'
    BY <1>4 DEF Awake
  <2>q. QED
    BY <2>2, <2>3, <2>4
<1>5. CASE Decide
  BY <1>5 DEF Decide, TooSoon, Begin, Apply, Refused, NextRound, Verified, NoCall, world, round, hw, ghost, Running
<1>6. ASSUME NEW p \in Asked, Answer(p) PROVE TypeOK'
  <2>1. PICK ok \in BOOLEAN : loop' = [loop EXCEPT !.unasked = @ \ {p}, !.ready = Gathered(ok)]
    BY <1>6 DEF Answer
  <2>2. Gathered(ok) \in BOOLEAN
    BY DEF Gathered
  <2>3. loop' \in LoopRecord
    BY <2>1, <2>2
  <2>4. faults' \in 0..MaxFaults
    BY <1>6 DEF Answer, Fails, Works
  <2>5. LoopTypes' /\ WorldTypes'
    BY <1>6, <2>3, <2>4 DEF Answer, world
  <2>6. CallTypes' /\ StoreTypes' /\ HistoryTypes'
    BY <1>6 DEF Answer, hw
  <2>q. QED
    BY <2>5, <2>6
<1>7. ASSUME NEW c \in Caller, CheckBattery(c) PROVE TypeOK'
  BY <1>7 DEF CheckBattery, At, Move, Apply, Refused, NextRound, Verified, NoCall, Fails, Works, world, round, hw, ghost, Running
<1>8. ASSUME NEW c \in Caller, CheckCharging(c) PROVE TypeOK'
  <2>1. PICK r \in Status : Reading(r) /\ Apply(c, IF r = "ON" THEN ctl[c].alarm ELSE 0)
    BY <1>8 DEF CheckCharging
  <2>2. lied' \in BOOLEAN /\ faults' \in 0..MaxFaults
    BY <2>1, ReadingTypes
  <2>3. WorldTypes'
    BY <1>8, <2>2 DEF CheckCharging, world
  <2>4. LoopTypes'
    BY <1>8, <2>1 DEF CheckCharging, Apply, Refused, NextRound
  <2>5. CallTypes'
    BY <1>8, <2>1 DEF CheckCharging, Apply, Refused, NoCall
  <2>6. StoreTypes' /\ HistoryTypes'
    BY <1>8 DEF CheckCharging, hw, ghost
  <2>q. QED
    BY <2>3, <2>4, <2>5, <2>6
<1>9. ASSUME NEW c \in Caller, SetTime(c) PROVE TypeOK'
  BY <1>9 DEF SetTime, At, Move, Refused, NextRound, NoCall, Fails, Works, world, round, hw, ghost, Running
<1>10. ASSUME NEW c \in Caller, SetRestore(c) PROVE TypeOK'
  <2>1. WorldTypes'
    BY <1>10 DEF SetRestore, At, Move, Fails, Works, world, round, hw, ghost, Running
  <2>2. LoopTypes'
    BY <1>10 DEF SetRestore, At, Move, Fails, Works, world, round, hw, ghost, Running
  <2>3. CallTypes'
    BY <1>10 DEF SetRestore, At, Move, Fails, Works, world, round, hw, ghost, Running
  <2>4. StoreTypes'
    BY <1>10 DEF SetRestore, At, Move, Fails, Works, world, round, hw, ghost, Running
  <2>5. HistoryTypes'
    BY <1>10 DEF SetRestore, At, Move, Fails, Works, world, round, hw, ghost, Running
  <2>q. QED
    BY <2>1, <2>2, <2>3, <2>4, <2>5
<1>11. ASSUME NEW c \in Caller, SetEnabled(c) PROVE TypeOK'
  <2>1. alarmOn' \in BOOLEAN
    <3>1. Enabled(ctl[c].alarm) \in BOOLEAN
      BY DEF Enabled
    <3>q. QED
      BY <1>11, <3>1 DEF SetEnabled
  <2>2. WorldTypes' /\ LoopTypes'
    BY <1>11 DEF SetEnabled, Fails, Works, world, round
  <2>3. CallTypes'
    BY <1>11 DEF SetEnabled, Move
  <2>4. StoreTypes' /\ HistoryTypes'
    BY <1>11, <2>1 DEF SetEnabled, ghost
  <2>q. QED
    BY <2>2, <2>3, <2>4
<1>12. ASSUME NEW c \in Caller, Commit(c) PROVE TypeOK'
  <2>1. faults' \in 0 .. MaxFaults /\ saved' \in 0 .. MaxWake
    BY <1>12 DEF Commit, Fails, Works
  <2>2. WorldTypes'
    BY <1>12, <2>1 DEF Commit, world
  <2>3. LoopTypes'
    BY <1>12 DEF Commit, round
  <2>4. CallTypes'
    BY <1>12 DEF Commit, NoCall
  <2>5. StoreTypes' /\ HistoryTypes'
    BY <1>12, <2>1 DEF Commit, hw, ghost
  <2>q. QED
    BY <2>2, <2>3, <2>4, <2>5
<1>13. ASSUME NEW c \in Caller, Journalled(c) PROVE TypeOK'
  BY <1>13 DEF Journalled, Forced, world, round, hw, ghost, Running
<1>14. ASSUME NEW c \in Caller, CallPoweroff(c) PROVE TypeOK'
  BY <1>14 DEF CallPoweroff, Fails, Works, world, round, hw, ghost, Running
<1>15. CASE StoreDisabled
  <2>1. WorldTypes'
    BY <1>15 DEF StoreDisabled, world, round, hw, ghost, Running
  <2>2. LoopTypes'
    BY <1>15 DEF StoreDisabled, world, round, hw, ghost, Running
  <2>3. CallTypes'
    BY <1>15 DEF StoreDisabled, world, round, hw, ghost, Running
  <2>4. StoreTypes'
    BY <1>15 DEF StoreDisabled, world, round, hw, ghost, Running
  <2>5. HistoryTypes'
    BY <1>15 DEF StoreDisabled, world, round, hw, ghost, Running
  <2>q. QED
    BY <2>1, <2>2, <2>3, <2>4, <2>5
<1>16. CASE GoDown
  BY <1>16 DEF GoDown, world, round, hw, ghost, Running
<1>17. ASSUME NEW t \in {"disarm", "restore"}, BootTask(t) PROVE TypeOK'
  <2>1. WorldTypes'
    BY <1>17 DEF BootTask, Fails, Works, world, round, hw, ghost, Running
  <2>2. LoopTypes'
    BY <1>17 DEF BootTask, Fails, Works, world, round, hw, ghost, Running
  <2>3. CallTypes'
    BY <1>17 DEF BootTask, Fails, Works, world, round, hw, ghost, Running
  <2>4. StoreTypes'
    BY <1>17 DEF BootTask, Fails, Works, world, round, hw, ghost, Running
  <2>5. HistoryTypes'
    BY <1>17 DEF BootTask, Fails, Works, world, round, hw, ghost, Running
  <2>q. QED
    BY <2>1, <2>2, <2>3, <2>4, <2>5
<1>18. CASE CallShutdown
  BY <1>18 DEF CallShutdown, Begin, Apply, Refused, NextRound, Verified, NoCall, world, round, hw, ghost, Running
<1>19. CASE CallReboot
  BY <1>19 DEF CallReboot, world, round, hw, ghost, Running
<1>20. CASE DisableWakeup
  <2>1. WorldTypes'
    BY <1>20 DEF DisableWakeup, Fails, Works, world, round, hw, ghost, Running
  <2>2. LoopTypes'
    BY <1>20 DEF DisableWakeup, Fails, Works, world, round, hw, ghost, Running
  <2>3. CallTypes'
    BY <1>20 DEF DisableWakeup, Fails, Works, world, round, hw, ghost, Running
  <2>4. StoreTypes'
    BY <1>20 DEF DisableWakeup, Fails, Works, world, round, hw, ghost, Running
  <2>5. HistoryTypes'
    BY <1>20 DEF DisableWakeup, Fails, Works, world, round, hw, ghost, Running
  <2>q. QED
    BY <2>1, <2>2, <2>3, <2>4, <2>5
<1>21. ASSUME NEW m \in Modes, SetWakeup(m) PROVE TypeOK'
  BY <1>21 DEF SetWakeup, world, round, hw, ghost, Running
<1>22. ASSUME NEW n \in KeepTimes, CallKeepAlive(n) PROVE TypeOK'
  BY <1>22 DEF CallKeepAlive, HaveToWait, world, round, hw, ghost, Running
<1>23. CASE PowerChanges
  BY <1>23 DEF PowerChanges, Change, Untouched, world, round, hw, ghost, Running
<1>24. CASE BeaconChanges
  BY <1>24 DEF BeaconChanges, Change, Untouched, world, round, hw, ghost, Running
<1>25. CASE BatteryChanges
  BY <1>25 DEF BatteryChanges, Change, Untouched, world, round, hw, ghost, Running
<1>26. ASSUME NEW p \in Plugins, WorkChanges(p) PROVE TypeOK'
  BY <1>26 DEF WorkChanges, Change, Untouched, world, round, hw, ghost, Running
<1>27. CASE Boot
  <2>1. loop' \in LoopRecord
    BY <1>27 DEF Boot, Start
  <2>2. target' \in BOOLEAN /\ mode' \in Modes
    BY <1>27 DEF Boot
  <2>3. keep' \in [Reason -> Nat]
    <3>1. \E woken, watched \in BOOLEAN : keep' = Granted(woken, watched)
      BY <1>27 DEF Boot
    <3>2. \A woken, watched \in BOOLEAN : Granted(woken, watched) \in [Reason -> Nat]
      BY DEF Granted
    <3>q. QED
      BY <3>1, <3>2
  <2>4. last' \in Status /\ attempt' \in 0..RetryGap + 1
    BY <1>27 DEF Boot
  <2>5. LoopTypes'
    BY <2>1, <2>2, <2>3, <2>4
  <2>6. disarming' \in BOOLEAN /\ outage' \in BOOLEAN
    BY <1>27 DEF Boot
  <2>7. /\ ctl' \in [Caller -> [pc : {"none", "battery", "charging", "time", "restore", "enable", "log"},
                                alarm : 0..MaxWake]]
        /\ task' \in [Caller -> {"none", "journal", "call"}]
        /\ bootTasks' \subseteq {"disarm", "restore"} /\ phase' \in {"up", "stopping", "off"}
    BY <1>27 DEF Boot, NoCall
  <2>8. CallTypes'
    BY <2>6, <2>7
  <2>9. held' \subseteq Asked /\ sinceTry' \in 0..RetryGap + 1
    BY <1>27 DEF Boot
  <2>10. HistoryTypes'
    BY <2>6, <2>9
  <2>11. WorldTypes'
    BY <1>27 DEF Boot, world
  <2>12. StoreTypes'
    BY <1>27 DEF Boot, Cleared, hw
  <2>q. QED
    BY <2>5, <2>8, <2>10, <2>11, <2>12
<1>28. CASE Tick
  BY <1>28 DEF Tick, Less, Older, world, round, hw, ghost, Running
<1>q. QED
  BY <1>0, <1>1, <1>2, <1>3, <1>4, <1>5, <1>6, <1>7, <1>8, <1>9, <1>10, <1>11, <1>12, <1>13, <1>14, <1>15, <1>16, <1>17, <1>18, <1>19, <1>20, <1>21, <1>22, <1>23, <1>24, <1>25, <1>26, <1>27, <1>28
     DEF Next, LoopStep, ControllerStep, OtherStep, Call, WorldStep

\* Every step keeps the coroutines in their places.
LEMMA ShapeStep ==
    ASSUME TypeOK, Shape, [Next]_vars
    PROVE  Shape'
<1> USE LoopConstants DEF LoopConstants, TypeOK, WorldTypes, LoopTypes, LoopRecord, CallTypes, StoreTypes, HistoryTypes, Caller, Reason, Asked, Status, Shape
<1>0. CASE UNCHANGED vars
  BY <1>0 DEF vars, world, round, hw, ghost
<1>1. CASE ReadStatus
  <2>1. CASE loop' = [loop EXCEPT !.pc = "recheck"] /\ UNCHANGED keep /\ Reading("OFF")
    BY <1>1, <2>1 DEF ReadStatus, Reading, world, round, hw, ghost, Running
  <2>2. CASE \E r \in {"ON", "UNKNOWN"} : Reading(r) /\ Judged(r)
    <3>1. PICK r \in {"ON", "UNKNOWN"} : Judged(r)
      BY <2>2
    <3>2. loop'.pc \in {"targets", "sleep"} /\ loop'.raw = r /\ loop'.status = Effective(r)
      BY <3>1, JudgedTypes
    <3>q. QED
      BY <1>1, <3>1, <3>2 DEF ReadStatus, Judged, Effective, world, round, hw, ghost, Running
  <2>q. QED
    BY <1>1, <2>1, <2>2, ReadOutcome
<1>2. CASE ReadAgain
  BY <1>2 DEF ReadAgain, Reading, Judged, Effective, HaveToWait, Fails, Works, world, round, hw, ghost, Running
<1>3. CASE SwitchTarget
  BY <1>3 DEF SwitchTarget, world, round, hw, ghost, Running
<1>4. CASE Awake
  BY <1>4 DEF Awake, NextRound, Unready, KeptAlive, world, round, hw, ghost, Running
<1>5. CASE Decide
  BY <1>5 DEF Decide, TooSoon, Begin, Apply, Refused, NextRound, Verified, NoCall, world, round, hw, ghost, Running
<1>6. ASSUME NEW p \in Asked, Answer(p) PROVE Shape'
  BY <1>6 DEF Answer, Gathered, Unready, KeptAlive, Fails, Works, world, round, hw, ghost, Running
<1>7. ASSUME NEW c \in Caller, CheckBattery(c) PROVE Shape'
  BY <1>7 DEF CheckBattery, At, Move, Apply, Refused, NextRound, Verified, NoCall, Fails, Works, world, round, hw, ghost, Running
<1>8. ASSUME NEW c \in Caller, CheckCharging(c) PROVE Shape'
  BY <1>8 DEF CheckCharging, At, Reading, Apply, Refused, NextRound, Verified, NoCall, Fails, Works, world, round, hw, ghost, Running
<1>9. ASSUME NEW c \in Caller, SetTime(c) PROVE Shape'
  BY <1>9 DEF SetTime, At, Move, Refused, NextRound, NoCall, Fails, Works, world, round, hw, ghost, Running
<1>10. ASSUME NEW c \in Caller, SetRestore(c) PROVE Shape'
  BY <1>10 DEF SetRestore, At, Move, Fails, Works, world, round, hw, ghost, Running
<1>11. ASSUME NEW c \in Caller, SetEnabled(c) PROVE Shape'
  BY <1>11 DEF SetEnabled, At, Move, Enabled, Fails, Works, world, round, hw, ghost, Running
<1>12. ASSUME NEW c \in Caller, Commit(c) PROVE Shape'
  BY <1>12 DEF Commit, At, NoCall, world, round, hw, ghost, Running
<1>13. ASSUME NEW c \in Caller, Journalled(c) PROVE Shape'
  BY <1>13 DEF Journalled, Forced, world, round, hw, ghost, Running
<1>14. ASSUME NEW c \in Caller, CallPoweroff(c) PROVE Shape'
  BY <1>14 DEF CallPoweroff, Fails, Works, world, round, hw, ghost, Running
<1>15. CASE StoreDisabled
  BY <1>15 DEF StoreDisabled, world, round, hw, ghost, Running
<1>16. CASE GoDown
  BY <1>16 DEF GoDown, world, round, hw, ghost, Running
<1>17. ASSUME NEW t \in {"disarm", "restore"}, BootTask(t) PROVE Shape'
  BY <1>17 DEF BootTask, Fails, Works, world, round, hw, ghost, Running
<1>18. CASE CallShutdown
  BY <1>18 DEF CallShutdown, Begin, Apply, Refused, NextRound, Verified, NoCall, world, round, hw, ghost, Running
<1>19. CASE CallReboot
  BY <1>19 DEF CallReboot, world, round, hw, ghost, Running
<1>20. CASE DisableWakeup
  BY <1>20 DEF DisableWakeup, Fails, Works, world, round, hw, ghost, Running
<1>21. ASSUME NEW m \in Modes, SetWakeup(m) PROVE Shape'
  BY <1>21 DEF SetWakeup, world, round, hw, ghost, Running
<1>22. ASSUME NEW n \in KeepTimes, CallKeepAlive(n) PROVE Shape'
  BY <1>22 DEF CallKeepAlive, HaveToWait, world, round, hw, ghost, Running
<1>23. CASE PowerChanges
  BY <1>23 DEF PowerChanges, Change, Untouched, world, round, hw, ghost, Running
<1>24. CASE BeaconChanges
  BY <1>24 DEF BeaconChanges, Change, Untouched, world, round, hw, ghost, Running
<1>25. CASE BatteryChanges
  BY <1>25 DEF BatteryChanges, Change, Untouched, world, round, hw, ghost, Running
<1>26. ASSUME NEW p \in Plugins, WorkChanges(p) PROVE Shape'
  BY <1>26 DEF WorkChanges, Change, Untouched, world, round, hw, ghost, Running
<1>27. CASE Boot
  BY <1>27 DEF Boot, Start, NoCall, Cleared, world, round, hw, ghost, Running
<1>28. CASE Tick
  BY <1>28 DEF Tick, Less, Older, world, round, hw, ghost, Running
<1>q. QED
  BY <1>0, <1>1, <1>2, <1>3, <1>4, <1>5, <1>6, <1>7, <1>8, <1>9, <1>10, <1>11, <1>12, <1>13, <1>14, <1>15, <1>16, <1>17, <1>18, <1>19, <1>20, <1>21, <1>22, <1>23, <1>24, <1>25, <1>26, <1>27, <1>28
     DEF Next, LoopStep, ControllerStep, OtherStep, Call, WorldStep

\* Every step keeps the charging target in line with the status.
LEMMA TargetStep ==
    ASSUME TypeOK, Shape, TargetNoted, TargetFollows, [Next]_vars
    PROVE  (TargetNoted /\ TargetFollows)'
<1> USE LoopConstants DEF LoopConstants, TypeOK, WorldTypes, LoopTypes, LoopRecord, CallTypes, StoreTypes, HistoryTypes, Caller, Reason, Asked, Status, Shape, TargetNoted, TargetFollows
<1>0. CASE UNCHANGED vars
  BY <1>0 DEF vars, world, round, hw, ghost
<1>1. CASE ReadStatus
  <2>1. CASE loop' = [loop EXCEPT !.pc = "recheck"] /\ UNCHANGED keep /\ Reading("OFF")
    BY <1>1, <2>1 DEF ReadStatus, Reading, world, round, hw, ghost, Running
  <2>2. CASE \E r \in {"ON", "UNKNOWN"} : Reading(r) /\ Judged(r)
    <3>1. PICK r \in {"ON", "UNKNOWN"} : Judged(r)
      BY <2>2
    <3>2. loop'.pc \in {"targets", "sleep"} /\ loop'.raw = r /\ loop'.status = Effective(r)
      BY <3>1, JudgedTypes
    <3>q. QED
      BY <1>1, <3>1, <3>2 DEF ReadStatus, Judged, Effective, world, round, hw, ghost, Running
  <2>q. QED
    BY <1>1, <2>1, <2>2, ReadOutcome
<1>2. CASE ReadAgain
  BY <1>2 DEF ReadAgain, Reading, Judged, Effective, HaveToWait, Fails, Works, world, round, hw, ghost, Running
<1>3. CASE SwitchTarget
  BY <1>3 DEF SwitchTarget, world, round, hw, ghost, Running
<1>4. CASE Awake
  BY <1>4 DEF Awake, NextRound, Unready, KeptAlive, world, round, hw, ghost, Running
<1>5. CASE Decide
  BY <1>5 DEF Decide, TooSoon, Begin, Apply, Refused, NextRound, Verified, NoCall, world, round, hw, ghost, Running
<1>6. ASSUME NEW p \in Asked, Answer(p) PROVE (TargetNoted /\ TargetFollows)'
  BY <1>6 DEF Answer, Gathered, Unready, KeptAlive, Fails, Works, world, round, hw, ghost, Running
<1>7. ASSUME NEW c \in Caller, CheckBattery(c) PROVE (TargetNoted /\ TargetFollows)'
  BY <1>7 DEF CheckBattery, At, Move, Apply, Refused, NextRound, Verified, NoCall, Fails, Works, world, round, hw, ghost, Running
<1>8. ASSUME NEW c \in Caller, CheckCharging(c) PROVE (TargetNoted /\ TargetFollows)'
  BY <1>8 DEF CheckCharging, At, Reading, Apply, Refused, NextRound, Verified, NoCall, Fails, Works, world, round, hw, ghost, Running
<1>9. ASSUME NEW c \in Caller, SetTime(c) PROVE (TargetNoted /\ TargetFollows)'
  BY <1>9 DEF SetTime, At, Move, Refused, NextRound, NoCall, Fails, Works, world, round, hw, ghost, Running
<1>10. ASSUME NEW c \in Caller, SetRestore(c) PROVE (TargetNoted /\ TargetFollows)'
  BY <1>10 DEF SetRestore, At, Move, Fails, Works, world, round, hw, ghost, Running
<1>11. ASSUME NEW c \in Caller, SetEnabled(c) PROVE (TargetNoted /\ TargetFollows)'
  BY <1>11 DEF SetEnabled, At, Move, Enabled, Fails, Works, world, round, hw, ghost, Running
<1>12. ASSUME NEW c \in Caller, Commit(c) PROVE (TargetNoted /\ TargetFollows)'
  BY <1>12 DEF Commit, At, NoCall, world, round, hw, ghost, Running
<1>13. ASSUME NEW c \in Caller, Journalled(c) PROVE (TargetNoted /\ TargetFollows)'
  BY <1>13 DEF Journalled, Forced, world, round, hw, ghost, Running
<1>14. ASSUME NEW c \in Caller, CallPoweroff(c) PROVE (TargetNoted /\ TargetFollows)'
  BY <1>14 DEF CallPoweroff, Fails, Works, world, round, hw, ghost, Running
<1>15. CASE StoreDisabled
  BY <1>15 DEF StoreDisabled, world, round, hw, ghost, Running
<1>16. CASE GoDown
  BY <1>16 DEF GoDown, world, round, hw, ghost, Running
<1>17. ASSUME NEW t \in {"disarm", "restore"}, BootTask(t) PROVE (TargetNoted /\ TargetFollows)'
  BY <1>17 DEF BootTask, Fails, Works, world, round, hw, ghost, Running
<1>18. CASE CallShutdown
  BY <1>18 DEF CallShutdown, Begin, Apply, Refused, NextRound, Verified, NoCall, world, round, hw, ghost, Running
<1>19. CASE CallReboot
  BY <1>19 DEF CallReboot, world, round, hw, ghost, Running
<1>20. CASE DisableWakeup
  BY <1>20 DEF DisableWakeup, Fails, Works, world, round, hw, ghost, Running
<1>21. ASSUME NEW m \in Modes, SetWakeup(m) PROVE (TargetNoted /\ TargetFollows)'
  BY <1>21 DEF SetWakeup, world, round, hw, ghost, Running
<1>22. ASSUME NEW n \in KeepTimes, CallKeepAlive(n) PROVE (TargetNoted /\ TargetFollows)'
  BY <1>22 DEF CallKeepAlive, HaveToWait, world, round, hw, ghost, Running
<1>23. CASE PowerChanges
  BY <1>23 DEF PowerChanges, Change, Untouched, world, round, hw, ghost, Running
<1>24. CASE BeaconChanges
  BY <1>24 DEF BeaconChanges, Change, Untouched, world, round, hw, ghost, Running
<1>25. CASE BatteryChanges
  BY <1>25 DEF BatteryChanges, Change, Untouched, world, round, hw, ghost, Running
<1>26. ASSUME NEW p \in Plugins, WorkChanges(p) PROVE (TargetNoted /\ TargetFollows)'
  BY <1>26 DEF WorkChanges, Change, Untouched, world, round, hw, ghost, Running
<1>27. CASE Boot
  BY <1>27 DEF Boot, Start, NoCall, Cleared, world, round, hw, ghost, Running
<1>28. CASE Tick
  BY <1>28 DEF Tick, Less, Older, world, round, hw, ghost, Running
<1>q. QED
  BY <1>0, <1>1, <1>2, <1>3, <1>4, <1>5, <1>6, <1>7, <1>8, <1>9, <1>10, <1>11, <1>12, <1>13, <1>14, <1>15, <1>16, <1>17, <1>18, <1>19, <1>20, <1>21, <1>22, <1>23, <1>24, <1>25, <1>26, <1>27, <1>28
     DEF Next, LoopStep, ControllerStep, OtherStep, Call, WorldStep

\* Every step keeps a reading of NOT_CHARGING tied to an outage.
LEMMA LossStep ==
    ASSUME TypeOK, Shape, DoubtIsRight, LossWasReal, [Next]_vars
    PROVE  (DoubtIsRight /\ LossWasReal)'
<1> USE LoopConstants DEF LoopConstants, TypeOK, WorldTypes, LoopTypes, LoopRecord, CallTypes, StoreTypes, HistoryTypes, Caller, Reason, Asked, Status, Shape, DoubtIsRight, LossWasReal
<1>0. CASE UNCHANGED vars
  BY <1>0 DEF vars, world, round, hw, ghost
<1>1. CASE ReadStatus
  <2>1. CASE loop' = [loop EXCEPT !.pc = "recheck"] /\ UNCHANGED keep /\ Reading("OFF")
    BY <1>1, <2>1 DEF ReadStatus, Reading, world, round, hw, ghost, Running
  <2>2. CASE \E r \in {"ON", "UNKNOWN"} : Reading(r) /\ Judged(r)
    <3>1. PICK r \in {"ON", "UNKNOWN"} : Judged(r)
      BY <2>2
    <3>2. loop'.pc \in {"targets", "sleep"} /\ loop'.raw = r /\ loop'.status = Effective(r)
      BY <3>1, JudgedTypes
    <3>q. QED
      BY <1>1, <3>1, <3>2 DEF ReadStatus, Judged, Effective, world, round, hw, ghost, Running
  <2>q. QED
    BY <1>1, <2>1, <2>2, ReadOutcome
<1>2. CASE ReadAgain
  BY <1>2 DEF ReadAgain, Reading, Judged, Effective, HaveToWait, Fails, Works, world, round, hw, ghost, Running
<1>3. CASE SwitchTarget
  BY <1>3 DEF SwitchTarget, world, round, hw, ghost, Running
<1>4. CASE Awake
  BY <1>4 DEF Awake, NextRound, Unready, KeptAlive, world, round, hw, ghost, Running
<1>5. CASE Decide
  BY <1>5 DEF Decide, TooSoon, Begin, Apply, Refused, NextRound, Verified, NoCall, world, round, hw, ghost, Running
<1>6. ASSUME NEW p \in Asked, Answer(p) PROVE (DoubtIsRight /\ LossWasReal)'
  BY <1>6 DEF Answer, Gathered, Unready, KeptAlive, Fails, Works, world, round, hw, ghost, Running
<1>7. ASSUME NEW c \in Caller, CheckBattery(c) PROVE (DoubtIsRight /\ LossWasReal)'
  BY <1>7 DEF CheckBattery, At, Move, Apply, Refused, NextRound, Verified, NoCall, Fails, Works, world, round, hw, ghost, Running
<1>8. ASSUME NEW c \in Caller, CheckCharging(c) PROVE (DoubtIsRight /\ LossWasReal)'
  BY <1>8 DEF CheckCharging, At, Reading, Apply, Refused, NextRound, Verified, NoCall, Fails, Works, world, round, hw, ghost, Running
<1>9. ASSUME NEW c \in Caller, SetTime(c) PROVE (DoubtIsRight /\ LossWasReal)'
  BY <1>9 DEF SetTime, At, Move, Refused, NextRound, NoCall, Fails, Works, world, round, hw, ghost, Running
<1>10. ASSUME NEW c \in Caller, SetRestore(c) PROVE (DoubtIsRight /\ LossWasReal)'
  BY <1>10 DEF SetRestore, At, Move, Fails, Works, world, round, hw, ghost, Running
<1>11. ASSUME NEW c \in Caller, SetEnabled(c) PROVE (DoubtIsRight /\ LossWasReal)'
  BY <1>11 DEF SetEnabled, At, Move, Enabled, Fails, Works, world, round, hw, ghost, Running
<1>12. ASSUME NEW c \in Caller, Commit(c) PROVE (DoubtIsRight /\ LossWasReal)'
  BY <1>12 DEF Commit, At, NoCall, world, round, hw, ghost, Running
<1>13. ASSUME NEW c \in Caller, Journalled(c) PROVE (DoubtIsRight /\ LossWasReal)'
  BY <1>13 DEF Journalled, Forced, world, round, hw, ghost, Running
<1>14. ASSUME NEW c \in Caller, CallPoweroff(c) PROVE (DoubtIsRight /\ LossWasReal)'
  BY <1>14 DEF CallPoweroff, Fails, Works, world, round, hw, ghost, Running
<1>15. CASE StoreDisabled
  BY <1>15 DEF StoreDisabled, world, round, hw, ghost, Running
<1>16. CASE GoDown
  BY <1>16 DEF GoDown, world, round, hw, ghost, Running
<1>17. ASSUME NEW t \in {"disarm", "restore"}, BootTask(t) PROVE (DoubtIsRight /\ LossWasReal)'
  BY <1>17 DEF BootTask, Fails, Works, world, round, hw, ghost, Running
<1>18. CASE CallShutdown
  BY <1>18 DEF CallShutdown, Begin, Apply, Refused, NextRound, Verified, NoCall, world, round, hw, ghost, Running
<1>19. CASE CallReboot
  BY <1>19 DEF CallReboot, world, round, hw, ghost, Running
<1>20. CASE DisableWakeup
  BY <1>20 DEF DisableWakeup, Fails, Works, world, round, hw, ghost, Running
<1>21. ASSUME NEW m \in Modes, SetWakeup(m) PROVE (DoubtIsRight /\ LossWasReal)'
  BY <1>21 DEF SetWakeup, world, round, hw, ghost, Running
<1>22. ASSUME NEW n \in KeepTimes, CallKeepAlive(n) PROVE (DoubtIsRight /\ LossWasReal)'
  BY <1>22 DEF CallKeepAlive, HaveToWait, world, round, hw, ghost, Running
<1>23. CASE PowerChanges
  BY <1>23 DEF PowerChanges, Change, Untouched, world, round, hw, ghost, Running
<1>24. CASE BeaconChanges
  BY <1>24 DEF BeaconChanges, Change, Untouched, world, round, hw, ghost, Running
<1>25. CASE BatteryChanges
  BY <1>25 DEF BatteryChanges, Change, Untouched, world, round, hw, ghost, Running
<1>26. ASSUME NEW p \in Plugins, WorkChanges(p) PROVE (DoubtIsRight /\ LossWasReal)'
  BY <1>26 DEF WorkChanges, Change, Untouched, world, round, hw, ghost, Running
<1>27. CASE Boot
  BY <1>27 DEF Boot, Start, NoCall, Cleared, world, round, hw, ghost, Running
<1>28. CASE Tick
  BY <1>28 DEF Tick, Less, Older, world, round, hw, ghost, Running
<1>q. QED
  BY <1>0, <1>1, <1>2, <1>3, <1>4, <1>5, <1>6, <1>7, <1>8, <1>9, <1>10, <1>11, <1>12, <1>13, <1>14, <1>15, <1>16, <1>17, <1>18, <1>19, <1>20, <1>21, <1>22, <1>23, <1>24, <1>25, <1>26, <1>27, <1>28
     DEF Next, LoopStep, ControllerStep, OtherStep, Call, WorldStep

\* Every step keeps the marker tied to a lost beacon.
LEMMA MarkerStep ==
    ASSUME TypeOK, Shape, MarkerMeansBeacon, [Next]_vars
    PROVE  MarkerMeansBeacon'
<1> USE LoopConstants DEF LoopConstants, TypeOK, WorldTypes, LoopTypes, LoopRecord, CallTypes, StoreTypes, HistoryTypes, Caller, Reason, Asked, Status, Shape, MarkerMeansBeacon
<1>0. CASE UNCHANGED vars
  BY <1>0 DEF vars, world, round, hw, ghost
<1>1. CASE ReadStatus
  BY <1>1 DEF ReadStatus, Reading, Doubted, Judged, Effective, HaveToWait, Fails, Works, world, round, hw, ghost, Running
<1>2. CASE ReadAgain
  BY <1>2 DEF ReadAgain, Reading, Judged, Effective, HaveToWait, Fails, Works, world, round, hw, ghost, Running
<1>3. CASE SwitchTarget
  BY <1>3 DEF SwitchTarget, world, round, hw, ghost, Running
<1>4. CASE Awake
  BY <1>4 DEF Awake, NextRound, Unready, KeptAlive, world, round, hw, ghost, Running
<1>5. CASE Decide
  BY <1>5 DEF Decide, TooSoon, Begin, Apply, Refused, NextRound, Verified, NoCall, world, round, hw, ghost, Running
<1>6. ASSUME NEW p \in Asked, Answer(p) PROVE MarkerMeansBeacon'
  BY <1>6 DEF Answer, Gathered, Unready, KeptAlive, Fails, Works, world, round, hw, ghost, Running
<1>7. ASSUME NEW c \in Caller, CheckBattery(c) PROVE MarkerMeansBeacon'
  BY <1>7 DEF CheckBattery, At, Move, Apply, Refused, NextRound, Verified, NoCall, Fails, Works, world, round, hw, ghost, Running
<1>8. ASSUME NEW c \in Caller, CheckCharging(c) PROVE MarkerMeansBeacon'
  BY <1>8 DEF CheckCharging, At, Reading, Apply, Refused, NextRound, Verified, NoCall, Fails, Works, world, round, hw, ghost, Running
<1>9. ASSUME NEW c \in Caller, SetTime(c) PROVE MarkerMeansBeacon'
  BY <1>9 DEF SetTime, At, Move, Refused, NextRound, NoCall, Fails, Works, world, round, hw, ghost, Running
<1>10. ASSUME NEW c \in Caller, SetRestore(c) PROVE MarkerMeansBeacon'
  BY <1>10 DEF SetRestore, At, Move, Fails, Works, world, round, hw, ghost, Running
<1>11. ASSUME NEW c \in Caller, SetEnabled(c) PROVE MarkerMeansBeacon'
  BY <1>11 DEF SetEnabled, At, Move, Enabled, Fails, Works, world, round, hw, ghost, Running
<1>12. ASSUME NEW c \in Caller, Commit(c) PROVE MarkerMeansBeacon'
  BY <1>12 DEF Commit, At, NoCall, world, round, hw, ghost, Running
<1>13. ASSUME NEW c \in Caller, Journalled(c) PROVE MarkerMeansBeacon'
  BY <1>13 DEF Journalled, Forced, world, round, hw, ghost, Running
<1>14. ASSUME NEW c \in Caller, CallPoweroff(c) PROVE MarkerMeansBeacon'
  BY <1>14 DEF CallPoweroff, Fails, Works, world, round, hw, ghost, Running
<1>15. CASE StoreDisabled
  BY <1>15 DEF StoreDisabled, world, round, hw, ghost, Running
<1>16. CASE GoDown
  BY <1>16 DEF GoDown, world, round, hw, ghost, Running
<1>17. ASSUME NEW t \in {"disarm", "restore"}, BootTask(t) PROVE MarkerMeansBeacon'
  BY <1>17 DEF BootTask, Fails, Works, world, round, hw, ghost, Running
<1>18. CASE CallShutdown
  BY <1>18 DEF CallShutdown, Begin, Apply, Refused, NextRound, Verified, NoCall, world, round, hw, ghost, Running
<1>19. CASE CallReboot
  BY <1>19 DEF CallReboot, world, round, hw, ghost, Running
<1>20. CASE DisableWakeup
  BY <1>20 DEF DisableWakeup, Fails, Works, world, round, hw, ghost, Running
<1>21. ASSUME NEW m \in Modes, SetWakeup(m) PROVE MarkerMeansBeacon'
  BY <1>21 DEF SetWakeup, world, round, hw, ghost, Running
<1>22. ASSUME NEW n \in KeepTimes, CallKeepAlive(n) PROVE MarkerMeansBeacon'
  BY <1>22 DEF CallKeepAlive, HaveToWait, world, round, hw, ghost, Running
<1>23. CASE PowerChanges
  BY <1>23 DEF PowerChanges, Change, Untouched, world, round, hw, ghost, Running
<1>24. CASE BeaconChanges
  BY <1>24 DEF BeaconChanges, Change, Untouched, world, round, hw, ghost, Running
<1>25. CASE BatteryChanges
  BY <1>25 DEF BatteryChanges, Change, Untouched, world, round, hw, ghost, Running
<1>26. ASSUME NEW p \in Plugins, WorkChanges(p) PROVE MarkerMeansBeacon'
  BY <1>26 DEF WorkChanges, Change, Untouched, world, round, hw, ghost, Running
<1>27. CASE Boot
  BY <1>27 DEF Boot, Start, NoCall, Cleared, world, round, hw, ghost, Running
<1>28. CASE Tick
  BY <1>28 DEF Tick, Less, Older, world, round, hw, ghost, Running
<1>q. QED
  BY <1>0, <1>1, <1>2, <1>3, <1>4, <1>5, <1>6, <1>7, <1>8, <1>9, <1>10, <1>11, <1>12, <1>13, <1>14, <1>15, <1>16, <1>17, <1>18, <1>19, <1>20, <1>21, <1>22, <1>23, <1>24, <1>25, <1>26, <1>27, <1>28
     DEF Next, LoopStep, ControllerStep, OtherStep, Call, WorldStep

\* Every step keeps the veto of a busy plugin.
LEMMA HeldStep ==
    ASSUME TypeOK, Shape, HeldAreBusy, [Next]_vars
    PROVE  HeldAreBusy'
<1> USE LoopConstants DEF LoopConstants, TypeOK, WorldTypes, LoopTypes, LoopRecord, CallTypes, StoreTypes, HistoryTypes, Caller, Reason, Asked, Status, Shape, HeldAreBusy, Unready, KeptAlive
<1>0. CASE UNCHANGED vars
  BY <1>0 DEF vars, world, round, hw, ghost
<1>1. CASE ReadStatus
  <2>1. CASE loop' = [loop EXCEPT !.pc = "recheck"] /\ UNCHANGED keep /\ Reading("OFF")
    BY <1>1, <2>1 DEF ReadStatus, Reading, world, round, hw, ghost, Running
  <2>2. CASE \E r \in {"ON", "UNKNOWN"} : Reading(r) /\ Judged(r)
    <3>1. PICK r \in {"ON", "UNKNOWN"} : Judged(r)
      BY <2>2
    <3>2. loop'.pc \in {"targets", "sleep"} /\ loop'.raw = r /\ loop'.status = Effective(r)
      BY <3>1, JudgedTypes
    <3>q. QED
      BY <1>1, <3>1, <3>2 DEF ReadStatus, Judged, Effective, world, round, hw, ghost, Running
  <2>q. QED
    BY <1>1, <2>1, <2>2, ReadOutcome
<1>2. CASE ReadAgain
  BY <1>2 DEF ReadAgain, Reading, Judged, Effective, HaveToWait, Fails, Works, world, round, hw, ghost, Running
<1>3. CASE SwitchTarget
  BY <1>3 DEF SwitchTarget, world, round, hw, ghost, Running
<1>4. CASE Awake
  <2>1. CASE loop.status = "OFF"
    <3>1. loop' = [loop EXCEPT !.pc = "ask", !.unasked = Asked, !.ready = TRUE]
      BY <1>4, <2>1 DEF Awake
    <3>2. held' = {p \in Asked : Unready(p)} /\ UNCHANGED <<keep, busy>>
      BY <1>4, <2>1 DEF Awake, world
    <3>q. QED
      BY <3>1, <3>2
  <2>2. CASE loop.status # "OFF"
    BY <1>4, <2>2 DEF Awake, NextRound
  <2>q. QED
    BY <2>1, <2>2
<1>5. CASE Decide
  BY <1>5 DEF Decide, TooSoon, Begin, Apply, Refused, NextRound, Verified, NoCall, world, round, hw, ghost, Running
<1>6. ASSUME NEW p \in Asked, Answer(p) PROVE HeldAreBusy'
  BY <1>6 DEF Answer, Gathered, Unready, KeptAlive, Fails, Works, world, round, hw, ghost, Running
<1>7. ASSUME NEW c \in Caller, CheckBattery(c) PROVE HeldAreBusy'
  BY <1>7 DEF CheckBattery, At, Move, Apply, Refused, NextRound, Verified, NoCall, Fails, Works, world, round, hw, ghost, Running
<1>8. ASSUME NEW c \in Caller, CheckCharging(c) PROVE HeldAreBusy'
  BY <1>8 DEF CheckCharging, At, Reading, Apply, Refused, NextRound, Verified, NoCall, Fails, Works, world, round, hw, ghost, Running
<1>9. ASSUME NEW c \in Caller, SetTime(c) PROVE HeldAreBusy'
  BY <1>9 DEF SetTime, At, Move, Refused, NextRound, NoCall, Fails, Works, world, round, hw, ghost, Running
<1>10. ASSUME NEW c \in Caller, SetRestore(c) PROVE HeldAreBusy'
  BY <1>10 DEF SetRestore, At, Move, Fails, Works, world, round, hw, ghost, Running
<1>11. ASSUME NEW c \in Caller, SetEnabled(c) PROVE HeldAreBusy'
  BY <1>11 DEF SetEnabled, At, Move, Enabled, Fails, Works, world, round, hw, ghost, Running
<1>12. ASSUME NEW c \in Caller, Commit(c) PROVE HeldAreBusy'
  BY <1>12 DEF Commit, At, NoCall, world, round, hw, ghost, Running
<1>13. ASSUME NEW c \in Caller, Journalled(c) PROVE HeldAreBusy'
  BY <1>13 DEF Journalled, Forced, world, round, hw, ghost, Running
<1>14. ASSUME NEW c \in Caller, CallPoweroff(c) PROVE HeldAreBusy'
  BY <1>14 DEF CallPoweroff, Fails, Works, world, round, hw, ghost, Running
<1>15. CASE StoreDisabled
  BY <1>15 DEF StoreDisabled, world, round, hw, ghost, Running
<1>16. CASE GoDown
  BY <1>16 DEF GoDown, world, round, hw, ghost, Running
<1>17. ASSUME NEW t \in {"disarm", "restore"}, BootTask(t) PROVE HeldAreBusy'
  BY <1>17 DEF BootTask, Fails, Works, world, round, hw, ghost, Running
<1>18. CASE CallShutdown
  BY <1>18 DEF CallShutdown, Begin, Apply, Refused, NextRound, Verified, NoCall, world, round, hw, ghost, Running
<1>19. CASE CallReboot
  BY <1>19 DEF CallReboot, world, round, hw, ghost, Running
<1>20. CASE DisableWakeup
  BY <1>20 DEF DisableWakeup, Fails, Works, world, round, hw, ghost, Running
<1>21. ASSUME NEW m \in Modes, SetWakeup(m) PROVE HeldAreBusy'
  BY <1>21 DEF SetWakeup, world, round, hw, ghost, Running
<1>22. ASSUME NEW n \in KeepTimes, CallKeepAlive(n) PROVE HeldAreBusy'
  BY <1>22 DEF CallKeepAlive, HaveToWait, world, round, hw, ghost, Running
<1>23. CASE PowerChanges
  BY <1>23 DEF PowerChanges, Change, Untouched, world, round, hw, ghost, Running
<1>24. CASE BeaconChanges
  BY <1>24 DEF BeaconChanges, Change, Untouched, world, round, hw, ghost, Running
<1>25. CASE BatteryChanges
  BY <1>25 DEF BatteryChanges, Change, Untouched, world, round, hw, ghost, Running
<1>26. ASSUME NEW p \in Plugins, WorkChanges(p) PROVE HeldAreBusy'
  BY <1>26 DEF WorkChanges, Change, Untouched, world, round, hw, ghost, Running
<1>27. CASE Boot
  BY <1>27 DEF Boot, Start, NoCall, Cleared, world, round, hw, ghost, Running
<1>28. CASE Tick
  BY <1>28 DEF Tick, Less, Older, world, round, hw, ghost, Running
<1>q. QED
  BY <1>0, <1>1, <1>2, <1>3, <1>4, <1>5, <1>6, <1>7, <1>8, <1>9, <1>10, <1>11, <1>12, <1>13, <1>14, <1>15, <1>16, <1>17, <1>18, <1>19, <1>20, <1>21, <1>22, <1>23, <1>24, <1>25, <1>26, <1>27, <1>28
     DEF Next, LoopStep, ControllerStep, OtherStep, Call, WorldStep

\* Every step keeps the two clocks of the attempts in order.
LEMMA AttemptStep ==
    ASSUME TypeOK, AttemptIsNoOlder, [Next]_vars
    PROVE  AttemptIsNoOlder'
<1> USE LoopConstants DEF LoopConstants, TypeOK, WorldTypes, LoopTypes, LoopRecord, CallTypes, StoreTypes, HistoryTypes, Caller, Reason, Asked, Status, AttemptIsNoOlder
<1>0. CASE UNCHANGED vars
  BY <1>0 DEF vars, world, round, hw, ghost
<1>1. CASE ReadStatus
  BY <1>1 DEF ReadStatus, Reading, Doubted, Judged, Effective, HaveToWait, Fails, Works, world, round, hw, ghost, Running
<1>2. CASE ReadAgain
  BY <1>2 DEF ReadAgain, Reading, Judged, Effective, HaveToWait, Fails, Works, world, round, hw, ghost, Running
<1>3. CASE SwitchTarget
  BY <1>3 DEF SwitchTarget, world, round, hw, ghost, Running
<1>4. CASE Awake
  BY <1>4 DEF Awake, NextRound, Unready, KeptAlive, world, round, hw, ghost, Running
<1>5. CASE Decide
  BY <1>5 DEF Decide, TooSoon, Begin, Apply, Refused, NextRound, Verified, NoCall, world, round, hw, ghost, Running
<1>6. ASSUME NEW p \in Asked, Answer(p) PROVE AttemptIsNoOlder'
  BY <1>6 DEF Answer, Gathered, Unready, KeptAlive, Fails, Works, world, round, hw, ghost, Running
<1>7. ASSUME NEW c \in Caller, CheckBattery(c) PROVE AttemptIsNoOlder'
  BY <1>7 DEF CheckBattery, At, Move, Apply, Refused, NextRound, Verified, NoCall, Fails, Works, world, round, hw, ghost, Running
<1>8. ASSUME NEW c \in Caller, CheckCharging(c) PROVE AttemptIsNoOlder'
  BY <1>8 DEF CheckCharging, At, Reading, Apply, Refused, NextRound, Verified, NoCall, Fails, Works, world, round, hw, ghost, Running
<1>9. ASSUME NEW c \in Caller, SetTime(c) PROVE AttemptIsNoOlder'
  BY <1>9 DEF SetTime, At, Move, Refused, NextRound, NoCall, Fails, Works, world, round, hw, ghost, Running
<1>10. ASSUME NEW c \in Caller, SetRestore(c) PROVE AttemptIsNoOlder'
  BY <1>10 DEF SetRestore, At, Move, Fails, Works, world, round, hw, ghost, Running
<1>11. ASSUME NEW c \in Caller, SetEnabled(c) PROVE AttemptIsNoOlder'
  BY <1>11 DEF SetEnabled, At, Move, Enabled, Fails, Works, world, round, hw, ghost, Running
<1>12. ASSUME NEW c \in Caller, Commit(c) PROVE AttemptIsNoOlder'
  BY <1>12 DEF Commit, At, NoCall, world, round, hw, ghost, Running
<1>13. ASSUME NEW c \in Caller, Journalled(c) PROVE AttemptIsNoOlder'
  BY <1>13 DEF Journalled, Forced, world, round, hw, ghost, Running
<1>14. ASSUME NEW c \in Caller, CallPoweroff(c) PROVE AttemptIsNoOlder'
  BY <1>14 DEF CallPoweroff, Fails, Works, world, round, hw, ghost, Running
<1>15. CASE StoreDisabled
  BY <1>15 DEF StoreDisabled, world, round, hw, ghost, Running
<1>16. CASE GoDown
  BY <1>16 DEF GoDown, world, round, hw, ghost, Running
<1>17. ASSUME NEW t \in {"disarm", "restore"}, BootTask(t) PROVE AttemptIsNoOlder'
  BY <1>17 DEF BootTask, Fails, Works, world, round, hw, ghost, Running
<1>18. CASE CallShutdown
  BY <1>18 DEF CallShutdown, Begin, Apply, Refused, NextRound, Verified, NoCall, world, round, hw, ghost, Running
<1>19. CASE CallReboot
  BY <1>19 DEF CallReboot, world, round, hw, ghost, Running
<1>20. CASE DisableWakeup
  BY <1>20 DEF DisableWakeup, Fails, Works, world, round, hw, ghost, Running
<1>21. ASSUME NEW m \in Modes, SetWakeup(m) PROVE AttemptIsNoOlder'
  BY <1>21 DEF SetWakeup, world, round, hw, ghost, Running
<1>22. ASSUME NEW n \in KeepTimes, CallKeepAlive(n) PROVE AttemptIsNoOlder'
  BY <1>22 DEF CallKeepAlive, HaveToWait, world, round, hw, ghost, Running
<1>23. CASE PowerChanges
  BY <1>23 DEF PowerChanges, Change, Untouched, world, round, hw, ghost, Running
<1>24. CASE BeaconChanges
  BY <1>24 DEF BeaconChanges, Change, Untouched, world, round, hw, ghost, Running
<1>25. CASE BatteryChanges
  BY <1>25 DEF BatteryChanges, Change, Untouched, world, round, hw, ghost, Running
<1>26. ASSUME NEW p \in Plugins, WorkChanges(p) PROVE AttemptIsNoOlder'
  BY <1>26 DEF WorkChanges, Change, Untouched, world, round, hw, ghost, Running
<1>27. CASE Boot
  BY <1>27 DEF Boot, Start, NoCall, Cleared, world, round, hw, ghost, Running
<1>28. CASE Tick
  BY <1>28 DEF Tick, Less, Older, world, round, hw, ghost, Running
<1>q. QED
  BY <1>0, <1>1, <1>2, <1>3, <1>4, <1>5, <1>6, <1>7, <1>8, <1>9, <1>10, <1>11, <1>12, <1>13, <1>14, <1>15, <1>16, <1>17, <1>18, <1>19, <1>20, <1>21, <1>22, <1>23, <1>24, <1>25, <1>26, <1>27, <1>28
     DEF Next, LoopStep, ControllerStep, OtherStep, Call, WorldStep

\* The tasks of start() are over before the loop's first sleep is.
LEMMA BootTasksStep ==
    ASSUME TypeOK, Shape, BootTasksFirst, [Next]_vars
    PROVE  BootTasksFirst'
<1> USE LoopConstants DEF LoopConstants, TypeOK, WorldTypes, LoopTypes, LoopRecord, CallTypes, StoreTypes, HistoryTypes, Caller, Reason, Asked, Status, BootTasksFirst
<1>0. CASE UNCHANGED vars
  BY <1>0 DEF vars, world, round, hw, ghost
<1>1. CASE ReadStatus
  <2>1. bootTasks' = bootTasks /\ phase' = phase /\ loop.pc = "read"
    BY <1>1 DEF ReadStatus
  <2>2. CASE loop' = [loop EXCEPT !.pc = "recheck"]
    BY <2>1, <2>2
  <2>3. CASE \E r \in {"ON", "UNKNOWN"} : Reading(r) /\ Judged(r)
    BY <2>1, <2>3 DEF Judged
  <2>q. QED
    BY <1>1, <2>2, <2>3, ReadOutcome
<1>2. CASE ReadAgain
  BY <1>2 DEF ReadAgain, Reading, Judged, Effective, HaveToWait, Fails, Works, world, round, hw, ghost, Running
<1>3. CASE SwitchTarget
  BY <1>3 DEF SwitchTarget, world, round, hw, ghost, Running
<1>4. CASE Awake
  BY <1>4 DEF Awake, NextRound, Unready, KeptAlive, world, round, hw, ghost, Running
<1>5. CASE Decide
  BY <1>5 DEF Decide, TooSoon, Begin, Apply, Refused, NextRound, Verified, NoCall, world, round, hw, ghost, Running
<1>6. ASSUME NEW p \in Asked, Answer(p) PROVE BootTasksFirst'
  BY <1>6 DEF Answer, Gathered, Unready, KeptAlive, Fails, Works, world, round, hw, ghost, Running
<1>7. ASSUME NEW c \in Caller, CheckBattery(c) PROVE BootTasksFirst'
  <2>1. loop.pc = "apply"
    BY <1>7 DEF CheckBattery, At, Shape
  <2>q. QED
    BY <1>7, <2>1 DEF CheckBattery
<1>8. ASSUME NEW c \in Caller, CheckCharging(c) PROVE BootTasksFirst'
  <2>1. loop.pc = "apply"
    BY <1>8 DEF CheckCharging, At, Shape
  <2>q. QED
    BY <1>8, <2>1 DEF CheckCharging
<1>9. ASSUME NEW c \in Caller, SetTime(c) PROVE BootTasksFirst'
  BY <1>9 DEF SetTime, At, Move, Refused, NextRound, NoCall, Fails, Works, world, round, hw, ghost, Running
<1>10. ASSUME NEW c \in Caller, SetRestore(c) PROVE BootTasksFirst'
  BY <1>10 DEF SetRestore, At, Move, Fails, Works, world, round, hw, ghost, Running
<1>11. ASSUME NEW c \in Caller, SetEnabled(c) PROVE BootTasksFirst'
  BY <1>11 DEF SetEnabled, At, Move, Enabled, Fails, Works, world, round, hw, ghost, Running
<1>12. ASSUME NEW c \in Caller, Commit(c) PROVE BootTasksFirst'
  <2>1. c = "loop" => loop.pc = "apply"
    BY <1>12 DEF Commit, At, Shape
  <2>2. bootTasks' = bootTasks /\ phase' = phase /\ (c # "loop" => loop' = loop)
    BY <1>12 DEF Commit
  <2>q. QED
    BY <2>1, <2>2
<1>13. ASSUME NEW c \in Caller, Journalled(c) PROVE BootTasksFirst'
  BY <1>13 DEF Journalled, Forced, world, round, hw, ghost, Running
<1>14. ASSUME NEW c \in Caller, CallPoweroff(c) PROVE BootTasksFirst'
  BY <1>14 DEF CallPoweroff, Fails, Works, world, round, hw, ghost, Running
<1>15. CASE StoreDisabled
  BY <1>15 DEF StoreDisabled, world, round, hw, ghost, Running
<1>16. CASE GoDown
  BY <1>16 DEF GoDown, world, round, hw, ghost, Running
<1>17. ASSUME NEW t \in {"disarm", "restore"}, BootTask(t) PROVE BootTasksFirst'
  BY <1>17 DEF BootTask, Fails, Works, world, round, hw, ghost, Running
<1>18. CASE CallShutdown
  BY <1>18 DEF CallShutdown, Begin, Apply, Refused, NextRound, Verified, NoCall, world, round, hw, ghost, Running
<1>19. CASE CallReboot
  BY <1>19 DEF CallReboot, world, round, hw, ghost, Running
<1>20. CASE DisableWakeup
  BY <1>20 DEF DisableWakeup, Fails, Works, world, round, hw, ghost, Running
<1>21. ASSUME NEW m \in Modes, SetWakeup(m) PROVE BootTasksFirst'
  BY <1>21 DEF SetWakeup, world, round, hw, ghost, Running
<1>22. ASSUME NEW n \in KeepTimes, CallKeepAlive(n) PROVE BootTasksFirst'
  BY <1>22 DEF CallKeepAlive, HaveToWait, world, round, hw, ghost, Running
<1>23. CASE PowerChanges
  BY <1>23 DEF PowerChanges, Change, Untouched, world, round, hw, ghost, Running
<1>24. CASE BeaconChanges
  BY <1>24 DEF BeaconChanges, Change, Untouched, world, round, hw, ghost, Running
<1>25. CASE BatteryChanges
  BY <1>25 DEF BatteryChanges, Change, Untouched, world, round, hw, ghost, Running
<1>26. ASSUME NEW p \in Plugins, WorkChanges(p) PROVE BootTasksFirst'
  BY <1>26 DEF WorkChanges, Change, Untouched, world, round, hw, ghost, Running
<1>27. CASE Boot
  BY <1>27 DEF Boot, Start, NoCall, Cleared, world, round, hw, ghost, Running
<1>28. CASE Tick
  <2>1. bootTasks' = bootTasks /\ phase' = phase /\ (phase = "off" \/ bootTasks = {})
    BY <1>28 DEF Tick, Quiet
  <2>q. QED
    BY <2>1
<1>q. QED
  BY <1>0, <1>1, <1>2, <1>3, <1>4, <1>5, <1>6, <1>7, <1>8, <1>9, <1>10, <1>11, <1>12, <1>13, <1>14, <1>15, <1>16, <1>17, <1>18, <1>19, <1>20, <1>21, <1>22, <1>23, <1>24, <1>25, <1>26, <1>27, <1>28
     DEF Next, LoopStep, ControllerStep, OtherStep, Call, WorldStep

\* As long as nobody calls and nothing fails, each step keeps the alarm in line.
LEMMA ArmedStep ==
    ASSUME TypeOK, Shape, BootTasksFirst, Armed, [Next]_vars
    PROVE  Armed'
<1> USE LoopConstants DEF LoopConstants, TypeOK, WorldTypes, LoopTypes, LoopRecord, CallTypes, StoreTypes, HistoryTypes, Caller, Reason, Asked, Status, Shape, BootTasksFirst, Armed
<1>0. CASE UNCHANGED vars
  BY <1>0 DEF vars, world, round, hw, ghost
<1>1. CASE ReadStatus
  BY <1>1 DEF ReadStatus, Reading, Doubted, Judged, Effective, HaveToWait, Fails, Works, world, round, hw, ghost, Running
<1>2. CASE ReadAgain
  BY <1>2 DEF ReadAgain, Reading, Judged, Effective, HaveToWait, Fails, Works, world, round, hw, ghost, Running
<1>3. CASE SwitchTarget
  BY <1>3 DEF SwitchTarget, world, round, hw, ghost, Running
<1>4. CASE Awake
  BY <1>4 DEF Awake, NextRound, Unready, KeptAlive, world, round, hw, ghost, Running
<1>5. CASE Decide
  BY <1>5 DEF Decide, TooSoon, Begin, Apply, Refused, NextRound, Verified, NoCall, world, round, hw, ghost, Running
<1>6. ASSUME NEW p \in Asked, Answer(p) PROVE Armed'
  BY <1>6 DEF Answer, Gathered, Unready, KeptAlive, Fails, Works, world, round, hw, ghost, Running
<1>7. ASSUME NEW c \in Caller, CheckBattery(c) PROVE Armed'
  BY <1>7 DEF CheckBattery, At, Move, Apply, Refused, NextRound, Verified, NoCall, Fails, Works, world, round, hw, ghost, Running
<1>8. ASSUME NEW c \in Caller, CheckCharging(c) PROVE Armed'
  BY <1>8 DEF CheckCharging, At, Reading, Apply, Refused, NextRound, Verified, NoCall, Fails, Works, world, round, hw, ghost, Running
<1>9. ASSUME NEW c \in Caller, SetTime(c) PROVE Armed'
  BY <1>9 DEF SetTime, At, Move, Refused, NextRound, NoCall, Fails, Works, world, round, hw, ghost, Running
<1>10. ASSUME NEW c \in Caller, SetRestore(c) PROVE Armed'
  BY <1>10 DEF SetRestore, At, Move, Fails, Works, world, round, hw, ghost, Running
<1>11. ASSUME NEW c \in Caller, SetEnabled(c) PROVE Armed'
  <2> SUFFICES ASSUME calls' = MaxCalls, faults' = MaxFaults PROVE Armed'
    BY DEF Armed
  <2>1. UNCHANGED <<calls, faults, loop, task, saved, alarmIn, disarming, phase>>
        /\ alarmOn' = (ctl[c].alarm > 0) /\ ctl[c].pc = "enable" /\ ctl' = [ctl EXCEPT ![c].pc = "log"]
    BY <1>11 DEF SetEnabled, At, Move, Enabled, Fails, Works, round
  <2>2. c = "loop" /\ loop.pc = "apply"
    BY <2>1
  <2>3. task["loop"] = "none" /\ phase = "up"
    BY <2>1, <2>2
  <2>4. ctl'["hand"] = ctl["hand"] /\ ctl'["loop"].alarm = ctl["loop"].alarm /\ ctl'["loop"].pc = "log"
    BY <2>1, <2>2
  <2>5. ctl["loop"].alarm > 0 => alarmIn' = ctl["loop"].alarm /\ alarmOn'
    BY <2>1, <2>2
  <2>q. QED
    BY <2>1, <2>3, <2>4, <2>5
<1>12. ASSUME NEW c \in Caller, Commit(c) PROVE Armed'
  <2>1. CASE Fails
    BY <1>12, <2>1 DEF Commit, Fails
  <2>2. CASE Works /\ saved' = ctl[c].alarm /\ task' = [task EXCEPT ![c] = "journal"]
    BY <1>12, <2>2 DEF Commit, At, NoCall, Works, world, round, hw, ghost, Running
  <2>q. QED
    BY <1>12, <2>1, <2>2 DEF Commit
<1>13. ASSUME NEW c \in Caller, Journalled(c) PROVE Armed'
  BY <1>13 DEF Journalled, Forced, world, round, hw, ghost, Running
<1>14. ASSUME NEW c \in Caller, CallPoweroff(c) PROVE Armed'
  BY <1>14 DEF CallPoweroff, Fails, Works, world, round, hw, ghost, Running
<1>15. CASE StoreDisabled
  BY <1>15 DEF StoreDisabled, world, round, hw, ghost, Running
<1>16. CASE GoDown
  BY <1>16 DEF GoDown, world, round, hw, ghost, Running
<1>17. ASSUME NEW t \in {"disarm", "restore"}, BootTask(t) PROVE Armed'
  BY <1>17 DEF BootTask, Fails, Works, world, round, hw, ghost, Running
<1>18. CASE CallShutdown
  BY <1>18 DEF CallShutdown, Begin, Apply, Refused, NextRound, Verified, NoCall, world, round, hw, ghost, Running
<1>19. CASE CallReboot
  BY <1>19 DEF CallReboot, world, round, hw, ghost, Running
<1>20. CASE DisableWakeup
  BY <1>20 DEF DisableWakeup, Fails, Works, world, round, hw, ghost, Running
<1>21. ASSUME NEW m \in Modes, SetWakeup(m) PROVE Armed'
  BY <1>21 DEF SetWakeup, world, round, hw, ghost, Running
<1>22. ASSUME NEW n \in KeepTimes, CallKeepAlive(n) PROVE Armed'
  BY <1>22 DEF CallKeepAlive, HaveToWait, world, round, hw, ghost, Running
<1>23. CASE PowerChanges
  BY <1>23 DEF PowerChanges, Change, Untouched, world, round, hw, ghost, Running
<1>24. CASE BeaconChanges
  BY <1>24 DEF BeaconChanges, Change, Untouched, world, round, hw, ghost, Running
<1>25. CASE BatteryChanges
  BY <1>25 DEF BatteryChanges, Change, Untouched, world, round, hw, ghost, Running
<1>26. ASSUME NEW p \in Plugins, WorkChanges(p) PROVE Armed'
  BY <1>26 DEF WorkChanges, Change, Untouched, world, round, hw, ghost, Running
<1>27. CASE Boot
  BY <1>27 DEF Boot, Start, NoCall, Cleared, world, round, hw, ghost, Running
<1>28. CASE Tick
  <2> SUFFICES ASSUME calls' = MaxCalls, faults' = MaxFaults PROVE Armed'
    BY DEF Armed
  <2>1. /\ UNCHANGED <<calls, faults, ctl, task, alarmOn, disarming, phase>>
        /\ loop'.pc = loop.pc /\ saved' = Less(saved) /\ alarmIn' = Less(alarmIn)
        /\ phase # "stopping"
        /\ phase = "up" => ctl["loop"].pc = "none" /\ task["loop"] = "none"
    BY <1>28 DEF Tick, Quiet
  <2>2. ctl["loop"].pc = "none"
    BY <2>1
  <2>3. Less(saved) > 0 => saved > 0
    BY DEF Less
  <2>q. QED
    BY <2>1, <2>2, <2>3
<1>q. QED
  BY <1>0, <1>1, <1>2, <1>3, <1>4, <1>5, <1>6, <1>7, <1>8, <1>9, <1>10, <1>11, <1>12, <1>13, <1>14, <1>15, <1>16, <1>17, <1>18, <1>19, <1>20, <1>21, <1>22, <1>23, <1>24, <1>25, <1>26, <1>27, <1>28
     DEF Next, LoopStep, ControllerStep, OtherStep, Call, WorldStep

-----------------------------------------------------------------------------

IInv ==
    /\ TypeOK /\ Shape
    /\ TargetNoted /\ TargetFollows
    /\ DoubtIsRight /\ LossWasReal
    /\ MarkerMeansBeacon
    /\ HeldAreBusy
    /\ AttemptIsNoOlder
    /\ BootTasksFirst /\ Armed

LEMMA InitIInv == Init => IInv
<1> SUFFICES ASSUME Init PROVE IInv
  OBVIOUS
<1> USE LoopConstants DEF LoopConstants, Init, Caller, Reason, Asked, Status, Start, NoCall
<1>1. WorldTypes
  <2>1. gone \in BOOLEAN /\ low \in BOOLEAN /\ lied \in BOOLEAN
    OBVIOUS
  <2>q. QED
    BY <2>1 DEF WorldTypes
<1>2. LoopTypes
  <2>1. loop \in LoopRecord
    BY DEF LoopRecord
  <2>2. target \in BOOLEAN
    OBVIOUS
  <2>3. keep \in [Reason -> Nat]
    BY DEF Granted
  <2>4. last \in Status /\ mode \in Modes
    OBVIOUS
  <2>5. attempt \in 0 .. RetryGap + 1
    OBVIOUS
  <2> HIDE DEF Init, Reason, Status
  <2>q. QED
    BY <2>1, <2>2, <2>3, <2>4, <2>5 DEF LoopTypes
<1>3. CallTypes
  <2>1. disarming \in BOOLEAN
    OBVIOUS
  <2>q. QED
    BY <2>1 DEF CallTypes
<1>4. StoreTypes
  <2>1. alarmOn \in BOOLEAN /\ restoreOn \in BOOLEAN /\ marker \in BOOLEAN
    OBVIOUS
  <2>q. QED
    BY <2>1 DEF StoreTypes
<1>5. HistoryTypes
  <2>1. outage \in BOOLEAN
    OBVIOUS
  <2>q. QED
    BY <2>1 DEF HistoryTypes
<1>6. Shape
  BY DEF Shape
<1>7. TargetNoted /\ TargetFollows /\ DoubtIsRight /\ LossWasReal
  BY DEF TargetNoted, TargetFollows, DoubtIsRight, LossWasReal
<1>8. MarkerMeansBeacon /\ HeldAreBusy /\ AttemptIsNoOlder
  BY DEF MarkerMeansBeacon, HeldAreBusy, AttemptIsNoOlder
<1>9. BootTasksFirst /\ Armed
  BY DEF BootTasksFirst, Armed
<1>q. QED
  BY <1>1, <1>2, <1>3, <1>4, <1>5, <1>6, <1>7, <1>8, <1>9 DEF IInv, TypeOK

LEMMA IInvStep == IInv /\ [Next]_vars => IInv'
<1> SUFFICES ASSUME IInv, [Next]_vars PROVE IInv'
  OBVIOUS
<1>1. TypeOK'
  BY TypeStep DEF IInv
<1>2. Shape'
  BY ShapeStep DEF IInv
<1>3. TargetNoted' /\ TargetFollows'
  BY TargetStep DEF IInv
<1>4. DoubtIsRight' /\ LossWasReal'
  BY LossStep DEF IInv
<1>5. MarkerMeansBeacon' /\ HeldAreBusy' /\ AttemptIsNoOlder'
  BY MarkerStep, HeldStep, AttemptStep DEF IInv
<1>6. BootTasksFirst' /\ Armed'
  BY BootTasksStep, ArmedStep DEF IInv
<1>q. QED
  BY <1>1, <1>2, <1>3, <1>4, <1>5, <1>6 DEF IInv

LEMMA Inductive == Spec => []IInv
  BY InitIInv, IInvStep, PTL DEF Spec

\* The state of the power plugin always has its type.
THEOREM PowerTypes == Spec => []TypeOK
<1>1. IInv => TypeOK
  BY DEF IInv
<1>q. QED
  BY Inductive, <1>1, PTL

\* While the loop waits and decides, vrg-charging.target runs exactly when the
\* status it acts on is CHARGING.
THEOREM TargetIsInLine == Spec => []TargetFollows
<1>1. IInv => TargetFollows
  BY DEF IInv
<1>q. QED
  BY Inductive, <1>1, PTL

\* One wrong reading of the PiSugar never shuts the device down.
THEOREM OneLieIsNotEnough == Spec => []LossWasReal
<1>1. IInv => LossWasReal
  BY DEF IInv
<1>q. QED
  BY Inductive, <1>1, PTL

\* The power cut is forced only on account of a beacon lost with power present.
THEOREM OnlyTheBeaconForces == Spec => []MarkerMeansBeacon
<1>1. IInv => MarkerMeansBeacon
  BY DEF IInv
<1>q. QED
  BY Inductive, <1>1, PTL

\* A plugin, or a keep-alive, that lasts from the question to the decision and was
\* answered for keeps the loop from shutting down.
THEOREM BusyPluginsVeto == Spec => []BusyVetoes
<1>1. IInv => BusyVetoes
  BY DEF IInv, HeldAreBusy, BusyVetoes
<1>q. QED
  BY Inductive, <1>1, PTL

\* A device that sleeps with an alarm in its configuration is armed with that alarm, whatever
\* start() and the rounds before did to the PiSugar.
THEOREM SleepersAreArmed == Spec => []SleepIsArmed
<1>1. IInv => SleepIsArmed
  BY DEF IInv, Armed, SleepIsArmed
<1>q. QED
  BY Inductive, <1>1, PTL

\* No step but Decide takes the loop from the answers to the controller.
LEMMA OnlyDecideAttempts ==
    ASSUME TypeOK, Shape, Next, Attempts
    PROVE  Decide
<1> USE DEF Attempts, TypeOK, LoopTypes, LoopRecord, CallTypes, Shape, Caller
<1>1. ASSUME ReadStatus PROVE FALSE
  BY <1>1 DEF ReadStatus, round
<1>2. ASSUME ReadAgain PROVE FALSE
  BY <1>2 DEF ReadAgain, round
<1>3. ASSUME SwitchTarget PROVE FALSE
  BY <1>3 DEF SwitchTarget, round
<1>4. ASSUME Awake PROVE FALSE
  BY <1>4 DEF Awake, NextRound, round
<1>5. ASSUME NEW p \in Asked, Answer(p) PROVE FALSE
  BY <1>5 DEF Answer, round
<1>6. ASSUME NEW c \in Caller, CheckBattery(c) PROVE FALSE
  BY <1>6 DEF CheckBattery, At, Move, Apply, Refused, NextRound, round
<1>7. ASSUME NEW c \in Caller, CheckCharging(c) PROVE FALSE
  BY <1>7 DEF CheckCharging, At, Apply, Refused, NextRound, round
<1>8. ASSUME NEW c \in Caller, SetTime(c) PROVE FALSE
  BY <1>8 DEF SetTime, At, Move, Refused, NextRound, round
<1>9. ASSUME NEW c \in Caller, SetRestore(c) PROVE FALSE
  BY <1>9 DEF SetRestore, round
<1>10. ASSUME NEW c \in Caller, SetEnabled(c) PROVE FALSE
  BY <1>10 DEF SetEnabled, round
<1>11. ASSUME NEW c \in Caller, Commit(c) PROVE FALSE
  BY <1>11 DEF Commit, At, round
<1>12. ASSUME NEW c \in Caller, Journalled(c) PROVE FALSE
  BY <1>12 DEF Journalled, round
<1>13. ASSUME NEW c \in Caller, CallPoweroff(c) PROVE FALSE
  BY <1>13 DEF CallPoweroff, round
<1>14. ASSUME StoreDisabled PROVE FALSE
  BY <1>14 DEF StoreDisabled, round
<1>15. ASSUME GoDown PROVE FALSE
  BY <1>15 DEF GoDown, round
<1>16. ASSUME NEW t \in {"disarm", "restore"}, BootTask(t) PROVE FALSE
  BY <1>16 DEF BootTask, round
<1>17. ASSUME CallShutdown PROVE FALSE
  BY <1>17 DEF CallShutdown, Begin, Apply, Refused, NextRound, round
<1>18. ASSUME CallReboot PROVE FALSE
  BY <1>18 DEF CallReboot, round
<1>19. ASSUME DisableWakeup PROVE FALSE
  BY <1>19 DEF DisableWakeup, round
<1>20. ASSUME NEW m \in Modes, SetWakeup(m) PROVE FALSE
  BY <1>20 DEF SetWakeup, round
<1>21. ASSUME NEW n \in KeepTimes, CallKeepAlive(n) PROVE FALSE
  BY <1>21 DEF CallKeepAlive, round
<1>22. ASSUME PowerChanges PROVE FALSE
  BY <1>22 DEF PowerChanges, Untouched, round
<1>23. ASSUME BeaconChanges PROVE FALSE
  BY <1>23 DEF BeaconChanges, Untouched, round
<1>24. ASSUME BatteryChanges PROVE FALSE
  BY <1>24 DEF BatteryChanges, Untouched, round
<1>25. ASSUME NEW p \in Plugins, WorkChanges(p) PROVE FALSE
  BY <1>25 DEF WorkChanges, Untouched, round
<1>26. ASSUME Boot PROVE FALSE
  BY <1>26 DEF Boot, Start, round
<1>27. ASSUME Tick PROVE FALSE
  BY <1>27 DEF Tick, round
<1>q. QED
  BY <1>1, <1>2, <1>3, <1>4, <1>5, <1>6, <1>7, <1>8, <1>9, <1>10, <1>11, <1>12, <1>13, <1>14, <1>15, <1>16, <1>17, <1>18, <1>19, <1>20, <1>21, <1>22, <1>23, <1>24, <1>25, <1>26, <1>27
     DEF Next, LoopStep, ControllerStep, OtherStep, Call, WorldStep

\* The loop's attempts are more than thirty seconds apart unless power came back.
THEOREM LoopIsPatient == Spec => AttemptsSpaced
<1>1. IInv /\ [Next]_vars => [Attempts => sinceTry > RetryGap]_vars
  <2> SUFFICES ASSUME IInv, Next, Attempts PROVE sinceTry > RetryGap
    BY DEF vars, round, Attempts
  <2>1. Decide
    BY OnlyDecideAttempts DEF IInv
  <2>2. ~TooSoon
    BY <2>1 DEF Attempts, Decide, NextRound, IInv, TypeOK, LoopTypes, LoopRecord
  <2>q. QED
    BY <2>2, LoopConstants
       DEF LoopConstants, IInv, TypeOK, LoopTypes, HistoryTypes, AttemptIsNoOlder, TooSoon
<1>q. QED
  BY Inductive, <1>1, PTL DEF Spec, AttemptsSpaced

=============================================================================
