----------------------------- MODULE PowerLoop -----------------------------
(***************************************************************************)
(* The power plugin's decision to go down (plugins/org_vrg_power): the     *)
(* loop that reads the charging status, asks the plugins and shuts the     *)
(* device down, and the shutdown, set_wakeup, keep_alive and reboot calls  *)
(* that run beside it. All are coroutines of one event loop: they          *)
(* interleave at every PiSugar command and at every answer awaited.        *)
(* What the scripts make of the poweroff is the module PowerCut.           *)
(*                                                                         *)
(* Time is relative: every instant the code keeps is stored as the ticks   *)
(* still to go or already gone. A tick is the five seconds of the loop; a  *)
(* PiSugar command is assumed to take less than a tick.                    *)
(***************************************************************************)
EXTENDS Integers

CONSTANTS
    Plugins,       \* the plugins asked before a shutdown, the power plugin apart
    Modes,         \* wake-up modes
    Wake,          \* ticks until the alarm of a mode, 0 for the modes without one
    MaxWake,       \* the longest of them
    LoopDelay,     \* the sleep(5) of the loop
    RetryGap,      \* the 30 s between two attempts
    InitialKeep,   \* the 60 s granted at start
    BeaconKeep,    \* the presence window granted at start to find the beacon
    KeepTimes,     \* durations keep_alive is called with
    AlarmNear,     \* the 5 minutes before an alarm that count as woken by it
    MaxCalls,      \* bound: API calls that change something
    MaxChanges,    \* bound: changes of the outside world
    MaxFaults      \* bound: PiSugar commands or answers that fail or mislead

VARIABLES
    power, gone, busy, low,         \* the world: external power, beacon lost, busy plugins, battery low
    lied,                           \* the last reading of the charging status was wrong
    mode, keep,                     \* stored wake-up mode; ticks left of each keep-alive reason
    loop, last, attempt, target,    \* the loop, _last_charging_status, age of the last attempt, vrg-charging.target
    ctl, task,                      \* ShutdownController.shutdown and delayed_shutdown, per caller
    saved, previous,                \* alarm of last_shutdown_config, and as read at start
    alarmOn, alarmIn, restoreOn,    \* the PiSugar
    marker, bootTasks, disarming,   \* force-powercut file; tasks of start(); set_wakeup("disabled") under way
    phase,                          \* "up", "stopping" once the poweroff is under way, "off"
    calls, changes, faults,         \* what the bounds leave
    outage, held, sinceTry          \* history: see the properties

world == <<power, gone, busy, low, changes>>
hw    == <<alarmOn, alarmIn, restoreOn>>
round == <<loop, last, attempt, target>>
ghost == <<outage, held, sinceTry>>
vars  == <<world, lied, mode, keep, round, ctl, task, saved, previous, hw, marker,
           bootTasks, disarming, phase, calls, faults, ghost>>

Caller  == {"loop", "hand"}
Reason  == {"initial_power", "ble_initial", "request"}
Asked   == Plugins \cup {"power"}
Status  == {"ON", "OFF", "UNKNOWN"}

ASSUME LoopConstants ==
    /\ "power" \notin Plugins /\ "disabled" \in Modes
    /\ LoopDelay \in Nat \ {0} /\ RetryGap \in Nat /\ AlarmNear \in Nat
    /\ InitialKeep \in Nat \ {0} /\ BeaconKeep \in Nat /\ KeepTimes \subseteq Nat
    /\ MaxWake \in Nat /\ Wake \in [Modes -> 0..MaxWake]
    /\ MaxCalls \in Nat /\ MaxChanges \in Nat /\ MaxFaults \in Nat

NoCall == [pc |-> "none", alarm |-> 0]
Start  == [pc |-> "read", raw |-> "UNKNOWN", status |-> "UNKNOWN", timer |-> 0,
           first |-> TRUE, unasked |-> {}, ready |-> TRUE]

WorldTypes ==
    /\ power \in BOOLEAN /\ gone \in BOOLEAN /\ low \in BOOLEAN /\ busy \subseteq Plugins
    /\ lied \in BOOLEAN
    /\ calls \in 0..MaxCalls /\ changes \in 0..MaxChanges /\ faults \in 0..MaxFaults

LoopRecord == [pc : {"read", "recheck", "targets", "sleep", "ask", "apply", "over"},
               raw : Status, status : Status, timer : 0..LoopDelay,
               first : BOOLEAN, unasked : SUBSET Asked, ready : BOOLEAN]

LoopTypes ==
    /\ loop \in LoopRecord
    /\ last \in Status /\ attempt \in 0..RetryGap + 1 /\ target \in BOOLEAN
    /\ mode \in Modes /\ keep \in [Reason -> Nat]

CallTypes ==
    /\ ctl \in [Caller -> [pc : {"none", "battery", "charging", "time", "restore", "enable", "log"},
                           alarm : 0..MaxWake]]
    /\ task \in [Caller -> {"none", "journal", "call"}]
    /\ bootTasks \subseteq {"disarm", "restore"} /\ disarming \in BOOLEAN
    /\ phase \in {"up", "stopping", "off"}

StoreTypes ==
    /\ saved \in 0..MaxWake /\ previous \in 0..MaxWake
    /\ alarmOn \in BOOLEAN /\ alarmIn \in 0..MaxWake /\ restoreOn \in BOOLEAN
    /\ marker \in BOOLEAN

HistoryTypes == outage \in BOOLEAN /\ held \subseteq Asked /\ sinceTry \in 0..RetryGap + 1

TypeOK == WorldTypes /\ LoopTypes /\ CallTypes /\ StoreTypes /\ HistoryTypes

-----------------------------------------------------------------------------
(* Tools                                                                   *)

Running == phase # "off"

\* A PiSugar command that succeeds, or one that does not.
Fails == faults > 0 /\ faults' = faults - 1
Works == UNCHANGED faults

\* What the charging status may read as, given the truth: the PiSugar can be wrong,
\* but not twice running, or give no answer.
Reading(r) ==
    \/ r = (IF power THEN "ON" ELSE "OFF") /\ Works /\ lied' = FALSE
    \/ r = (IF power THEN "OFF" ELSE "ON") /\ Fails /\ ~lied /\ lied' = TRUE
    \/ r = "UNKNOWN" /\ Fails /\ UNCHANGED lied

\* effective_charging_status: a beacon lost past its grace looks like no power.
Effective(r) == IF r = "ON" /\ gone THEN "OFF" ELSE r

KeptAlive    == \E r \in Reason : keep[r] > 0
Unready(p)   == IF p = "power" THEN KeptAlive ELSE p \in busy

\* have_to_wait overwrites what the reason had left.
HaveToWait(k, r, n) == [k EXCEPT ![r] = n]
Less(n)      == IF n = 0 THEN 0 ELSE n - 1

-----------------------------------------------------------------------------
(* The loop: _start_check_charging_loop                                    *)

\* What follows a reading without an await: the beacon is folded in, the first
\* reading may grant some time, and a change is passed on to the charging target.
Judged(r) ==
    LET s == Effective(r)
    IN  /\ loop' = [loop EXCEPT !.pc = IF s # last /\ s # "UNKNOWN" THEN "targets" ELSE "sleep",
                                !.raw = r, !.status = s, !.timer = LoopDelay, !.first = FALSE]
        /\ keep' = IF loop.first /\ s = "ON" THEN HaveToWait(keep, "initial_power", InitialKeep) ELSE keep

\* Mutant: the first reading is believed.
Doubted_Never(r) == FALSE

Doubted(r) == r = "OFF"

\* get_charging_status_slow_but_safe: NOT_CHARGING is read again a second later.
ReadStatus ==
    /\ Running /\ loop.pc = "read"
    /\ \E r \in Status :
        /\ Reading(r)
        /\ outage' = ~power
        /\ IF Doubted(r) THEN loop' = [loop EXCEPT !.pc = "recheck"] /\ UNCHANGED keep ELSE Judged(r)
    /\ UNCHANGED <<world, mode, last, attempt, target, ctl, task, saved, previous, hw, marker,
                   bootTasks, disarming, phase, calls, held, sinceTry>>

ReadAgain ==
    /\ Running /\ loop.pc = "recheck"
    /\ \E r \in Status : Reading(r) /\ Judged(r)
    /\ UNCHANGED <<world, mode, last, attempt, target, ctl, task, saved, previous, hw, marker,
                   bootTasks, disarming, phase, calls, ghost>>

\* systemctl start or stop vrg-charging.target.
SwitchTarget ==
    /\ Running /\ loop.pc = "targets"
    /\ target' = (loop.status = "ON")
    /\ loop' = [loop EXCEPT !.pc = "sleep"]
    /\ UNCHANGED <<world, lied, mode, keep, last, attempt, ctl, task, saved, previous, hw, marker,
                   bootTasks, disarming, phase, calls, faults, ghost>>

\* Mutant: the status noted is the PiSugar's, not the one with the beacon folded in.
NextRound_Raw == loop' = [loop EXCEPT !.pc = "read"] /\ last' = loop.raw

NextRound == loop' = [loop EXCEPT !.pc = "read"] /\ last' = loop.status

\* The sleep is over: an unknown status decides nothing, CHARGING forgets the last
\* attempt, NOT_CHARGING asks every plugin at once.
Awake ==
    /\ Running /\ loop.pc = "sleep" /\ loop.timer = 0
    /\ IF loop.status = "OFF"
       THEN /\ loop' = [loop EXCEPT !.pc = "ask", !.unasked = Asked, !.ready = TRUE]
            /\ held' = {p \in Asked : Unready(p)}
            /\ UNCHANGED <<last, attempt, sinceTry>>
       ELSE /\ NextRound
            /\ attempt' = IF loop.status = "ON" THEN RetryGap + 1 ELSE attempt
            /\ sinceTry' = IF loop.status = "ON" THEN RetryGap + 1 ELSE sinceTry
            /\ UNCHANGED held
    /\ UNCHANGED <<world, lied, mode, keep, target, ctl, task, saved, previous, hw, marker,
                   bootTasks, disarming, phase, calls, faults, outage>>

Gathered(ok) == loop.ready /\ ok

\* _is_plugin_ready_to_die of one plugin: no answer counts as ready.
Answer(p) ==
    /\ Running /\ loop.pc = "ask" /\ p \in loop.unasked
    /\ \E ok \in BOOLEAN :
        /\ \/ ok = ~Unready(p) /\ Works /\ UNCHANGED held
           \/ ok /\ Fails /\ held' = held \ {p}
        /\ loop' = [loop EXCEPT !.unasked = @ \ {p}, !.ready = Gathered(ok)]
    /\ UNCHANGED <<world, lied, mode, keep, last, attempt, target, ctl, task, saved, previous, hw,
                   marker, bootTasks, disarming, phase, calls, outage, sinceTry>>

-----------------------------------------------------------------------------
(* ShutdownController.shutdown, for the loop and for the API method        *)

At(c, pc)      == Running /\ ctl[c].pc = pc
Move(c, pc)    == ctl' = [ctl EXCEPT ![c].pc = pc]

\* It returned None: the loop goes round again, the method answers an error.
Refused(c) ==
    /\ ctl' = [ctl EXCEPT ![c] = NoCall]
    /\ IF c = "loop" THEN NextRound ELSE UNCHANGED <<loop, last>>

\* ShutdownConfig.verify: the alarm must be later than that of the previous shutdown.
\* Mutant: the comparison the wrong way round.
Verified_Swapped(n) == n = 0 \/ n <= previous

Verified(n) == n = 0 \/ n > previous

\* The configuration is complete: verify it and start to apply it.
Apply(c, n) ==
    IF Verified(n)
    THEN /\ ctl' = [ctl EXCEPT ![c] = [pc |-> IF n = 0 THEN "restore" ELSE "time", alarm |-> n]]
         /\ loop' = IF c = "loop" THEN [loop EXCEPT !.pc = "apply"] ELSE loop
         /\ UNCHANGED last
    ELSE Refused(c)

Begin(c, n) ==
    /\ attempt' = 0
    /\ IF n = 0 THEN Apply(c, 0)
       ELSE /\ ctl' = [ctl EXCEPT ![c] = [pc |-> "battery", alarm |-> n]]
            /\ loop' = IF c = "loop" THEN [loop EXCEPT !.pc = "apply"] ELSE loop
            /\ UNCHANGED last

\* Mutant: the thirty seconds may be cut short by one tick.
TooSoon_ByOne == attempt < RetryGap

TooSoon == attempt <= RetryGap

\* All the answers are in: should_shutdown decides.
Decide ==
    /\ Running /\ loop.pc = "ask" /\ loop.unasked = {}
    /\ IF loop.ready /\ ~TooSoon
       THEN Begin("loop", Wake[mode]) /\ sinceTry' = 0
       ELSE NextRound /\ UNCHANGED <<attempt, ctl, sinceTry>>
    /\ UNCHANGED <<world, lied, mode, keep, target, task, saved, previous, hw, marker,
                   bootTasks, disarming, phase, calls, faults, outage, held>>

\* MethodShutdown and CommandShutdown: no alarm, whatever the stored mode.
CallShutdown ==
    /\ Running /\ calls > 0 /\ ctl["hand"].pc = "none" /\ task["hand"] = "none"
    /\ Begin("hand", 0)
    /\ calls' = calls - 1
    /\ UNCHANGED <<world, lied, mode, keep, target, task, saved, previous, hw, marker,
                   bootTasks, disarming, phase, faults, ghost>>

\* _is_battery_too_low_for_alarm: the level, then the charging status.
CheckBattery(c) ==
    /\ At(c, "battery")
    /\ \/ Works /\ low /\ Move(c, "charging") /\ UNCHANGED <<loop, last>>
       \/ Works /\ ~low /\ Apply(c, ctl[c].alarm)
       \/ Fails /\ Apply(c, ctl[c].alarm)
    /\ UNCHANGED <<world, lied, mode, keep, attempt, target, task, saved, previous, hw, marker,
                   bootTasks, disarming, phase, calls, ghost>>

CheckCharging(c) ==
    /\ At(c, "charging")
    /\ \E r \in Status : Reading(r) /\ Apply(c, IF r = "ON" THEN ctl[c].alarm ELSE 0)
    /\ UNCHANGED <<world, mode, keep, attempt, target, task, saved, previous, hw, marker,
                   bootTasks, disarming, phase, calls, ghost>>

SetTime(c) ==
    /\ At(c, "time")
    /\ \/ Works /\ alarmIn' = ctl[c].alarm /\ Move(c, "restore") /\ UNCHANGED <<loop, last>>
       \/ Fails /\ Refused(c) /\ UNCHANGED alarmIn
    /\ UNCHANGED <<world, lied, mode, keep, attempt, target, task, saved, previous, alarmOn,
                   restoreOn, marker, bootTasks, disarming, phase, calls, ghost>>

\* The results of these two commands are not looked at.
SetRestore(c) ==
    /\ At(c, "restore")
    /\ \/ Works /\ restoreOn' = TRUE
       \/ Fails /\ UNCHANGED restoreOn
    /\ Move(c, "enable")
    /\ UNCHANGED <<world, lied, mode, keep, round, task, saved, previous, alarmOn, alarmIn,
                   marker, bootTasks, disarming, phase, calls, ghost>>

\* Mutant: the alarm is enabled only for the longest period.
Enabled_Longest(n) == n = MaxWake

Enabled(n) == n > 0

SetEnabled(c) ==
    /\ At(c, "enable")
    /\ \/ Works /\ alarmOn' = Enabled(ctl[c].alarm)
       \/ Fails /\ UNCHANGED alarmOn
    /\ Move(c, "log")
    /\ UNCHANGED <<world, lied, mode, keep, round, task, saved, previous, alarmIn, restoreOn,
                   marker, bootTasks, disarming, phase, calls, ghost>>

\* _log_shutdown has read what it logs: the caller saves the configuration and
\* leaves the rest to a task. The loop ends here for good, also when the file cannot be
\* written: the exception ends the loop with no task, and what the file had may be gone.
Commit(c) ==
    /\ At(c, "log")
    /\ ctl' = [ctl EXCEPT ![c] = NoCall]
    /\ \/ Works /\ saved' = ctl[c].alarm /\ task' = [task EXCEPT ![c] = "journal"]
       \/ Fails /\ saved' \in {saved, 0} /\ UNCHANGED task
    /\ loop' = IF c = "loop" THEN [loop EXCEPT !.pc = "over"] ELSE loop
    /\ UNCHANGED <<world, lied, mode, keep, last, attempt, target, previous, hw, marker,
                   bootTasks, disarming, phase, calls, ghost>>

-----------------------------------------------------------------------------
(* delayed_shutdown                                                        *)

\* The beacon is gone while the PiSugar still reports power.
\* Mutant: any shutdown of the loop forces the cut.
Forced_Always(c) == c = "loop"

Forced(c) == c = "loop" /\ loop.raw = "ON" /\ loop.status = "OFF"

\* The reason is in the journal; the marker is written just before the call.
Journalled(c) ==
    /\ Running /\ task[c] = "journal"
    /\ task' = [task EXCEPT ![c] = "call"]
    /\ marker' = (marker \/ Forced(c))
    /\ UNCHANGED <<world, lied, mode, keep, round, ctl, saved, previous, hw, bootTasks,
                   disarming, phase, calls, faults, ghost>>

\* PiSugar.shutdown: its result is not looked at either.
CallPoweroff(c) ==
    /\ Running /\ task[c] = "call"
    /\ task' = [task EXCEPT ![c] = "none"]
    /\ \/ Works /\ phase' = "stopping"
       \/ Fails /\ UNCHANGED phase
    /\ UNCHANGED <<world, lied, mode, keep, round, ctl, saved, previous, hw, marker, bootTasks,
                   disarming, calls, ghost>>

\* delayed_reboot.
CallReboot ==
    /\ phase = "up" /\ calls > 0
    /\ phase' = "stopping"
    /\ calls' = calls - 1
    /\ UNCHANGED <<world, lied, mode, keep, round, ctl, task, saved, previous, hw, marker,
                   bootTasks, disarming, faults, ghost>>

-----------------------------------------------------------------------------
(* The other API methods and the tasks of start()                          *)

\* set_wakeup to a mode other than "disabled" only stores it.
SetWakeup(m) ==
    /\ Running /\ calls > 0 /\ m # "disabled"
    /\ mode' = m
    /\ calls' = calls - 1
    /\ UNCHANGED <<world, lied, keep, round, ctl, task, saved, previous, hw, marker, bootTasks,
                   disarming, phase, faults, ghost>>

\* "disabled" turns the alarm off first, and stores the mode when that returns.
DisableWakeup ==
    /\ Running /\ calls > 0 /\ ~disarming
    /\ calls' = calls - 1
    /\ \/ Works /\ alarmOn' = FALSE
       \/ Fails /\ UNCHANGED alarmOn
    /\ disarming' = TRUE
    /\ UNCHANGED <<world, lied, mode, keep, round, ctl, task, saved, previous, alarmIn, restoreOn,
                   marker, bootTasks, phase, ghost>>

StoreDisabled ==
    /\ Running /\ disarming
    /\ disarming' = FALSE
    /\ mode' = "disabled"
    /\ UNCHANGED <<world, lied, keep, round, ctl, task, saved, previous, hw, marker, bootTasks,
                   phase, calls, faults, ghost>>

CallKeepAlive(n) ==
    /\ Running /\ calls > 0
    /\ keep' = HaveToWait(keep, "request", n)
    /\ held' = IF n = 0 THEN held \ {"power"} ELSE held
    /\ calls' = calls - 1
    /\ UNCHANGED <<world, lied, mode, round, ctl, task, saved, previous, hw, marker, bootTasks,
                   disarming, phase, faults, outage, sinceTry>>

\* start() turns the alarm off and wake-on-power-restore on, each in a task.
BootTask(t) ==
    /\ Running /\ t \in bootTasks
    /\ bootTasks' = bootTasks \ {t}
    /\ \/ /\ Works
          /\ alarmOn' = (alarmOn /\ t # "disarm")
          /\ restoreOn' = (restoreOn \/ t = "restore")
       \/ Fails /\ UNCHANGED <<alarmOn, restoreOn>>
    /\ UNCHANGED <<world, lied, mode, keep, round, ctl, task, saved, previous, alarmIn, marker,
                   disarming, phase, calls, ghost>>

-----------------------------------------------------------------------------
(* The machine and the world                                               *)

\* systemd has stopped the service and the scripts have done their part.
GoDown ==
    /\ phase = "stopping"
    /\ phase' = "off"
    /\ UNCHANGED <<world, lied, mode, keep, round, ctl, task, saved, previous, hw, marker,
                   bootTasks, disarming, calls, faults, ghost>>

\* Mutant: the marker of the last session survives the start.
Cleared_Never == marker

Cleared == FALSE

\* What start() grants: to a device that the alarm woke, and to one that looks for
\* its beacon.
Granted(woken, watched) ==
    [r \in Reason |-> CASE r = "initial_power" /\ woken -> InitialKeep
                         [] r = "ble_initial" /\ watched -> BeaconKeep
                         [] OTHER -> 0]

\* The plugin starts, in one step, since nothing else of it runs yet: the last
\* configuration becomes the previous one, the marker goes, and the device is kept
\* up a while.
Boot ==
    /\ phase = "off"
    /\ phase' = "up"
    /\ previous' = saved
    /\ marker' = Cleared
    /\ bootTasks' = {"disarm", "restore"}
    /\ \E woken, watched \in BOOLEAN :
        /\ woken => alarmOn /\ alarmIn <= AlarmNear
        /\ keep' = Granted(woken, watched)
    /\ loop' = Start /\ last' = "UNKNOWN" /\ attempt' = RetryGap + 1 /\ target' = FALSE
    /\ ctl' = [c \in Caller |-> NoCall]
    /\ task' = [c \in Caller |-> "none"]
    /\ disarming' = FALSE
    /\ outage' = FALSE /\ held' = {} /\ sinceTry' = RetryGap + 1
    /\ UNCHANGED <<world, lied, mode, saved, hw, calls, faults>>

Change == changes > 0 /\ changes' = changes - 1

Untouched == UNCHANGED <<lied, mode, keep, round, ctl, task, saved, previous, hw, marker,
                         bootTasks, disarming, phase, calls, faults, sinceTry>>

PowerChanges ==
    /\ Change /\ power' = ~power
    /\ outage' = (outage \/ (loop.pc = "recheck" /\ power))
    /\ UNCHANGED <<gone, busy, low, held>> /\ Untouched

BeaconChanges ==
    /\ Change /\ gone' = ~gone
    /\ UNCHANGED <<power, busy, low, outage, held>> /\ Untouched

BatteryChanges ==
    /\ Change /\ low' = ~low
    /\ UNCHANGED <<power, gone, busy, outage, held>> /\ Untouched

WorkChanges(p) ==
    /\ Change
    /\ busy' = IF p \in busy THEN busy \ {p} ELSE busy \cup {p}
    /\ held' = held \ {p}
    /\ UNCHANGED <<power, gone, low, outage>> /\ Untouched

\* No command is under way, and the loop's sleep is not over.
Quiet ==
    /\ phase # "stopping"
    /\ phase = "up" =>
        /\ loop.pc \in {"ask", "over"} \/ (loop.pc = "sleep" /\ loop.timer > 0)
        /\ \A c \in Caller : ctl[c].pc = "none" /\ task[c] = "none"
        /\ bootTasks = {} /\ ~disarming

Older(n) == IF n > RetryGap THEN n ELSE n + 1

Tick ==
    /\ Quiet
    /\ loop' = [loop EXCEPT !.timer = Less(@)]
    /\ keep' = [r \in Reason |-> Less(keep[r])]
    /\ held' = IF \E r \in Reason : keep[r] > 1 THEN held ELSE held \ {"power"}
    /\ attempt' = Older(attempt) /\ sinceTry' = Older(sinceTry)
    /\ saved' = Less(saved) /\ previous' = Less(previous) /\ alarmIn' = Less(alarmIn)
    /\ UNCHANGED <<world, lied, mode, last, target, ctl, task, alarmOn, restoreOn, marker,
                   bootTasks, disarming, phase, calls, faults, outage>>

-----------------------------------------------------------------------------

Init ==
    /\ power \in BOOLEAN /\ gone = FALSE /\ busy = {} /\ low = FALSE /\ lied = FALSE
    /\ mode \in Modes
    /\ \E watched \in BOOLEAN : keep = Granted(FALSE, watched)
    /\ loop = Start /\ last = "UNKNOWN" /\ attempt = RetryGap + 1 /\ target = FALSE
    /\ ctl = [c \in Caller |-> NoCall] /\ task = [c \in Caller |-> "none"]
    /\ saved = 0 /\ previous = 0
    /\ alarmOn = FALSE /\ alarmIn = 0 /\ restoreOn = FALSE
    /\ marker = FALSE /\ bootTasks = {"disarm", "restore"} /\ disarming = FALSE
    /\ phase = "up"
    /\ calls = MaxCalls /\ changes = MaxChanges /\ faults = MaxFaults
    /\ outage = FALSE /\ held = {} /\ sinceTry = RetryGap + 1

LoopStep == ReadStatus \/ ReadAgain \/ SwitchTarget \/ Awake \/ Decide \/ \E p \in Asked : Answer(p)

ControllerStep(c) ==
    \/ CheckBattery(c) \/ CheckCharging(c) \/ SetTime(c) \/ SetRestore(c) \/ SetEnabled(c)
    \/ Commit(c) \/ Journalled(c) \/ CallPoweroff(c)

OtherStep == StoreDisabled \/ GoDown \/ \E t \in {"disarm", "restore"} : BootTask(t)

Call ==
    \/ CallShutdown \/ CallReboot \/ DisableWakeup
    \/ \E m \in Modes : SetWakeup(m)
    \/ \E n \in KeepTimes : CallKeepAlive(n)

WorldStep == PowerChanges \/ BeaconChanges \/ BatteryChanges \/ \E p \in Plugins : WorkChanges(p)

Next == LoopStep \/ (\E c \in Caller : ControllerStep(c)) \/ OtherStep \/ Call \/ WorldStep \/ Boot \/ Tick

Spec == Init /\ [][Next]_vars

FairSpec ==
    /\ Spec
    /\ WF_vars(LoopStep)
    /\ \A c \in Caller : WF_vars(ControllerStep(c))
    /\ WF_vars(OtherStep)
    /\ WF_vars(Tick)

-----------------------------------------------------------------------------
(* Properties                                                              *)

\* vrg-charging.target is what the cameras start from: while the loop waits and
\* decides, it runs exactly when the status it decides on is CHARGING. A round that
\* ended without noting its status would leave it stopped (plugin.py:226, "don't use
\* continue here").
TargetFollows ==
    loop.pc \in {"sleep", "ask", "apply", "over"} =>
        /\ loop.status = "ON" => target
        /\ loop.status = "OFF" => ~target

\* A status of NOT_CHARGING that the loop acts on comes from a moment at which there
\* was no power: one wrong reading of the PiSugar is not enough.
LossWasReal ==
    loop.pc \in {"targets", "sleep", "ask", "apply", "over"} /\ loop.raw = "OFF" => outage

\* A plugin that stays busy from the question until the decision, and that could be
\* asked, keeps the loop from shutting down; a keep-alive counts like a busy plugin.
BusyVetoes == loop.pc = "ask" /\ loop.unasked = {} /\ loop.ready => held = {}

\* The loop starts an attempt in this step.
Attempts == loop.pc = "ask" /\ loop'.pc = "apply"

\* Two attempts of the loop are more than 30 seconds apart unless power was seen in
\* between, however many of them are refused and whoever else calls shutdown.
AttemptsSpaced == [][Attempts => sinceTry > RetryGap]_vars

\* The file that forces a power cut exists only after a shutdown of this session that
\* was decided on a lost beacon with external power present.
MarkerMeansBeacon == marker /\ phase # "off" => loop.pc = "over" /\ loop.raw = "ON" /\ loop.status = "OFF"

\* The alarm of the configuration a sleeping device saved is the one its PiSugar is
\* armed with, as long as nobody calls and no command fails; otherwise it would sleep
\* until someone comes.
SleepIsArmed ==
    phase = "off" /\ saved > 0 /\ calls = MaxCalls /\ faults = MaxFaults
        => alarmOn /\ alarmIn = saved

\* A device left without power and without work goes down, unless a command failed:
\* the loop ends with its first `poweroff`, so one that fails is never repeated.
PowerLossHalts == ~<>[](phase = "up" /\ ~power /\ busy = {} /\ faults = MaxFaults)

=============================================================================
