------------------------------- MODULE Trips -------------------------------
(***************************************************************************)
(* The recorder as the journal sees it: the power plugin, its BLE beacon   *)
(* monitor, the core plugin that keeps the journal, and the trips that     *)
(* TripPage derives from it.  The power plugin's records reach the journal *)
(* over the event bus (mail); the core plugin writes its own at once.      *)
(* Time is what the monitor makes of it: silence 0 is a beacon heard       *)
(* within BLE_PRESENCE_WINDOW, 1 is one missing for longer, 2 for longer   *)
(* than the grace.                                                         *)
(***************************************************************************)
EXTENDS TripPage

CONSTANTS
    Clips,        \* recordings, each a video and its photo
    MaxRecords,   \* records of the journal
    MaxSessions,  \* how often the device is on
    MaxOdd        \* losses of power and of records, user calls, crashes, failed readings together

ASSUME TripsAssumption == {MaxRecords, MaxSessions, MaxOdd} \subseteq Nat

VARIABLES
    power,    \* external power is there
    device,   \* off; up; dying, the shutdown is decided
    why,      \* the reason of the last shutdown decided in this session
    config,   \* ble_enabled and ble_target of the power plugin's state file
    mon,      \* BleBeaconMonitor: running, ever (_ever_seen), silence, present (_present)
    reading,  \* what the shutdown loop read and has not decided on: none, on, off or blocked
    core,     \* CorePlugin._last_charging_status
    mail,     \* the power plugin's journal records on the bus
    journal,
    sessions, odd,
    touched,  \* history: since the beacon was last found, the user changed it or a record was lost
    missed,   \* history: a record that ends an absence was lost, and none is written since
    since,    \* history: the last record written while the beacon was not known to be away
    parked    \* history: records of confirmed absences

bounds == <<sessions, odd>>
history == <<touched, missed, since, parked>>
vars == <<power, device, why, config, mon, reading, core, mail, journal, bounds, history>>

-----------------------------------------------------------------------------
Active == config.enabled /\ config.target

IsPresent == mon.ever /\ mon.silence = 0
IsLost == IF mon.ever THEN mon.silence = 2 ELSE mon.silence >= 1
BeaconBlocksPower == Active /\ IsLost

Fresh(runs) == [running |-> runs, ever |-> FALSE, silence |-> 0, present |-> FALSE]

Record(type, reason) == [type |-> type, reason |-> reason, clip |-> "none"]
Event(type) == Record(type, "none")
BeaconActive(active) == Event(IF active THEN "beacon_enabled" ELSE "beacon_disabled")

\* The beacon is reported gone, and no record on its way says otherwise.
Away == /\ Active /\ ~mon.present /\ ~touched
        /\ \A i \in DOMAIN mail : mail[i].type = "shutdown"

Write(e) ==
    /\ Len(journal) < MaxRecords
    /\ journal' = Append(journal, e)
    /\ since' = IF Away THEN since ELSE Len(journal) + 1

Unwritten == UNCHANGED <<journal, since>>

-----------------------------------------------------------------------------
Init ==
    /\ power = TRUE /\ device = "off" /\ why = "none"
    /\ config \in {[enabled |-> e, target |-> TRUE] : e \in BOOLEAN}
    /\ mon = Fresh(FALSE)
    /\ reading = "none" /\ core = "none"
    /\ mail = <<>> /\ journal = <<>>
    /\ sessions = 0 /\ odd = 0
    /\ touched = FALSE /\ missed = FALSE /\ since = 0 /\ parked = {}

\* The device boots, by its alarm or because the power is back: core writes start, the monitor
\* scans or fails to, and a beacon that is configured but inactive is announced.
Start ==
    /\ device = "off" /\ sessions < MaxSessions /\ Len(journal) < MaxRecords
    /\ device' = "up" /\ sessions' = sessions + 1 /\ power' \in {power, TRUE}
    /\ journal' = Append(journal, Event("start")) /\ since' = Len(journal)
    /\ mon' \in IF Active THEN {Fresh(TRUE), Fresh(FALSE)} ELSE {Fresh(FALSE)}
    /\ mail' = IF ~Active /\ config.target THEN <<BeaconActive(FALSE)>> ELSE <<>>
    /\ why' = "none" /\ reading' = "none" /\ core' = "none" /\ touched' = FALSE
    /\ UNCHANGED <<config, odd, missed, parked>>

\* The external power is cut; it may be back when the device boots again.
PowerCut ==
    /\ power /\ odd < MaxOdd
    /\ odd' = odd + 1 /\ power' = FALSE
    /\ UNCHANGED <<device, why, config, mon, reading, core, mail, sessions, touched, missed, parked>>
    /\ Unwritten

\* The core plugin reads the charging status: a change is a record, an unknown one is none.
CheckCharging ==
    /\ device # "off"
    /\ \E status \in {IF power THEN "on" ELSE "off", "unknown"} :
          /\ status # core
          /\ core' = status
          /\ odd' = IF status = "unknown" THEN odd + 1 ELSE odd
          /\ odd' <= MaxOdd
          /\ IF status = "unknown" THEN Unwritten
             ELSE Write(Event(IF status = "on" THEN "charging_on" ELSE "charging_off"))
    /\ UNCHANGED <<power, device, why, config, mon, reading, mail, sessions, touched, missed, parked>>

-----------------------------------------------------------------------------
(* The beacon monitor. *)

Detect ==
    /\ device # "off" /\ mon.running /\ (mon.silence > 0 \/ ~mon.ever)
    /\ mon' = [mon EXCEPT !.ever = TRUE, !.silence = 0]
    /\ UNCHANGED <<power, device, why, config, reading, core, mail, bounds, touched, missed, parked>>
    /\ Unwritten

\* Both windows are much longer than the ticks and readings that fall into them.
Silence ==
    /\ device = "up" /\ Active /\ mon.silence < 2
    /\ core # "none" /\ reading # "blocked" /\ mail = <<>> /\ (mon.running => mon.present = IsPresent)
    /\ mon' = [mon EXCEPT !.silence = @ + 1]
    /\ UNCHANGED <<power, device, why, config, reading, core, mail, bounds, touched, missed, parked>>
    /\ Unwritten

PresenceTick ==
    /\ device # "off" /\ mon.running /\ IsPresent # mon.present
    /\ mon' = [mon EXCEPT !.present = IsPresent]
    /\ mail' = Append(mail, Event(IF IsPresent THEN "beacon_found" ELSE "beacon_lost"))
    /\ touched' = (touched /\ ~IsPresent)
    /\ UNCHANGED <<power, device, why, config, reading, core, bounds, missed, parked>>
    /\ Unwritten

\* Mutant: switching the feature off is not announced.
Announced_On(now) == IF now /\ ~Active THEN Append(mail, BeaconActive(now)) ELSE mail

\* A change of is_active() is a record.
Announced(now) == IF now # Active THEN Append(mail, BeaconActive(now)) ELSE mail

\* set_ble_enabled, set_ble_target, clear_ble_target: the new configuration is saved, the
\* monitor starts afresh or stops.
Configure ==
    /\ device = "up" /\ odd < MaxOdd
    /\ \E enabled, target \in BOOLEAN :
          /\ enabled = config.enabled \/ target = config.target
          /\ (enabled # config.enabled \/ target # config.target \/ target)
          /\ config' = [enabled |-> enabled, target |-> target]
    /\ LET now == config'.enabled /\ config'.target
           same == config' = config
       IN  /\ mon' \in IF now /\ (same \/ ~Active) THEN {Fresh(TRUE), Fresh(FALSE)}
                       ELSE {Fresh(FALSE)}
           /\ mail' = Announced(now)
    /\ odd' = odd + 1 /\ touched' = TRUE
    /\ UNCHANGED <<power, device, why, reading, core, sessions, missed, parked>>
    /\ Unwritten

-----------------------------------------------------------------------------
(* Shutting down. *)

\* The shutdown loop reads the status and sleeps before it decides.
Read ==
    /\ device = "up" /\ reading = "none"
    /\ reading' = CASE ~power -> "off"
                    [] power /\ BeaconBlocksPower -> "blocked"
                    [] OTHER -> "on"
    /\ UNCHANGED <<power, device, why, config, mon, core, mail, bounds, touched, missed, parked>>
    /\ Unwritten

\* Without power in effect the shutdown logic decides now, or waits for a later round.
Decide ==
    /\ device = "up" /\ reading # "none"
    /\ reading' = "none"
    /\ \/ UNCHANGED <<device, why, mail>>
       \/ /\ reading \in {"off", "blocked"}
          /\ device' = "dying"
          /\ why' = IF reading = "blocked" THEN "beacon_lost" ELSE "power_loss"
          /\ mail' = Append(mail, Record("shutdown", why'))
    /\ UNCHANGED <<power, config, mon, core, bounds, touched, missed, parked>>
    /\ Unwritten

\* The shutdown call of the web page, the API or a bot.
Forced ==
    /\ device # "off" /\ odd < MaxOdd
    /\ odd' = odd + 1 /\ device' = "dying" /\ why' = "forced"
    /\ mail' = Append(mail, Record("shutdown", "forced"))
    /\ UNCHANGED <<power, config, mon, reading, core, sessions, touched, missed, parked>>
    /\ Unwritten

Deliver ==
    /\ device # "off" /\ mail # <<>>
    /\ Write(Head(mail))
    /\ mail' = Tail(mail)
    /\ missed' = (missed /\ Head(mail).type \notin BEACON_CLEARS)
    /\ UNCHANGED <<power, device, why, config, mon, reading, core, bounds, touched, parked>>

\* A record is lost: the bus is away for longer than the five seconds the journal client waits
\* for it, or goes with the record, or the file cannot be written.  Nobody is told.
Lost ==
    /\ device # "off" /\ mail # <<>> /\ odd < MaxOdd
    /\ odd' = odd + 1 /\ mail' = Tail(mail)
    /\ missed' = (missed \/ Head(mail).type \in BEACON_CLEARS)
    /\ touched' = TRUE
    /\ UNCHANGED <<power, device, why, config, mon, reading, core, sessions, parked>>
    /\ Unwritten

\* systemd stops the service once the records of the shutdown are written or lost.
PowerDown ==
    /\ device = "dying" /\ mail = <<>>
    /\ device' = "off"
    /\ parked' = IF Away /\ why = "beacon_lost"
                 THEN parked \cup (since + 1 .. Len(journal)) ELSE parked
    /\ UNCHANGED <<power, why, config, mon, reading, core, mail, bounds, touched, missed>>
    /\ Unwritten

\* The power goes at once: nothing more is written.
Crash ==
    /\ device # "off" /\ odd < MaxOdd
    /\ odd' = odd + 1 /\ device' = "off" /\ mail' = <<>>
    /\ missed' = (missed \/ \E i \in DOMAIN mail : mail[i].type = "beacon_disabled")
    /\ UNCHANGED <<power, why, config, mon, reading, core, sessions, touched, parked>>
    /\ Unwritten

\* A watcher of the camera plugin announces a video or its photo, in either order.
Recorded ==
    /\ device # "off"
    /\ \E clip \in Clips, type \in {"jpeg", "h264"} :
          /\ \A i \in DOMAIN journal : journal[i].clip = clip => journal[i].type # type
          /\ Write([Event(type) EXCEPT !.clip = clip])
    /\ UNCHANGED <<power, device, why, config, mon, reading, core, mail, bounds, touched, missed, parked>>

Next ==
    \/ Start \/ PowerCut \/ CheckCharging
    \/ Detect \/ Silence \/ PresenceTick \/ Configure
    \/ Read \/ Decide \/ Forced \/ Deliver \/ Lost \/ PowerDown \/ Crash
    \/ Recorded

Spec == Init /\ [][Next]_vars

-----------------------------------------------------------------------------
(* Properties.  A window is what the page loads: the two most recent daily *)
(* files, so the journal may be cut before any record, save in the few     *)
(* seconds of a shutdown or in a session that switched the beacon before.  *)

Window(w) == SubSeq(journal, w, Len(journal))

Windows ==
    {w \in DOMAIN journal :
        \A i \in 1 .. w :
            \/ journal[i].type \notin {"shutdown", "beacon_enabled", "beacon_disabled"}
            \/ i = w /\ journal[i].type # "shutdown"
            \/ \E j \in i + 1 .. w : journal[j].type = "start"}

\* A confirmed absence is parking, whatever the window: neither an RTC wake-up that found no
\* beacon nor the grace that ends in a shutdown shows as a trip (passes 1b and 2 of
\* buildBlocks).  The window has the session's beacon-lost shutdown; an absence with a record
\* lost since the beacon was last found is not confirmed to the page.
AwayIsParking ==
    \A w \in Windows :
        LET segs == Segments(Window(w))
        IN  \A i \in parked :
                LET b == BlockAt(segs, i - w + 1)
                IN  i >= w /\ b > 0 => segs[b].kind = "parking"

\* While the device runs on external power with the beacon reported, or with the feature off,
\* and the record that says so was not lost, the page and the tile show a trip in every window
\* with a power event: no earlier absence is left over from the sessions before.
RunningIsTrip ==
    device = "up" /\ mail = <<>> /\ core = "on" /\ ~missed /\ (mon.present \/ ~Active) =>
        \A w \in Windows :
            (\E i \in w .. Len(journal) : journal[i].type \in DOMAIN Charges) =>
                Last(Segments(Window(w))).kind = "trip"

\* The tile and the page agree on the segment that is open, in every window: the two readings
\* that get_trip_state.py asks to keep in sync.
TileAgrees ==
    \A w \in DOMAIN journal :
        LET segs == Segments(Window(w))
        IN  LastSegment(Window(w)) =
                IF segs = <<>> THEN NoSegment ELSE Last(segs)

\* Every recording after the first boundary of the window is shown once, as the file or as the
\* screenshot of one item of one block, though its two records come in either order and a
\* boundary may fall between them.
MediaShownOnce ==
    LET blocks == BuildBlocks(journal)
        Shows(b, m, e) ==
            /\ blocks[b].media[m].clip = e.clip
            /\ e.type \in {blocks[b].media[m].filename, blocks[b].media[m].screenshot}
    IN  blocks # <<>> =>
        \A i \in blocks[1].start .. Len(journal) :
            journal[i].type \in {"jpeg", "h264"} =>
                \E b \in DOMAIN blocks : \E m \in DOMAIN blocks[b].media :
                    /\ blocks[b].start <= i /\ Shows(b, m, journal[i])
                    /\ \A c \in DOMAIN blocks : \A k \in DOMAIN blocks[c].media :
                          Shows(c, k, journal[i]) => c = b /\ k = m

\* What the page showed up to the last sighting or switch of the beacon stands: a later record
\* rewrites only what came after it, so a beacon that blinked never splits a trip afterwards.
HistoryStands ==
    [][ journal' # journal =>
            LET last   == Max({0} \cup {i \in DOMAIN journal : journal[i].type \in BEACON_CLEARS})
                Until(segs) == {<<b, segs[b]>> : b \in {c \in DOMAIN segs : segs[c].start <= last}}
            IN  Until(Segments(journal')) = Until(Segments(journal)) ]_vars

\* "We segment on the same effective state the shutdown engine uses" (TripsComponent.js:149):
\* after a beacon-lost shutdown the page shows a parking.
EngineAgrees ==
    device = "off" /\ why = "beacon_lost" /\ Active /\ ~mon.present /\ Segments(journal) # <<>> =>
        \A i \in DOMAIN journal :
            /\ IsBeaconLostShutdown(journal[i])
            /\ \A k \in i .. Len(journal) : journal[k].type # "start"
            => Last(Segments(journal)).kind = "parking"

=============================================================================
