# TLA+ models of pi-videoreg

pi-videoreg turns a Raspberry Pi with a PiSugar UPS into a dash camera. It is a
set of Python services (asyncio, one process per service, several plugins in
one) that talk over a local event bus, plus the shell scripts that arm the UPS
while the machine goes down. This directory models the parts in which order,
failure and time decide whether the recorder works, checks them with TLC, and
proves what matters most about them with TLAPS. Paths are relative to the
repository root.

1. [Inventory](#1-inventory) 2. [How the parts interact](#2-how-the-parts-interact)
3. [Modules](#3-modules-and-the-code) 4. [Runs](#4-runs) 5. [Fairness](#5-fairness)
6. [Proofs](#6-proofs) 7. [Disagreements](#7-where-code-and-documentation-disagree)
8. [Not modelled](#8-not-modelled) 9. [Plan](#9-plan)

## 1. Inventory

Modelled or partly modelled:

| Part | State it keeps | Operations | Hard because of | Correct when |
|---|---|---|---|---|
| Power-off path: `task/service/vrg-poweroff.sh`, `tools/install/shutdown-pisugar.sh`, `task/service/vrg-pisugar-cancel-powercut.sh`, `task/pisugar.sh` | PiSugar registers over I2C, two files in `/run/vrg`, the force-powercut marker | decide, arm, verify, publish, sample, cancel, wait, reboot, halt; cancel at boot | three processes share a one-way hand-over; power changes between any two reads; an I2C access fails; systemd kills the unit | a decision is never reversed by a later stage except by what it saw; no unread byte is written back; a poweroff on battery ends with the power cut |
| Power plugin: `plugins/org_vrg_power` | last status, age of the last attempt, keep-alive times, saved and previous alarm, charging target | charging loop, `shutdown`, `reboot`, `set_wakeup`, `keep_alive`, tasks of `start()` | waits between reading and acting; plugins that change their answer; a poweroff command that fails; alarms left by earlier sessions | acts only on a real loss, only with ready plugins, never sooner than 30 s after a refusal; sleeps only with the saved alarm armed |
| Event bus server: `plugins/org_vrg_bus` | clients, names, subscriptions, waiting list, lock | init, subscribe, unsubscribe, data, disconnect, clean | a handler per client interleaves at every write and at the lock; a peer goes away during a fan-out | a message is delivered once or kept until it expires, never stranded beside a subscriber |
| Bus client: `sdk/socket/client.py`, `mux_connection.py` | writer, write queue, stop event, reader and writer coroutine | connect, disconnect, send, read, write, stop | fields replaced under coroutines that wait; three parties may disconnect at once | one link ends once, the next starts clean, reconnects until stopped |
| Requests and API: `sdk/socket/requests.py`, `api.py`, `sdk/cli.py` | ids, futures, `_waiting`, a task per request | request, respond, time out, reconnect | an answer races the timeout; a link, a process or the method is lost in between | a caller has the answer of its own call, or a timeout with a cause |
| BLE beacon: `plugins/org_vrg_power/ble_beacon.py` | presence, last seen, ever seen, scanner | detect, tick, configure, block power | a scanner that fails to start; windows; the feature switched under it | absence counts as loss of power, and is journaled |
| Journal and trips: `plugins/org_vrg_core`, `TripsComponent.js` | daily files of records | write; segment (page), last segment (tile) | records of two services interleave; sessions cut short; a window that starts anywhere | page and tile tell the same story, and the one of the shutdown logic |
| Settings and list pages: `static/js`, `plugins/*/http/components` | what is shown, flags of calls under way | load, edit, save, toggle, poll | answers out of order or never; flags shared, cleared or replaced under a call | what is shown is what the device has; flags end with their calls |
| Camera plugin: `plugins/org_vrg_camera` | video state, suspended flag, throttle, stream timer, operation queue, recorder process | lifecycle loop, start/stop/restart/pause/continue, photo, clip, convert, stream | calls act on a state that changes only after their awaits; failures and timeouts in a shared queue; a loop that dies of an exception | one process holds the camera; recording follows power and temperature; a stream ends |

Not modelled (`PROJECT.json` lists their files and reasons):

| Part | State | Operations | Hard because of | Correct when |
|---|---|---|---|---|
| State file, merged manifest | JSON files | load, change, save | truncate-then-write; two processes and one temporary file | a reader sees the old or the new content |
| Modem: GPS tracks, SMS; AT transport; PDU | track file, SMS batch, port lock | track, read, delete, handle | late answers; deletion before handling; power loss within a track | an answer belongs to its command; no SMS command is dropped |
| Net plugin | tunnel, routes, Wi-Fi file | monitor, raise, drop, provision | crash within provisioning | the file is applied once |
| Telegram and VK gateways | poll offset, back-off, command tasks | poll, dispatch, retry | crash between offset and command | each command at most once, delay bounded |
| Egress | cached interface | choose | stale cache | the choice is not older than its time |
| Media files | file lists, favourites, caches | list, rotate, convert | rotation while a file is written | a file in use or a favourite is kept |
| Web interface, users, sessions | users, tokens | log in, change users | tokens that outlive users | a removed user has no access |
| Command cancellation, nearest alarm, PDU codec | none | pure functions | boundaries | equal to a reference definition |
| Service runner, statistics, core methods, watchdog, clock/disk/certificate and camera scripts, players and charts of the front-end | little or none | start-up, sampling, one-shot scripts, presentation | watchdog: register access shared with the power-off scripts | — |

## 2. How the parts interact

- Every service holds one **bus client**. Plugins send `data` messages to
  channels; the **bus server** passes them to subscribers or keeps them for
  15 s. Requests are messages with an id that the answer repeats.
- The **power plugin** reads the PiSugar (`task/pisugar.sh`) every five seconds,
  starts and stops `vrg-charging.target`, asks all plugins `is_ready_to_die` over
  the bus, writes the alarm and calls `poweroff`. systemd then runs
  `vrg-poweroff.service`, and after all units the shutdown hook: the
  **power-off path**. The force-powercut marker is the message from the plugin to
  it. The boot script undoes on the next boot what a shutdown left armed.
- The **camera plugin** asks the power plugin for the charging status and obeys
  the temperature; users pause, stream and take photos through the gateways.
- The **beacon monitor** makes an absent phone count as lost power in the charging
  loop. It, the loop and the core plugin **journal** what happens; the web page and
  the dashboard tile each derive **trips** from the journal.
- A **page** of the web front-end calls API methods through the HTTP server. Nothing
  tells it of changes: what it shows comes from its own requests.
- Shared state without a lock: the registers of the PiSugar (`pisugar.sh` and the watchdog go on
  without their file lock when it is not free in time), `/run/vrg`, the JSON state files.

## 3. Modules and the code

One module per component, an `MC...` module with the values TLC needs, and a
`...Proofs` module with the theorems. A definition has the name of the function or
the step it stands for; the map in `PROJECT.json` gives the lines. Operators named
`X_Y` directly above an operator `X` are deliberately wrong variants of it, marked
"Mutant": replacing `X` by one breaks the property the mutant is listed with. The
specifications do not use them.

### PowerCut, PowerOutcome (power-off path)

`PowerCut` composes the three scripts with the chip, the supply and the clock.
`pc` is the step of the script that runs; `unit` and `hook` are shell variables,
`handoff` and `bootByte` the files of `/run/vrg`. An action is one access to a
register or file with the branch that follows. `PowerOutcome` is the contract: a
shutdown has one verdict, and what the machine ends in follows from it; `OutcomeSpec`
(`PowerCut => PowerOutcome`) is checked and proved.

Abstractions: bit 7 of the register is the charging status and read-only; a
successful read returns the register; an executed cut clears the cut bit; arming
again may or may not restart the countdown; the alarm is its enabled bit; delays are
small numbers in the order of the real ones (`UnitDelay` 1 < `HookDelay` 2 <
`OldDelay` 3, `Margin` 1). Battery readings, the output switch and the RTC conversion
of `pisugar.sh` are left out.

### PowerLoop (power plugin)

`loop` is the charging loop between its awaits (sleep, read, recheck, targets, ask,
shutdown), `ctl` a call of `ShutdownController.shutdown` by the loop or by the API,
`task` its `delayed_shutdown`; `alarmOn`, `alarmIn`, `restoreOn` are the PiSugar.
`outage`, `held` and `sinceTry` are history variables that only properties read. A
tick is the five seconds of the loop; a PiSugar command takes less than a tick.
A reading may be wrong, at most once in a row, and costs one of `MaxFaults`. `Boot` is
`start()` up to the tasks it creates, in one step, since nothing else of the plugin runs yet;
the time it grants to an alarm wake-up or to look for the beacon is in `keep`. A state file that
cannot be written ends the loop (`Commit`); other exceptions that would end it, a script that
cannot be spawned or a battery level that is no number, are left out.

### EventBus (bus server)

`handler` is where `_handle_message` of each client waits, `lockQueue` the FIFO
of `asyncio.Lock`, `waiting` the waiting list. Each write to a client is a step and
may find its peer gone. `fate`, `got` and `due` record what happened to a message.
Peers read what they get, so a write ends; the cleaner's sleep ends on time; a client
slot is used again only when no fan-out still refers to the old one. `Kept`, the filter
of the cleaner, is built from the places of the messages it keeps (`FreshAt`), since the prover
cannot expand `SelectSeq`. Stopping the server and the replies to malformed lines are left out.

### Connection (bus client)

An action is what a coroutine does between two awaits. Links are numbered by the call
of `connect()` that made them (`gen`), and so are the queue, the reader and the writer
of that call; this is what makes a coroutine resumed late visible. asyncio's ready
queue is FIFO and `open_unix_connection` takes two rounds of it, so coroutines already
resumed run before a new link is there (the guard `~Runnable` of `Opened`). Listeners
take a message without an await; plugins register before `start()`. The cancellation of
coroutines at process exit is left out: what is under way may go on.

### Camera (camera plugin)

`task` holds what each task (the loop, the stream timer, the callers) still has to do;
`turn` is the task that runs until its next await. `queue` and `worker` are
`CameraControlsImpl`, `proc` is `_video_process`, `stray` a process that timed out and
was forgotten. Properties speak of the process, not of the state that stands for it:
`StateHasRecorder` wants the recorder itself under the state that says recording,
`StopsForGood` and `StreamEnds` want the process gone. The code breaks this in two
places ([section 7](#7-where-code-and-documentation-disagree)), which the properties excuse
by name: `Unstopped`, a start that no stop follows (`CameraUnstopped` has the property
without the excuse), and a start over a stream, which puts the state `record` over it:
`StateHasRecorder` speaks of the time before anybody `streamed`, a history variable, and
`StreamEnds` of streams not under that state. Without their excuses both are violated in
the run `Camera`. Abstractions: the width the user chose is above 1280, so throttling can
scale it down; temperatures are four bands between the thresholds; `wait_for` gives up
only on an operation queued behind a photo or clip; the world changes only when the
loop is about to look; each caller makes one call.

### Requests (requests and API over the bus)

The caller (`call`, `waiting`, `got`), the task of the API server (`task`, `runs`) and the
links between them as FIFO queues with a bus that passes on or stores. A timer runs out
only when nothing of its call is on the way any more, or something slow or lost is
(`Moving`, `cause`): ten seconds are long against a healthy bus. Ids are drawn anew and taken
as distinct (eight hex digits in the code). The bus is reduced to what `EventBus`
guarantees, with what it stores kept per channel, as the bus does; a response that is lost stays lost. A request belongs to a plugin, which calls
once, or to the command line client, which calls on every connection.

### TripPage, Trips (journal, beacon, trips)

`TripPage` has the two programs that read the journal: the three passes of `buildBlocks`
and the loops of `get_trip_state.py`, written separately, as in the code. `Trips` produces
the journal: sessions, the beacon monitor, the charging poll of the core plugin, shutdowns
and the bus (`mail`) on which the power plugin's records travel while the core plugin writes
its own at once. A place in the journal stands for a date. `Windows` are the places where
the page's two daily files may begin; midnight within the seconds of a shutdown, or within a
session that switched the beacon earlier, is left out there (`TileAgrees` has every
window). `since`, `parked`, `touched` and `missed` are history variables that only properties
read: `parked` collects the places of confirmed absences, from the first record written once the
beacon was known to be away (`Away`) to the shutdown; `touched` that a
record was lost on its way (`Lost`: the client gives up after five seconds without the bus) or the
switch was used meanwhile; `missed` that such a lost record, or one lost with the power, was to say
that the beacon is back or its feature off: then the page cannot know that the absence is over
([section 7](#7-where-code-and-documentation-disagree)). The passes of both programs are
recursive functions over the places of the window, so that they can be proved about.
Abstractions: silence in three steps (heard, beyond the presence window,
beyond the grace); readings and ticks are shorter than both windows; failed and changed
readings of the PiSugar are in `PowerLoop`. Records of other types are skipped by both
programs and left out.

### SettingsPages, Settings (front-end pages)

`SettingsPages` is a table: for each handler of fourteen pages what it asks, shows, fills,
disables, awaits and starts. `Settings` runs one page: handlers between their awaits, the
device that serves requests in any order, answers in any order, failures before or after
the effect, timers. A handler's row is the translation of the handler; the table keeps
each page's irregularities (a flag that is kept for the reload, a switch that moves first,
rows that a reload replaces, one variable `togglingPlugin` for the switches of all rows:
`Variable` is the set of flags such a variable stands for). Settings have two values; of a list
one row matters, of WireGuard's plugins two, since the second takes the flag of the first.
`shown` is the data of the page and, for the switch that is bound one-way (`OneWay`), what the
checkbox shows: it moves with the click (`flipped`) and is drawn again only when the bound value
changes or a load makes new rows. `doubt` holds the settings of which `Agreement` says nothing
until they are loaded again: their last two calls raced, their failed call had been served,
the load failed that the page relies on to show them after a save (`Relies`), or a save of the
one-way switch failed, which nothing puts back. Other failed loads leave no doubt. `OneSaver` says which settings can race (`Racy`).

## 4. Runs

| Run | Instance | Shows | States |
|---|---|---|---|
| `PowerCut` | 2 samples, 1 fault | every decision survives the hand-over, no unread byte is written, the boot clears the cut, `PowerOutcome` is implemented, a shutdown ends and on battery ends with the cut | 367,018 |
| `PowerCutReboot` | no fault | *violation*: the hook reboots under a running countdown | |
| `PowerLoop` | 1 plugin, modes disabled/short/long, 1 call, 2 changes, 1 fault | the loop acts on real losses only, patiently; a sleeping device is armed with its alarm; a device without power and work goes down | 1,214,586 |
| `EventBus` | 2 clients, 2 messages, 1 topic, 1 peer that goes away | no message is stranded, doubled or silently lost; the lock is handed on, handlers return, nothing waits for ever | 495,631 |
| `Camera` | a caller for start/pause/stream, one for clip/convert, 1 change, 1 fault | one process holds the camera, the queue is worked off, the processes that record or stream end without power (but for what the next run shows) and streams end; at rest and without a fault, the state that says recording has its recorder until somebody streams; recording resumes | 354,074 |
| `CameraUnstopped` | as `Camera` | *violation*: a pause that meets the start of the recorder leaves it running for good | |
| `Connection` | 3 links, 2 messages | one link ends once, the next starts clean, the service reconnects unless stopped | 315,413 |
| `Requests` | 1 call of a plugin, 2 of a command line client, 1 fault | a caller gets its own answer or a timeout with a cause, and every call ends | 117,754 |
| `RequestsCli` | 2 calls of a command line client | *violation*: a reconnect repeats the single call | |
| `Trips` | 7 records, 3 sessions, 1 odd event, 1 recording | absences are parkings, a running device is on a trip, tile and page agree, recordings are shown once, the past is not rewritten, also with a record lost on its way | 321,829 |
| `TripsEngine` | 6 records, 1 session | *violation*: a shutdown for a beacon that was never found shows as a trip | |
| `Settings` | 14 pages, 3 inputs (2 on the two largest), 1 failed request | pages agree with the device, saves are kept apart but for the settings of `Racy`, flags end with their calls | 591,871 |

Bounds, and why they are enough:

- *One fault* (`MaxFaults`) at any step. A second one meets the same retry and error
  branches; the safety properties that depend on faults are proved for any number.
- *Changes of the world* (`MaxChanges`): two are a loss and a return, or a return
  and another loss, at every pair of steps. In `PowerCut` the supply changes freely.
- *Clients and messages*: the bus code treats channels and clients alike. A store that
  races a subscription needs two clients.
- *Links*: a coroutine of an ended link can meet the next and the one after it;
  `LostIsClosed` and `BusCloses` stop at `MaxLinks`, so the last link is one that lasts.
- *Delays* keep only their order: no code adds them up beyond that. TTL and Period are 1
  for 15 s and 30 s: a message that waits ages between any two steps of a handler or the cleaner. Keep-alive and retry times are one or two ticks so that all
  their expirations fall within the sleep of the device and of the loop.
- Two calls beside the camera's loop: its races are between a call and the loop, the
  timer, or the operation of another call. A stop of a caller runs as a pause does, with the other
  state, and new settings run as a restart, which the loop makes too.
- *Calls*: in `Requests` a mix-up needs two requests of one caller or of two, and a response
  that meets another call. The client's third connection repeats what the second showed.
- *Journal*: seven records hold a session with a loss, a return and a shutdown beside a
  session without one; recordings repeat per name, so one suffices. Two odd events with six records were also checked
  (1,303,303 states, no error), too long for a run kept here; all five properties are proved
  for any number of records, sessions, odd events and recordings.
- *Inputs*: two calls race, the third meets what they left. The WireGuard page was also checked
  with three inputs (3,394,451 states, no error), too long for a run kept here.

`CHECK_DEADLOCK FALSE` stands in the configurations of `Camera`, `Connection`,
`Requests`, `Trips` and `Settings`: the camera's loop may die of an exception and the
callers have made their calls; a service that stopped has nothing left to do; calls, records
and inputs come to their bounds.

## 5. Fairness

- `PowerCut`: weak for the steps of the scripts (a process that can run does) and for a
  due cut on battery; strong for `Tick`, since the supply cannot change for ever
  within one second. None for the cut on external power: the hardware does not
  promise it, which is why the hook waits with a deadline.
- `PowerLoop`: weak for the loop, each controller, the other tasks and the clock. None
  for calls, changes of the world or failures.
- `EventBus`: weak for handlers, cleaner and clock: the event loop runs what is
  ready, and peers read.
- `Connection`: weak for the coroutines, sleeps and closing; strong for `Opened`: a bus
  that is asked again and again accepts some time. `Reconnects` excuses a `connect()`
  that met an error it does not retry.
- `Requests`: weak for what event loops and the bus have ready: a queued message, a task,
  a due timer, a caller to resume. None for connecting, so a link may stay down for ever; none
  for faults.
- `Trips` and `Settings` state safety only and assume no fairness.
- `Camera`: weak for the loop, the worker, the timer and the end of a process that
  nobody tracks; strong for the other tasks, one of which may be ready only
  now and then, between the turns of the loop: the event loop is FIFO and runs each task that
  is ready. A worker or loop that died stays dead; the properties name it.

## 6. Proofs

All theorems hold for every value of the constants that their named assumptions allow.
Each rests on an inductive invariant `IInv`: initially true, kept by every action,
and strong enough for the property. The conjuncts of `IInv` were checked by
TLC first.

| Module | Theorems | Invariant and why it is needed |
|---|---|---|
| `PowerCutProofs` | `TypeCorrect`, `RebootDecisionIsFinal`, `ForcedCutIsNeverRebooted`, `VerifiedCutIsWaitedFor`, `OnlyReadBytesAreWritten`, `RebootsUndoVerifiedCuts`, `BootsClearCuts`, `ScriptsImplementOutcome` | `HandoverOK` ties the hook's variables to the state file and to the step: the hook acts on a copy, and the properties compare its act with the file. `Pending` says at which steps a cut may be pending while no access has failed, and what the state file then says. `ScriptsImplementOutcome` maps each step to a step of `PowerOutcome` or a stutter under it. |
| `EventBusProofs` | `Types`, `NothingIsStranded`, `StoresPrecedeDeliveries`, `NobodyGetsItTwice`, `NoMessageIsLost` | The lookup of a subscriber and the storing are separate steps. `QueueOrder` says that a store queued at the lock precedes the delivery of a later subscriber; with `Shape` (who may be in the lock queue) and `Absent` (a lost client has no subscription) it makes `NoStranded` inductive. A message is with a task (to store it, or in a fan-out half done) or in a waiting list. `ListedOnce` and `OnePlace` say that it is in one place and that its fate tells in which; `Copies` ties how often it was received to its fate, and keeps a fan-out from those who have it; `Unbroken` says that, until a peer goes away, a client it is due to has it or is still ahead of its fan-out. |
| `PowerLoopProofs` | `PowerTypes`, `TargetIsInLine`, `OneLieIsNotEnough`, `OnlyTheBeaconForces`, `BusyPluginsVeto`, `LoopIsPatient`, `SleepersAreArmed` | `TargetNoted` carries the charging target from round to round, `DoubtIsRight` what the second reading proves, `HeldAreBusy` the plugins seen busy through the questions, `AttemptIsNoOlder` the age of the attempt against the history variable. For the sleep, `BootTasksFirst` says that what `start()` does to the alarm is done before the loop decides anything, and `Armed` what the PiSugar has at each step of the shutdown. |
| `ConnectionProofs` | `ConnectionTypes`, `NobodyTakesOver`, `StopIsFinal`, `LostIsLost`, `GreetingComesFirst` | A coroutine asks only "connected?". `Owners` says that it then finds its own link; `Alone` (one closer), `Phases` (nobody connects under a stop), `Links` (only the last is alive) and `NoExit` (no exit message in a live queue) keep it so. `Queued`, `Unwritten` and `Greets` carry the origin and order of messages from the queue to the wire. |
| `RequestsProofs` | `Types`, `OutcomesAreTrue` | A call is followed through every place its id may be. `Routes` says on which links a message may be, `Requested` that a request on its way is in one place and has no task yet, `Ran` how often a method ran by its task, `Replied` that a response is of an answered task, `Calls` that what a caller knows agrees with that, `Wanted` that a call without a cause to be late has a message or a task on the way. |
| `CameraProofs` | `Types`, `CameraIsAlone`, `RecordsWhenItSaysSo` | `Serial` says that the worker runs an operation only with no process in its hands. `Plans` limits what each task may have before it; `Unharmed` names what only a fault brings about; `Backed` says that a state that says recording has its recorder, or a start in the queue behind every stop, or a task that is about to change it. `RecordsWhenItSaysSo` holds until somebody streams (after that the code breaks it): until then (`Streamless`) no stream is queued, begun or running, which `Serial` says too. |
| `TripsProofs` | `Invariance`, `TileIsPage`, `TileAgreement`, `RunningTrip`, `AbsenceIsParking`, `PastStands`, `RecordingShownOnce` | `TileIsPage` is about the two programs alone: after each record of any journal the tile's state is that of the page, with the last segment for the list of segments. `PastStands` needs that an appended record makes real only losses that no clear follows, and opens only a session that saw none. For the others the journal has to say what the recorder is doing. `Opened`, `Powered` and `Found` say that a running device has opened its session after every shutdown, and that its last power record and, in this session, its beacon record are there or on the bus. `Answered` says that with the feature off (`Off`) every beacon-lost shutdown of the journal is answered by a clear behind it or by the switch in its session; it needs `Overtaken`, for a shutdown decided from an older reading overtaken by the switch, and `Switched`, that the bus ends with the record of the switch. `Absence` says that what was written since the beacon is known to be away is behind a start or a loss that nothing clears, `Dying` that the beacon-lost shutdown will be the session's last unless a record was lost, and `Parked` that each place in `parked` lies in such an absence, from its opening to the end of its session. |
| `SettingsProofs` | `FlagsEndWithCalls`, `SavesAreKeptApart`, `PagesAgree` | `Rules` states what the handlers of a page must obey: a flag that is kept is handed to a timer (`HandedOn`), a flag that keeps calls apart disables the controls of all that set it (`Guards`, but for one load that such a call awaits), and a setting that is not in `Racy` is saved under one flag only (`KeptApart`); `PagesObey` shows it of every page of `SettingsPages`, handler by handler. `Held` then says which call a flag belongs to, of a row's flag one that holds the row; `Apart` that one guarded call runs at a time and its flag stays set, which needs to say who waits for whom (`ParentsStay`, `LoadAwaited`), since the load clears the flag under the call that awaits it. `FirstThings` covers the time before `mounted` has started the first loads, when no control is used. For the agreement of page and device a further rule, `Mends`: a save is of one setting, and is the user's input, or put back or loaded again when it fails, or shown from its answer or by a load that follows; nothing a handler starts saves; a call that holds a row is about what the load that replaces the row fills. The invariant `Fits` says, setting by setting, what the calls under way know (`Noticed`: rivals know of each other and leave a doubt; `Current`: an answer without rival is what the device has; `Ahead`: a value shown before its answer stays shown; `Replaced`: a call that lost its row has met the load that took it) and why page and device may differ outside of doubt and edits (`Explained`: a call will load the setting, or a save under way will change it). `Flipping` adds that the one-way switch differs from the page's data only in doubt or while a call saves it, so a failed load that draws it again changes nothing that is not in doubt. |

What a pass over the journal computes is proved by induction over the places of the journal
without an operator parameter: every non-empty set of numbers has a least member (`Least`, from
`WFMin` and the well-foundedness of `<`), so a set that has 0 and with each number the next has all
(`UpTo`). The same argument shows that the recursive functions of `TripPage` exist and obey their
recursion (`Recursion`). The set is the set of places at which the claim holds.

Proved and in no run: the type invariants of all these modules but `Settings`, and
`RebootDecisionFinal`, `WritesOnlyReadBytes`, `QueueOrder` and `BusyVetoes`, which hold for every
value of the constants.

Only model-checked: liveness in all modules (fairness and `ENABLED` are outside the
prover).

## 7. Where code and documentation disagree

With a run that shows it:

| Where | Code | Said |
|---|---|---|
| `tools/install/shutdown-pisugar.sh:177` | reboots without cancelling when arming was reported as failed; `pisugar.sh:156` compares the whole byte, so a change of the charging bit reports a successful arming as failed | line 178: undo the arming, or the PiSugar pulls the power in the middle of the reboot |
| `sdk/cli.py:24` | every `on_connected` starts the call, and the connection reconnects while the client waits | line 28: executes a single API call |
| `static/js/components/pages/TripsComponent.js:182` | a session that only switched the beacon feature on counts as one that saw the beacon | lines 149-151: segments on the same effective state the shutdown engine uses |
| `plugins/org_vrg_camera/plugin.py:343` | a stop that meets a start queues no stop, and on battery the loop stops only in the states START and STREAM (`:137`): the recorder runs on | the plugin's README, line 8: stops recording on overheating or when running on battery |

Noticed while modelling, without a run:

- `plugins/org_vrg_camera/plugin.py:270`, `prod/camera_controls.py:101`: `start_video` sets the state
  before its start is queued, and the start is dropped without an error while a stream runs: the state
  says record (`thermal_throttle.py:52` takes it for `is_recording`), the stream runs on under it,
  and its timer leaves it alone (`:306`).
- `SystemSettingsComponent.js:76`: the switch of a plugin is bound one-way over a checkbox, so after a
  failed save it keeps what was not saved (`docs/Vue-components.md:31`: `modelValue` is the toggle
  state; `WiFiSettingsComponent.js:314` redraws its switches so that they match).
- `plugins/org_vrg_power/README.md:15` says of the mode `disabled` "Do not wake up
  automatically", but wake on power restore is always switched on before a sleep; results of the `set_*` calls there are ignored.
- `sdk/keep_alive.py:15`: a repeated call replaces the time and can shorten it;
  `plugins/org_vrg_power/methods/keep_alive.py:17` says that repeated calls extend the timer.
- `README.md:222` gives 55 °C for what `TEMP_DOWNSCALE_OFF` sets to 57; its photo "every 10
  sec" is a loop of 15 s plus 5 s.
- `sdk/power/pisugar.py:109,145` pass a string where the arguments are
  unpacked from a list, so that each letter becomes an argument.
- Messages that waited are delivered newest first.
- Two shutdowns at once (loop and API) both set the alarm.
- A pause is overridden by a restart or a stream.
- `plugins/org_vrg_bus/plugin.py:238`: only the 30 s cleaner looks at the age of a stored
  message; the README of the bus says 15 s.
- `plugins/org_vrg_bus/plugin.py:215`: a write that raises ends the fan-out, the other
  subscribers get nothing; the README says all subscribers do.
- `plugins/org_vrg_power/plugin.py:269`: the loop ends with its first poweroff, also when the
  command fails.
- `plugins/org_vrg_camera/plugin.py:348`: a photo on battery leaves PAUSE, and nothing
  records when the power returns.
- `plugins/org_vrg_http/handlers/generic_api_handler.py:41`: a 504 ends the request while the method goes on, so a save that
  "failed" may still take effect.
- `SystemSettingsComponent.js:145`: the flag of a service stays set when the reload after a
  good action fails (`Stuck` in `Settings`); the list `Racy` there names the settings two calls
  may save at once, in any order.
- Most forms can be edited while their load is under way, and the late answer overwrites
  the input.
- `app.js:466`: each camera action starts one more chain of status polls, which never ends.
- `WireguardSettingsComponent.js:414`: `togglingPlugin` is one variable for all rows, so the toggle of
  a second plugin frees the switch of the first while its save is under way, and two saves of it may
  arrive in either order. `Racy` lists the setting; `Agreement` leaves it in doubt until the next load.
- `sdk/journal.py:36`: a record that the bus does not take within five seconds is dropped, and no
  caller looks at the result.
- `plugins/org_vrg_bus/plugin.py:146,164`: a (un)subscription before the init is logged and dropped
  without an answer, and data before it is passed on as from nobody; the client always greets first
  (`InitFirst`).
- `plugins/org_vrg_power/plugin.py:257`: a state file that cannot be written ends the loop after the
  alarm is set and before anything powers off.
- `plugins/org_vrg_power/plugin.py:119`: `beacon_disabled` is "the only marker" that ends an
  absence once the feature is off, and it is sent once. If the power is lost before it reaches the journal
  and the target was cleared too, the next start announces nothing (`:56`), and the page shows
  parking while the device runs, until the absence is out of its window. `RunningIsTrip` excuses this (`missed`).
- `TripsMediaItem.js`, `toggleFave`: the star changes whatever the response says, and flips what
  is shown then instead of showing what was asked.
- `LiveBroadcastComponent.js`, `_waitForPlaylist`: a look for the playlist that is under way when the
  user stops attaches the player again.

## 8. Not modelled

Power supplies other than the PiSugar, charging protection and the status
methods of the power plugin; OSD, media files and the end of the service in the camera
plugin; the dispatch table and `EasyConnection` of the client; the discovery scan of the beacon;
events of other kinds, daily files and wording of the journal; logging in, validation,
confirmations and messages of the pages. Of the front-end also left out: the media items and
the live player, whose state is that of a library and of a video element, statistics charts, and
the pages that only load a list. `vue.global.js` and `hls.min.js` are vendored: two thirds of
the JavaScript is Vue, of which the models have what the pages rely on (handlers run
between their awaits, a page shows its data). Statistics (sampling into files), one-shot
start-up scripts and the command lines of rpicam and ffmpeg hold no protocol whose states could
be explored: the models have the processes they start by what the plugins see of them.
The parts of the second table of [section 1](#1-inventory) are left open: each is
independent of the others and of what is modelled, and matters less than it.

## 9. Plan

Of what the runs check, only liveness is left without a proof.

Composing `PowerLoop` with `PowerCut` behind its `poweroff`, with `PowerOutcome` as the
interface, would follow a shutdown decided on an old status to its end. Only the side of
`PowerCut` is checked against the interface so far.
