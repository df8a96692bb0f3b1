------------------------------- MODULE Camera -------------------------------
(***************************************************************************)
(* The camera plugin (plugins/org_vrg_camera): the lifecycle loop, the API *)
(* calls and the stream timer are asyncio tasks that change _video_state   *)
(* and hand operations to CameraControlsImpl, whose queue is worked off by *)
(* one _process_queue task.  A task keeps the event loop until it awaits:  *)
(* turn names the task that holds it in the middle of a step.              *)
(***************************************************************************)
EXTENDS Naturals, Sequences

CONSTANTS
    Callers,     \* tasks of API and bot calls; each one makes one call
    Kinds,       \* the calls each of them may make
    Bands,       \* the bands of the CPU temperature that occur
    MaxChanges,  \* how often the supply and the temperature change
    MaxFaults    \* how many operations fail or overrun their timeout

ASSUME CallersAssumption == Callers \cap {"loop", "timer", "worker", "none"} = {}
ASSUME KindsAssumption ==
    Kinds \in [Callers -> SUBSET {"start", "stop", "pause", "photo", "clip", "convert", "stream",
                                  "unstream", "settings"}]
ASSUME BoundsAssumption == Bands \subseteq 0..3 /\ MaxChanges \in Nat /\ MaxFaults \in Nat

VARIABLES
    power,      \* external power, with the beacon's consent
    temp,       \* CPU temperature: a band of const.py's thresholds
    changes, faults,
    seen,       \* charging_status as the loop read it
    state,      \* _video_state
    suspended,  \* _suspended
    first,      \* is_first_loop_done
    throttled,  \* ThermalThrottle._throttled
    timer,      \* _stream_timer_task sleeps
    queue,      \* CameraControlsImpl._queue
    worker,     \* the _process_queue task; idle is _is_processing = False
    proc,       \* _video_process: none, the mode it runs in, or exited
    stray,      \* a camera process is alive that nobody keeps track of
    task,       \* what each task still has to do
    called,     \* the callers that made their call
    streamed,   \* history: somebody asked for a stream
    turn        \* the task that holds the event loop, or none

world == <<power, temp, changes>>
plugin == <<state, suspended, throttled, timer>>
controls == <<queue, worker, proc, stray>>
vars == <<power, temp, changes, faults, seen, state, suspended, first, throttled, timer, queue,
          worker, proc, stray, task, called, streamed, turn>>

-----------------------------------------------------------------------------
Tasks == Callers \cup {"loop", "timer"}

\* below TEMP_DOWNSCALE_OFF, up to TEMP_VIDEO_RESUME, up to TEMP_VIDEO_STOP, above
Cool == 0
Mild == 1
Warm == 2
Hot == 3

Operations == {"start_file", "start_stream", "stop", "photo", "clip"}
Steps == {"check", "look", "act", "rest", "start", "start15", "photo15", "photo", "clip", "convert",
          "stop", "pause", "suspend", "suspended", "continue", "continued", "restart",
          "stream", "hls", "streaming", "unstream", "resume"}

Program == [start |-> <<"start">>, stop |-> <<"stop">>, pause |-> <<"pause">>,
            photo |-> <<"suspend", "suspended", "photo", "continue", "continued">>,
            clip |-> <<"suspend", "suspended", "clip", "convert", "continue", "continued">>,
            convert |-> <<"suspend", "suspended", "convert", "continue", "continued">>,
            stream |-> <<"stream">>, unstream |-> <<"unstream">>, settings |-> <<"restart">>]

Idle == [todo |-> <<>>, wait |-> "no", op |-> "none", behind |-> FALSE, was |-> FALSE]

TaskRecord == [todo : Seq(Steps), wait : {"no", "queue", "convert", "ok", "error"},
               op : Operations \cup {"none"}, behind : BOOLEAN, was : BOOLEAN]

TypeOK ==
    /\ power \in BOOLEAN /\ temp \in 0..3 /\ changes \in 0..MaxChanges /\ faults \in 0..MaxFaults
    /\ seen \in BOOLEAN /\ first \in BOOLEAN
    /\ state \in {"stop", "record", "pause", "stream"}
    /\ suspended \in BOOLEAN /\ throttled \in BOOLEAN /\ timer \in BOOLEAN
    /\ queue \in Seq([op : Operations, by : Tasks \cup {"none"}])
    /\ worker \in [pc : {"idle", "take", "run", "term", "kill", "dead"},
                   op : Operations \cup {"none"}, by : Tasks \cup {"none"}]
    /\ proc \in {"none", "file", "stream", "exited"} /\ stray \in BOOLEAN
    /\ worker.pc = "idle" => queue = <<>>
    /\ task \in [Tasks -> TaskRecord]
    /\ called \subseteq Callers /\ streamed \in BOOLEAN
    /\ turn \in Tasks \cup {"worker", "none"}

-----------------------------------------------------------------------------
(* The event loop.  A step runs when its task may run: nobody else is in   *)
(* the middle of one, and what the task awaited has come.                  *)

Fails == faults > 0 /\ faults' = faults - 1
Works == UNCHANGED faults

Runs(t, step) ==
    /\ turn \in {"none", t}
    /\ task[t].wait \in {"no", "ok"}
    /\ task[t].todo # <<>> /\ Head(task[t].todo) = step

\* Task t goes on with todo, in the same turn unless it yields or is done.
Continue(t, todo) ==
    /\ task' = [task EXCEPT ![t] = [Idle EXCEPT !.todo = todo, !.was = todo # <<>> /\ task[t].was]]
    /\ turn' = IF todo = <<>> THEN "none" ELSE t
    /\ UNCHANGED controls

Yield(t, todo) ==
    /\ task' = [task EXCEPT ![t] = [Idle EXCEPT !.todo = todo]]
    /\ turn' = "none"
    /\ UNCHANGED controls

Pending == (IF worker.pc = "run" THEN {worker.op} ELSE {}) \cup {queue[i].op : i \in DOMAIN queue}

Woken == IF worker.pc = "idle" THEN [worker EXCEPT !.pc = "take"] ELSE worker

\* _add_to_queue, then `await future`; todo is left for after the answer.
Await(t, op, todo) ==
    /\ queue' = Append(queue, [op |-> op, by |-> t])
    /\ worker' = Woken
    /\ task' = [task EXCEPT ![t].todo = todo, ![t].wait = "queue", ![t].op = op,
                            ![t].behind = t = "loop" /\ Pending \cap {"photo", "clip"} # {}]
    /\ turn' = "none"
    /\ UNCHANGED <<proc, stray>>

IsRecording == proc # "none"

-----------------------------------------------------------------------------
(* The plugin's methods, one await at a time.                              *)

Rest(t) == Tail(task[t].todo)

\* start_video; start15 is the loop's call under wait_for.
Start(t) ==
    /\ \E s \in {"start", "start15"} : Runs(t, s)
    /\ IF state = "record" /\ IsRecording
       THEN Continue(t, Rest(t)) /\ UNCHANGED plugin
       ELSE /\ state' = "record"
            /\ Await(t, "start_file", Rest(t))
            /\ UNCHANGED <<suspended, throttled, timer>>
    /\ Works /\ UNCHANGED <<world, seen, first, called, streamed>>

\* Mutant: the state changes only when there is nothing to stop.
StopVideo_Idle(t, s, todo) ==
    /\ state' = IF IsRecording THEN state ELSE s
    /\ timer' = (timer /\ state # "stream")
    /\ IF IsRecording THEN Await(t, "stop", todo) ELSE Continue(t, todo)
    /\ UNCHANGED <<suspended, throttled>>

\* stop_video(pause), leaving state s.
StopVideo(t, s, todo) ==
    /\ state' = s
    /\ timer' = (timer /\ state # "stream")
    /\ IF IsRecording THEN Await(t, "stop", todo) ELSE Continue(t, todo)
    /\ UNCHANGED <<suspended, throttled>>

Stop(t) ==
    /\ \/ Runs(t, "stop") /\ StopVideo(t, "stop", Rest(t))
       \/ Runs(t, "pause") /\ StopVideo(t, "pause", Rest(t))
    /\ Works /\ UNCHANGED <<world, seen, first, called, streamed>>

\* restart_video.
Restart(t) ==
    /\ Runs(t, "restart")
    /\ IF state = "record"
       THEN StopVideo(t, "stop", <<"start">> \o Rest(t))
       ELSE Continue(t, Rest(t)) /\ UNCHANGED plugin
    /\ Works /\ UNCHANGED <<world, seen, first, called, streamed>>

\* suspend_video up to its await.
Suspend(t) ==
    /\ Runs(t, "suspend")
    /\ state' = "pause"
    /\ timer' = (timer /\ state # "stream")
    /\ LET was == [task EXCEPT ![t].was = state = "record", ![t].todo = Rest(t), ![t].wait = "no"]
       IN IF IsRecording
          THEN /\ queue' = Append(queue, [op |-> "stop", by |-> t])
               /\ worker' = Woken
               /\ task' = [was EXCEPT ![t].wait = "queue", ![t].op = "stop"]
               /\ turn' = "none" /\ UNCHANGED <<proc, stray>>
          ELSE task' = was /\ turn' = t /\ UNCHANGED controls
    /\ Works /\ UNCHANGED <<world, seen, first, called, streamed, suspended, throttled>>

\* Its end; the photo or the clip is then taken by a task of its own.
Suspended(t) ==
    /\ Runs(t, "suspended")
    /\ suspended' = task[t].was
    /\ Yield(t, Rest(t))
    /\ Works /\ UNCHANGED <<world, seen, first, called, streamed, state, throttled, timer>>

\* continue_video.
ContinueVideo(t) ==
    /\ \/ /\ Runs(t, "continue")
          /\ IF suspended
             THEN Continue(t, <<"start">> \o Rest(t)) /\ UNCHANGED suspended
             ELSE Continue(t, <<>>) /\ UNCHANGED suspended
       \/ /\ Runs(t, "continued")
          /\ suspended' = FALSE
          /\ Continue(t, <<>>)
    /\ Works /\ UNCHANGED <<world, seen, first, called, streamed, state, throttled, timer>>

\* take_photo and take_video of the plugin.
Take(t) ==
    /\ \/ \E s \in {"photo", "photo15"} : Runs(t, s) /\ Await(t, "photo", Rest(t))
       \/ Runs(t, "clip") /\ Await(t, "clip", Rest(t))
    /\ Works /\ UNCHANGED <<world, seen, first, called, streamed, plugin>>

\* convert_h264_to_mp4: a subprocess beside the queue.
Convert(t) ==
    /\ Runs(t, "convert")
    /\ task' = [task EXCEPT ![t].todo = Rest(t), ![t].wait = "convert"]
    /\ turn' = "none"
    /\ Works /\ UNCHANGED <<world, seen, first, called, streamed, plugin, controls>>

Converted(t) ==
    /\ turn = "none" /\ task[t].wait = "convert"
    /\ \/ Works /\ task' = [task EXCEPT ![t].wait = "ok"]
       \/ Fails /\ task' = [task EXCEPT ![t] = Idle]
    /\ UNCHANGED <<world, seen, first, called, streamed, plugin, controls, turn>>

\* Mutant: a stream renews its timer but never sets it.
TimerSet_Renewed == timer' = timer

\* _reset_stream_timer.
TimerSet == timer' = TRUE

\* stream_start.
Stream(t) ==
    /\ \/ /\ Runs(t, "stream")
          /\ IF state = "stream"
             THEN TimerSet /\ Continue(t, <<>>)
             ELSE /\ IF IsRecording THEN Await(t, "stop", <<"hls">>) ELSE Continue(t, <<"hls">>)
                  /\ UNCHANGED timer
          /\ UNCHANGED state
       \/ /\ Runs(t, "hls")
          /\ Await(t, "start_stream", <<"streaming">>)
          /\ UNCHANGED <<state, timer>>
       \/ /\ Runs(t, "streaming")
          /\ state' = "stream" /\ TimerSet
          /\ Continue(t, <<>>)
    /\ Works /\ UNCHANGED <<world, seen, first, called, streamed, suspended, throttled>>

\* stream_stop, by a call or by the timer.
Unstream(t) ==
    /\ \/ /\ Runs(t, "unstream")
          /\ IF state # "stream"
             THEN Continue(t, <<>>) /\ UNCHANGED timer
             ELSE /\ timer' = FALSE
                  /\ IF IsRecording THEN Await(t, "stop", <<"resume">>) ELSE Continue(t, <<"resume">>)
          /\ UNCHANGED state
       \/ /\ Runs(t, "resume")
          /\ state' = "stop" /\ UNCHANGED timer
          /\ Continue(t, <<"start">>)
    /\ Works /\ UNCHANGED <<world, seen, first, called, streamed, suspended, throttled>>

\* _stream_auto_stop wakes up after its sixty seconds.
TimerFires ==
    /\ turn = "none" /\ timer /\ task["timer"].todo = <<>> /\ task["timer"].wait = "no"
    /\ timer' = FALSE
    /\ task' = [task EXCEPT !["timer"].todo = Program["unstream"]]
    /\ turn' = "timer"
    /\ UNCHANGED <<state, suspended, throttled, controls>>
    /\ Works /\ UNCHANGED <<world, seen, first, called, streamed>>

Call(t, kind) ==
    /\ turn = "none" /\ t \notin called
    /\ called' = called \cup {t} /\ streamed' = (streamed \/ kind = "stream")
    /\ task' = [task EXCEPT ![t].todo = Program[kind]]
    /\ turn' = t
    /\ Works /\ UNCHANGED <<world, seen, first, plugin, controls>>

\* A failed operation: start_video falls back to STOP, then the exception
\* ends the task; only wait_for(start_video()) has a handler in the loop.
Raise(t) ==
    /\ turn = "none" /\ task[t].wait = "error"
    /\ state' = IF task[t].op = "start_file" THEN "stop" ELSE state
    /\ task' = [task EXCEPT ![t] =
                    IF t = "loop" /\ task[t].op = "start_file" /\ task[t].was
                    THEN [Idle EXCEPT !.todo = <<"rest">>] ELSE Idle]
    /\ UNCHANGED <<suspended, throttled, timer, controls, turn>>
    /\ Works /\ UNCHANGED <<world, seen, first, called, streamed>>

-----------------------------------------------------------------------------
(* The lifecycle loop.                                                     *)

\* The PiSugar and the beacon are asked; UNKNOWN is not NOT_CHARGING.
Look ==
    /\ \/ Works /\ seen' = power
       \/ Fails /\ seen' = TRUE
    /\ Yield("loop", <<"act">>)
    /\ UNCHANGED plugin

\* The start of a round; a recorder that exited is cleared away first.
Check ==
    /\ \/ /\ Runs("loop", "check")
          /\ IF proc = "exited"
             THEN StopVideo("loop", "stop", <<"look">>) /\ Works /\ UNCHANGED seen
             ELSE Look
       \/ Runs("loop", "look") /\ Look
    /\ UNCHANGED <<world, first, called, streamed>>

\* ThermalThrottle.update, for a width that can be scaled down.
Throttled == IF throttled THEN temp # Cool ELSE temp \in {Warm, Hot}

\* Mutant: the comparison with TEMP_VIDEO_RESUME the wrong way round.
Action_Swapped ==
    IF state \in {"record", "stream"} /\ temp = Hot THEN <<"stop">>
    ELSE IF state = "stop" THEN IF temp \in {Cool, Mild} THEN <<"photo">> ELSE <<"start15">>
    ELSE <<>>

Action ==
    IF state = "record" /\ ((~throttled /\ temp = Warm) \/ (throttled /\ temp = Cool)) THEN <<"restart">>
    ELSE IF state \in {"record", "stream"} /\ temp = Hot THEN <<"stop">>
    ELSE IF state = "stop" THEN IF temp \in {Cool, Mild} THEN <<"start15">> ELSE <<"photo">>
    ELSE <<>>

\* Mutant: the loss of power is looked at in the first round only.
Unpowered_First == IF first THEN <<>> ELSE IF state \in {"record", "stream"} THEN <<"stop">> ELSE <<"photo15">>

\* On battery: stop, or take the wakeup photo of the first round.
Unpowered ==
    IF state \in {"record", "stream"} THEN <<"stop">>
    ELSE IF state = "stop" /\ ~first THEN <<"photo15">> ELSE <<>>

Act ==
    /\ Runs("loop", "act")
    /\ LET todo == IF seen THEN Action ELSE Unpowered
       IN IF todo = <<>>
          THEN first' = TRUE /\ Yield("loop", <<"check">>)
          ELSE /\ task' = [task EXCEPT !["loop"].todo = todo \o <<"rest">>,
                                       !["loop"].was = todo \in {<<"start15">>, <<"photo15">>}]
               /\ turn' = "loop"
               /\ UNCHANGED <<first, controls>>
    /\ throttled' = IF seen THEN Throttled ELSE throttled
    /\ seen' = FALSE
    /\ Works /\ UNCHANGED <<world, called, streamed, state, suspended, timer>>

\* The end of a round that did something, and the five seconds until the next.
Rested ==
    /\ Runs("loop", "rest")
    /\ first' = TRUE
    /\ Yield("loop", <<"check">>)
    /\ Works /\ UNCHANGED <<world, seen, called, streamed, plugin>>

\* wait_for gives up after fifteen seconds, which takes a photo or a clip
\* in front: the future is cancelled, the entry stays in the queue.
GiveUp ==
    /\ turn = "none"
    /\ task["loop"].wait = "queue" /\ task["loop"].behind /\ task["loop"].was
    /\ task' = [task EXCEPT !["loop"] = [Idle EXCEPT !.todo = <<"rest">>]]
    /\ queue' = [i \in DOMAIN queue |->
                    IF queue[i].by = "loop" THEN [queue[i] EXCEPT !.by = "none"] ELSE queue[i]]
    /\ worker' = IF worker.by = "loop" THEN [worker EXCEPT !.by = "none"] ELSE worker
    /\ Works /\ UNCHANGED <<world, seen, first, called, streamed, plugin, proc, stray, turn>>

-----------------------------------------------------------------------------
(* _process_queue.                                                         *)

\* A task whose await has its result; one with nothing left to do has ended.
Resolved(t, result) ==
    IF result = "ok" /\ task[t].todo = <<>> THEN Idle ELSE [task[t] EXCEPT !.wait = result]

\* future.set_result or set_exception; on a cancelled future it raises, and
\* the task ends with _is_processing still set.
Answer(by, result) ==
    IF by = "none"
    THEN worker' = [pc |-> "dead", op |-> "none", by |-> "none"] /\ turn' = "none" /\ UNCHANGED task
    ELSE /\ worker' = [pc |-> "take", op |-> "none", by |-> "none"]
         /\ turn' = "worker"
         /\ task' = [task EXCEPT ![by] = Resolved(by, result)]

Begin(pc, entry) ==
    /\ worker' = [pc |-> pc, op |-> entry.op, by |-> entry.by]
    /\ turn' = "none"
    /\ UNCHANGED task

\* Mutant: a photo is taken whatever runs.
Refused_Video(op) == op \in {"start_file", "start_stream"} /\ IsRecording

\* Only one process may hold the camera.
Refused(op) == op # "stop" /\ IsRecording

TakeNext ==
    /\ worker.pc = "take" /\ turn \in {"none", "worker"} /\ queue # <<>>
    /\ LET entry == Head(queue)
       IN CASE Refused(entry.op) -> Answer(entry.by, "ok") /\ UNCHANGED proc
            [] entry.op = "stop" /\ proc \in {"none", "exited"} -> Answer(entry.by, "ok") /\ proc' = "none"
            [] entry.op = "stop" /\ proc \in {"file", "stream"} -> Begin("term", entry) /\ UNCHANGED proc
            [] OTHER -> Begin("run", entry) /\ UNCHANGED proc
    /\ queue' = Tail(queue)
    /\ Works /\ UNCHANGED <<world, seen, first, called, streamed, plugin, stray>>

\* Mutant: the worker leaves without resetting _is_processing.
Left_Processing == [worker EXCEPT !.pc = "run"]

Left == [worker EXCEPT !.pc = "idle"]

Leave ==
    /\ worker.pc = "take" /\ turn \in {"none", "worker"} /\ queue = <<>>
    /\ worker' = Left
    /\ turn' = "none"
    /\ Works /\ UNCHANGED <<world, seen, first, called, streamed, plugin, queue, proc, stray, task>>

\* An operation takes longer than the tasks need that were answered before.
Longer == turn = "none" /\ \A t \in Tasks : task[t].wait \notin {"ok", "error"}

Running(op) == Longer /\ worker.pc = "run" /\ worker.op = op

\* _start_video.
Started(mode) ==
    /\ Running(IF mode = "file" THEN "start_file" ELSE "start_stream")
    /\ \/ Works /\ proc' = mode /\ Answer(worker.by, "ok")
       \/ Fails /\ UNCHANGED proc /\ Answer(worker.by, "error")
    /\ UNCHANGED <<world, seen, first, called, streamed, plugin, queue, stray>>

\* _take_photo swallows its timeout, _take_video does not; the process of a
\* timed out one runs on.
Taken(op) ==
    /\ Running(op)
    /\ \/ Works /\ Answer(worker.by, "ok") /\ UNCHANGED stray
       \/ Fails /\ Answer(worker.by, "error") /\ UNCHANGED stray
       \/ Fails /\ Answer(worker.by, IF op = "photo" THEN "ok" ELSE "error") /\ stray' = TRUE
    /\ UNCHANGED <<world, seen, first, called, streamed, plugin, queue, proc>>

\* _stop_video: SIGTERM, five seconds, SIGKILL of the script, five seconds.
Terminated ==
    /\ Longer
    /\ \/ /\ worker.pc = "term" /\ Works
          /\ proc' = "none" /\ Answer(worker.by, "ok") /\ UNCHANGED stray
       \/ /\ worker.pc = "term" /\ proc # "exited" /\ Fails
          /\ worker' = [worker EXCEPT !.pc = "kill"] /\ UNCHANGED <<proc, stray, task, turn>>
       \/ /\ worker.pc = "kill" /\ Works
          /\ proc' = "none" /\ stray' \in {stray, TRUE}
          /\ \E result \in {"ok", "error"} : Answer(worker.by, result)
    /\ UNCHANGED <<world, seen, first, called, streamed, plugin, queue>>

-----------------------------------------------------------------------------
(* Around it.                                                              *)

\* The recorder ends by itself, or cannot open a camera in use.
ProcessExits ==
    /\ turn = "none" /\ proc \in {"file", "stream"} /\ worker.pc # "kill"
    /\ \/ Fails
       \/ stray /\ Works
    /\ proc' = "exited"
    /\ UNCHANGED <<world, seen, first, called, streamed, plugin, queue, worker, stray, task, turn>>

StrayEnds ==
    /\ stray
    /\ stray' = FALSE
    /\ UNCHANGED <<plugin, queue, worker, proc, task, turn>>
    /\ Works /\ UNCHANGED <<world, seen, first, called, streamed>>

\* Only the loop looks at the world, so it changes when the loop is about to look.
Change ==
    /\ turn = "none" /\ task["loop"].todo = <<"check">>
    /\ changes > 0 /\ changes' = changes - 1
    /\ \/ power' = ~power /\ UNCHANGED temp
       \/ temp' \in Bands \ {temp} /\ UNCHANGED power
    /\ Works /\ UNCHANGED <<seen, first, called, streamed, plugin, controls, task, turn>>

Init ==
    /\ power \in BOOLEAN /\ temp = Cool /\ changes = MaxChanges /\ faults = MaxFaults
    /\ seen = FALSE /\ state = "stop" /\ suspended = FALSE /\ first = FALSE /\ throttled = FALSE
    /\ timer = FALSE
    /\ queue = <<>> /\ worker = [pc |-> "idle", op |-> "none", by |-> "none"]
    /\ proc = "none" /\ stray = FALSE
    /\ task = [t \in Tasks |-> IF t = "loop" THEN [Idle EXCEPT !.todo = <<"check">>] ELSE Idle]
    /\ called = {} /\ streamed = FALSE /\ turn = "none"

PluginStep(t) ==
    \/ Start(t) \/ Stop(t) \/ Restart(t) \/ Suspend(t) \/ Suspended(t) \/ ContinueVideo(t)
    \/ Take(t) \/ Convert(t) \/ Converted(t) \/ Stream(t) \/ Unstream(t) \/ Raise(t)

LoopStep == Check \/ Act \/ Rested

WorkerStep ==
    \/ TakeNext \/ Leave \/ Terminated
    \/ \E m \in {"file", "stream"} : Started(m)
    \/ \E op \in {"photo", "clip"} : Taken(op)

Next ==
    \/ \E t \in Tasks : PluginStep(t)
    \/ LoopStep \/ GiveUp \/ WorkerStep \/ TimerFires
    \/ \E t \in Callers : \E k \in Kinds[t] : Call(t, k)
    \/ ProcessExits \/ StrayEnds \/ Change

Spec == Init /\ [][Next]_vars

\* The event loop runs the tasks that are ready in their order: one that is ready
\* time and again, between the turns of the loop, has its turn.  An operation ends
\* or times out; the timer fires; a process nobody tracks ends in the end.
FairSpec ==
    /\ Spec
    /\ SF_vars(\E t \in Tasks \ {"loop"} : PluginStep(t)) /\ WF_vars(PluginStep("loop") \/ LoopStep)
    /\ WF_vars(WorkerStep) /\ WF_vars(TimerFires) /\ WF_vars(StrayEnds)

-----------------------------------------------------------------------------
\* At most one process of the plugin holds the camera: while a photo or a clip
\* is taken no recorder runs.
OneCamera ==
    worker.pc = "run" /\ worker.op \in {"photo", "clip"} => proc \notin {"file", "stream"}

Quiet ==
    /\ turn = "none" /\ worker.pc = "idle"
    /\ \A t \in Tasks \ {"loop"} : task[t].todo = <<>> /\ task[t].wait = "no"
    /\ task["loop"].todo \in {<<>>, <<"check">>}

\* When nothing is going on, the state that says recording stands for a recorder
\* that runs, unless something failed (thermal_throttle.py takes VideoState.START
\* for is_recording).  It is so until somebody streams: start_video over a running
\* stream sets the state too, and its start is refused.
StateHasRecorder ==
    Quiet /\ faults = MaxFaults /\ ~streamed /\ state = "record" => proc = "file"

\* The plugin is beyond repair: its queue or its loop has ended.
Broken == worker.pc = "dead" \/ (task["loop"].todo = <<>> /\ task["loop"].wait = "no")

\* The queue is always worked off again, unless its task ended.
Drained == []<>(queue = <<>> \/ worker.pc = "dead")

\* A process records or streams, whatever _video_state says.
Filming == proc \in {"file", "stream"}

\* A recorder is coming that no stop follows, while the state is that of a stop.
Unstopped ==
    /\ state \in {"stop", "pause"}
    /\ \/ worker.pc = "run" /\ worker.op = "start_file" /\ \A j \in DOMAIN queue : queue[j].op # "stop"
       \/ \E i \in DOMAIN queue :
              /\ queue[i].op = "start_file"
              /\ \A j \in DOMAIN queue : j > i => queue[j].op # "stop"

\* Without external power, or above TEMP_VIDEO_STOP, the camera ends up neither
\* recording nor streaming (the plugin's README).
StopsWithoutPower == <>[](~power \/ temp = Hot) => <>[](~Filming \/ Broken)

\* The same, where no stop_video ran into the start of a recorder: it sees no
\* process yet, queues no stop, and nothing stops the recorder afterwards.
StopsForGood ==
    <>[](~power \/ temp = Hot) /\ []~Unstopped => <>[](~Filming \/ Broken)

\* A stream comes to its end, by the timer if nobody stops it, unless something
\* failed (the timer is not set again when its stop_video raises) or start_video
\* put the state record over it, which the timer takes for the end of the stream.
StreamEnds == [](faults = MaxFaults) => <>[](proc # "stream" \/ state = "record" \/ Broken)

\* With power and a normal temperature the plugin does not stay stopped.
PowerStarts == <>[](power /\ temp \in {Cool, Mild}) => <>[](state # "stop" \/ Broken)

=============================================================================
