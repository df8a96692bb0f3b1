---------------------------- MODULE CameraProofs ----------------------------
(* Proofs about Camera, for any callers and calls, any bands of the           *)
(* temperature and any number of changes and faults.                          *)
EXTENDS Camera, SequenceTheorems, TLAPS

\* Nobody asked for a stream so far.
Streamless == ~streamed

\* The loop never streams, and no task does before somebody asks for it.
Dry(t) == t = "loop" \/ Streamless

\* The worker runs an operation that is no stop, with no process in its hands, and
\* has to do with streams only after somebody asked for one.
Serial ==
  /\ worker.pc = "run" => proc = "none" /\ worker.op # "stop"
  /\ Streamless => /\ \A i \in DOMAIN queue : queue[i].op # "start_stream"
                   /\ worker.op # "start_stream" /\ proc # "stream"

\* A caller that made no call has nothing to do, and a dry task never streams.
Plans ==
  /\ \A t \in Callers \ called : task[t].todo = <<>>
  /\ \A t \in Tasks : Dry(t) => task[t].todo \in Seq(Steps \ {"stream", "hls", "streaming"})

\* What only a fault brings about.
Unharmed ==
  faults = MaxFaults =>
    /\ ~stray /\ proc # "exited" /\ worker.pc # "kill"
    /\ \A t \in Tasks : task[t].wait # "error"

\* A task is in the middle of stream_start and will set the state to STREAM.
Streaming ==
  \E t \in Tasks \ {"loop"} : task[t].todo # <<>> /\ Head(task[t].todo) \in {"hls", "streaming"}

\* A start, and no stop after it.
StartLast ==
  \E i \in DOMAIN queue :
    /\ queue[i].op \in {"start_file", "start_stream"}
    /\ \A j \in DOMAIN queue : j > i => queue[j].op # "stop"

\* A recorder runs or is being started, and no stop is before the worker.
Stays ==
  /\ \A i \in DOMAIN queue : queue[i].op # "stop"
  /\ \/ proc # "none" /\ worker.pc \notin {"term", "kill"}
     \/ worker.pc = "run" /\ worker.op \in {"start_file", "start_stream"}

\* The state that says recording will have its recorder, or will be changed.
Backed == faults = MaxFaults /\ state = "record" => Streaming \/ StartLast \/ Stays

IInv == TypeOK /\ Serial /\ Plans /\ Unharmed /\ Backed

-----------------------------------------------------------------------------
(* The parts of the type invariant                                            *)

Scalars ==
  /\ power \in BOOLEAN /\ temp \in 0..3 /\ changes \in 0..MaxChanges /\ faults \in 0..MaxFaults
  /\ seen \in BOOLEAN /\ first \in BOOLEAN
  /\ state \in {"stop", "record", "pause", "stream"}
  /\ suspended \in BOOLEAN /\ throttled \in BOOLEAN /\ timer \in BOOLEAN
  /\ called \subseteq Callers /\ streamed \in BOOLEAN

Entries == [op : Operations, by : Tasks \cup {"none"}]
Workers == [pc : {"idle", "take", "run", "term", "kill", "dead"},
            op : Operations \cup {"none"}, by : Tasks \cup {"none"}]

Controls ==
  /\ queue \in Seq(Entries) /\ worker \in Workers
  /\ proc \in {"none", "file", "stream", "exited"} /\ stray \in BOOLEAN
  /\ worker.pc = "idle" => queue = <<>>

TaskTypes == task \in [Tasks -> TaskRecord] /\ turn \in Tasks \cup {"worker", "none"}

LEMMA Parts == TypeOK <=> Scalars /\ Controls /\ TaskTypes
  BY DEF TypeOK, Scalars, Controls, TaskTypes, Entries, Workers

LEMMA PartsNext == TypeOK' <=> Scalars' /\ Controls' /\ TaskTypes'
  BY DEF TypeOK, Scalars, Controls, TaskTypes, Entries, Workers

LoopSteps == Steps \ {"stream", "hls", "streaming"}

\* Task t goes on with todo; the others are left alone.
Moves(t, todo) ==
  /\ TaskTypes' /\ task'[t].todo = todo /\ task'[t].wait # "error"
  /\ \A u \in Tasks \ {t} : task'[u] = task[u]

\* An operation is added to the queue.
Adds(t, op) ==
  /\ queue' = Append(queue, [op |-> op, by |-> t])
  /\ worker' = Woken /\ UNCHANGED <<proc, stray>>

LEMMA TaskNames ==
  /\ "loop" \in Tasks /\ "timer" \in Tasks /\ Callers \subseteq Tasks /\ "none" \notin Tasks
  /\ "worker" \notin Tasks /\ "loop" \notin Callers /\ "timer" \notin Callers
  BY CallersAssumption DEF Tasks

\* A task that runs has its step in front.
LEMMA Resumed ==
  ASSUME TypeOK, NEW t \in Tasks, NEW s, Runs(t, s)
  PROVE  /\ task[t] \in TaskRecord /\ task[t].todo \in Seq(Steps) /\ task[t].todo # <<>>
         /\ Head(task[t].todo) = s /\ Rest(t) \in Seq(Steps)
         /\ Plans => (t \in Callers => t \in called)
         /\ Plans /\ Dry(t) => s \in LoopSteps /\ Rest(t) \in Seq(LoopSteps)
<1>1. task[t] \in TaskRecord
  BY Parts DEF TaskTypes
<1>2. task[t].todo \in Seq(Steps)
  BY <1>1 DEF TaskRecord
<1>3. task[t].todo # <<>> /\ Head(task[t].todo) = s
  BY DEF Runs
<1>4. Rest(t) \in Seq(Steps)
  BY <1>2, <1>3, HeadTailProperties DEF Rest
<1>5. ASSUME Plans, t \in Callers PROVE t \in called
  BY <1>3, <1>5 DEF Plans
<1>6. ASSUME Plans, Dry(t) PROVE s \in LoopSteps /\ Rest(t) \in Seq(LoopSteps)
  <2>1. task[t].todo \in Seq(LoopSteps)
    BY <1>6 DEF Plans, LoopSteps
  <2>q. QED
    BY <2>1, <1>3, HeadTailProperties DEF Rest
<1>q. QED
  BY <1>1, <1>2, <1>3, <1>4, <1>5, <1>6

LEMMA IdleRecord ==
  /\ Idle \in TaskRecord
  /\ \A todo \in Seq(Steps) : [Idle EXCEPT !.todo = todo] \in TaskRecord
  /\ \A todo \in Seq(Steps), b \in BOOLEAN : [Idle EXCEPT !.todo = todo, !.was = b] \in TaskRecord
<1>1. <<>> \in Seq(Steps)
  OBVIOUS
<1>q. QED
  BY <1>1 DEF Idle, TaskRecord

LEMMA Continues ==
  ASSUME TypeOK, NEW t \in Tasks, NEW todo \in Seq(Steps), Continue(t, todo)
  PROVE  Moves(t, todo) /\ Controls' /\ UNCHANGED controls
<1>1. task[t] \in TaskRecord /\ task \in [Tasks -> TaskRecord] /\ Controls
  BY Parts DEF TaskTypes
<1>2. PICK b \in BOOLEAN : b = (todo # <<>> /\ task[t].was)
  BY <1>1 DEF TaskRecord
<1>3. task' = [task EXCEPT ![t] = [Idle EXCEPT !.todo = todo, !.was = b]]
  BY <1>2 DEF Continue
<1>4. [Idle EXCEPT !.todo = todo, !.was = b] \in TaskRecord
  BY IdleRecord
<1>5. /\ [Idle EXCEPT !.todo = todo, !.was = b].todo = todo
      /\ [Idle EXCEPT !.todo = todo, !.was = b].wait = "no"
  BY DEF Idle
<1>6. UNCHANGED controls /\ turn' \in Tasks \cup {"worker", "none"}
  BY DEF Continue
<1>7. Controls'
  BY <1>1, <1>6 DEF Controls, controls
<1>q. QED
  BY <1>1, <1>3, <1>4, <1>5, <1>6, <1>7 DEF Moves, TaskTypes

LEMMA Yields ==
  ASSUME TypeOK, NEW t \in Tasks, NEW todo \in Seq(Steps), Yield(t, todo)
  PROVE  Moves(t, todo) /\ Controls' /\ UNCHANGED controls
<1>1. task \in [Tasks -> TaskRecord] /\ Controls
  BY Parts DEF TaskTypes
<1>3. task' = [task EXCEPT ![t] = [Idle EXCEPT !.todo = todo]]
  BY DEF Yield
<1>4. [Idle EXCEPT !.todo = todo] \in TaskRecord
  BY IdleRecord
<1>5. [Idle EXCEPT !.todo = todo].todo = todo /\ [Idle EXCEPT !.todo = todo].wait = "no"
  BY DEF Idle
<1>6. UNCHANGED controls /\ turn' \in Tasks \cup {"worker", "none"}
  BY DEF Yield
<1>7. Controls'
  BY <1>1, <1>6 DEF Controls, controls
<1>q. QED
  BY <1>1, <1>3, <1>4, <1>5, <1>6, <1>7 DEF Moves, TaskTypes

LEMMA AddTypes ==
  ASSUME TypeOK, NEW t \in Tasks, NEW op \in Operations, Adds(t, op)
  PROVE  Controls'
<1>1. Controls
  BY Parts
<1>2. [op |-> op, by |-> t] \in Entries
  BY DEF Entries
<1>3. queue' \in Seq(Entries)
  BY <1>1, <1>2, AppendProperties DEF Controls, Adds
<1>4. Woken \in Workers /\ Woken.pc # "idle"
  BY <1>1 DEF Woken, Controls, Workers
<1>q. QED
  BY <1>1, <1>3, <1>4 DEF Adds, Controls

LEMMA Awaits ==
  ASSUME TypeOK, NEW t \in Tasks, NEW todo \in Seq(Steps), NEW op \in Operations,
         Await(t, op, todo)
  PROVE  Moves(t, todo) /\ Controls' /\ Adds(t, op)
<1>1. task[t] \in TaskRecord /\ task \in [Tasks -> TaskRecord] /\ Controls
  BY Parts DEF TaskTypes
<1>2. Adds(t, op)
  BY DEF Await, Adds
<1>3. Controls'
  BY <1>2, AddTypes
<1>4. PICK b \in BOOLEAN : b = (t = "loop" /\ Pending \cap {"photo", "clip"} # {})
  OBVIOUS
<1>5. task' = [task EXCEPT ![t] = [@ EXCEPT !.todo = todo, !.wait = "queue", !.op = op,
                                            !.behind = b]]
  BY <1>1, <1>4 DEF Await
<1>6. [task[t] EXCEPT !.todo = todo, !.wait = "queue", !.op = op, !.behind = b] \in TaskRecord
  BY <1>1 DEF TaskRecord
<1>7. turn' \in Tasks \cup {"worker", "none"}
  BY DEF Await
<1>8. task'[t].todo = todo /\ task'[t].wait = "queue"
  BY <1>1, <1>5 DEF TaskRecord
<1>q. QED
  BY <1>1, <1>2, <1>3, <1>5, <1>6, <1>7, <1>8 DEF Moves, TaskTypes

-----------------------------------------------------------------------------
(* The steps of the plugin's methods                                          *)

\* What a step of task t, whose step s is over, may do with the state.
Justified(t, s, todo) ==
  \/ state' # "record"
  \/ t # "loop" /\ todo # <<>> /\ Head(todo) \in {"hls", "streaming"}
  \/ /\ state' = state /\ s \notin {"hls", "streaming"}
     /\ UNCHANGED controls \/ \E op \in {"photo", "clip"} : Adds(t, op)
  \/ \E op \in {"start_file", "start_stream"} : Adds(t, op)

\* What follows a stop stays behind when something else is added.
LEMMA AddsKeep ==
  ASSUME Controls, NEW t \in Tasks, NEW op \in Operations, Adds(t, op)
  PROVE  /\ op \in {"start_file", "start_stream"} => StartLast'
         /\ op # "stop" /\ StartLast => StartLast'
         /\ op # "stop" /\ Stays => Stays'
<1>1. /\ Len(queue) \in Nat /\ DOMAIN queue = 1 .. Len(queue)
      /\ DOMAIN queue' = 1 .. Len(queue) + 1
      /\ \A i \in 1 .. Len(queue) : queue'[i] = queue[i]
      /\ queue'[Len(queue) + 1] = [op |-> op, by |-> t]
  BY DEF Controls, Adds
<1>2. queue'[Len(queue) + 1].op = op
  BY <1>1
<1>3. op \in {"start_file", "start_stream"} => StartLast'
  BY <1>1, <1>2 DEF StartLast
<1>4. ASSUME op # "stop", StartLast PROVE StartLast'
  <2>1. PICK i \in DOMAIN queue :
          /\ queue[i].op \in {"start_file", "start_stream"}
          /\ \A j \in DOMAIN queue : j > i => queue[j].op # "stop"
    BY <1>4 DEF StartLast
  <2>2. queue'[i].op \in {"start_file", "start_stream"} /\ i \in DOMAIN queue'
    BY <2>1, <1>1
  <2>3. \A j \in DOMAIN queue' : j > i => queue'[j].op # "stop"
    BY <2>1, <1>1, <1>2, <1>4
  <2>q. QED
    BY <2>2, <2>3 DEF StartLast
<1>5. ASSUME op # "stop", Stays PROVE Stays'
  <2>1. \A i \in DOMAIN queue' : queue'[i].op # "stop"
    BY <1>1, <1>2, <1>5 DEF Stays
  <2>2. worker' = worker \/ (worker.pc = "idle" /\ worker'.pc = "take")
    BY DEF Adds, Woken, Controls, Workers
  <2>q. QED
    BY <2>1, <2>2, <1>5 DEF Stays, Adds
<1>q. QED
  BY <1>3, <1>4, <1>5

\* The invariant after a step of a method.
LEMMA MethodStep ==
  ASSUME IInv, NEW t \in Tasks, NEW s, Runs(t, s), NEW todo \in Seq(Steps), Moves(t, todo),
         Dry(t) => todo \in Seq(LoopSteps),
         UNCHANGED controls \/ \E op \in Operations : Adds(t, op) /\ (Dry(t) => op # "start_stream"),
         Justified(t, s, todo), Scalars', Controls', UNCHANGED <<faults, called, streamed>>
  PROVE  IInv'
<1> USE DEF IInv
<1>1. TypeOK'
  BY PartsNext DEF Moves
<1>2. /\ UNCHANGED <<proc, stray>>
      /\ worker' = worker \/ (worker.pc = "idle" /\ worker'.pc = "take")
  BY Parts DEF Adds, Woken, controls, Controls, Workers
<1>3. Serial'
  <2>1. CASE UNCHANGED controls
    BY <2>1 DEF Serial, controls, Dry, Streamless
  <2>2. CASE \E op \in Operations : Adds(t, op) /\ (Dry(t) => op # "start_stream")
    <3>1. PICK op \in Operations : Adds(t, op) /\ (Dry(t) => op # "start_stream")
      BY <2>2
    <3>2. /\ Len(queue) \in Nat /\ DOMAIN queue = 1 .. Len(queue)
          /\ DOMAIN queue' = 1 .. Len(queue) + 1
          /\ \A i \in 1 .. Len(queue) : queue'[i] = queue[i]
          /\ queue'[Len(queue) + 1] = [op |-> op, by |-> t]
      BY <3>1, Parts DEF Controls, Adds
    <3>3. worker'.op = worker.op
      BY <3>1, Parts DEF Adds, Woken, Controls, Workers
    <3>4. ASSUME Streamless PROVE \A i \in DOMAIN queue' : queue'[i].op # "start_stream"
      <4>1. op # "start_stream"
        BY <3>1, <3>4 DEF Dry
      <4>2. queue'[Len(queue) + 1].op = op
        BY <3>2
      <4>q. QED
        BY <3>2, <3>4, <4>1, <4>2 DEF Serial
    <3>q. QED
      BY <1>2, <3>3, <3>4 DEF Serial, Dry, Streamless
  <2>q. QED
    BY <2>1, <2>2
<1>4. Plans'
  <2>1. \A u \in Tasks : Dry(u) => task'[u].todo \in Seq(LoopSteps)
    BY DEF Moves, Plans, LoopSteps
  <2>2. \A u \in Callers \ called : task'[u].todo = <<>>
    BY Resumed, TaskNames DEF Moves, Plans
  <2>q. QED
    BY <2>1, <2>2 DEF Plans, LoopSteps, Dry, Streamless
<1>5. Unharmed'
  <2>1. \A u \in Tasks : task[u].wait # "error" => task'[u].wait # "error"
    BY DEF Moves
  <2>q. QED
    BY <1>2, <2>1 DEF Unharmed
<1>6. ASSUME faults = MaxFaults, state' = "record" PROVE (Streaming \/ StartLast \/ Stays)'
  <2>1. CASE t # "loop" /\ todo # <<>> /\ Head(todo) \in {"hls", "streaming"}
    BY <2>1 DEF Streaming, Moves
  <2>2. CASE \E op \in {"start_file", "start_stream"} : Adds(t, op)
    BY <2>2, AddsKeep, Parts DEF Operations
  <2>3. CASE /\ state' = state /\ s \notin {"hls", "streaming"}
             /\ UNCHANGED controls \/ \E op \in {"photo", "clip"} : Adds(t, op)
    <3>1. Streaming \/ StartLast \/ Stays
      BY <1>6, <2>3 DEF Backed
    <3>2. ASSUME Streaming PROVE Streaming'
      <4>1. PICK u \in Tasks \ {"loop"} :
              task[u].todo # <<>> /\ Head(task[u].todo) \in {"hls", "streaming"}
        BY <3>2 DEF Streaming
      <4>2. u # t
        BY <4>1, <2>3 DEF Runs
      <4>q. QED
        BY <4>1, <4>2 DEF Streaming, Moves
    <3>3. ASSUME StartLast \/ Stays PROVE (StartLast \/ Stays)'
      <4>1. CASE UNCHANGED controls
        <5>1. UNCHANGED <<queue, worker, proc>>
          BY <4>1 DEF controls
        <5>q. QED
          BY <5>1, <3>3 DEF StartLast, Stays
      <4>2. CASE \E op \in {"photo", "clip"} : Adds(t, op)
        BY <4>2, <3>3, AddsKeep, Parts DEF Operations
      <4>q. QED
        BY <4>1, <4>2, <2>3
    <3>q. QED
      BY <3>1, <3>2, <3>3
  <2>q. QED
    BY <2>1, <2>2, <2>3, <1>6 DEF Justified
<1>7. Backed'
  BY <1>6 DEF Backed
<1>q. QED
  BY <1>1, <1>3, <1>4, <1>5, <1>7

LEMMA StartSteps ==
  ASSUME IInv, NEW t \in Tasks, Start(t)
  PROVE  IInv'
<1>0. TypeOK /\ Plans /\ Scalars
  BY Parts DEF IInv
<1>1. PICK s \in {"start", "start15"} : Runs(t, s)
  BY DEF Start
<1>2. Rest(t) \in Seq(Steps) /\ (Dry(t) => Rest(t) \in Seq(LoopSteps))
  BY <1>0, <1>1, Resumed
<1>3. UNCHANGED <<faults, called, streamed>> /\ UNCHANGED <<power, temp, changes, seen, first>>
  BY DEF Start, Works, world
<1>4. CASE state = "record" /\ IsRecording
  <2>1. Continue(t, Rest(t)) /\ UNCHANGED <<state, suspended, throttled, timer>>
    BY <1>4 DEF Start, plugin
  <2>2. Moves(t, Rest(t)) /\ Controls' /\ UNCHANGED controls
    BY <2>1, <1>0, <1>2, Continues
  <2>3. Scalars' /\ Justified(t, s, Rest(t))
    BY <2>1, <2>2, <1>0, <1>3 DEF Scalars, Justified
  <2>q. QED
    BY <2>2, <2>3, <1>1, <1>2, <1>3, MethodStep
<1>5. CASE ~(state = "record" /\ IsRecording)
  <2>1. /\ Await(t, "start_file", Rest(t)) /\ state' = "record"
        /\ UNCHANGED <<suspended, throttled, timer>>
    BY <1>5 DEF Start
  <2>2. Moves(t, Rest(t)) /\ Controls' /\ Adds(t, "start_file")
    BY <2>1, <1>0, <1>2, Awaits DEF Operations
  <2>3. Scalars' /\ Justified(t, s, Rest(t))
    BY <2>1, <2>2, <1>0, <1>3 DEF Scalars, Justified
  <2>q. QED
    BY <2>2, <2>3, <1>1, <1>2, <1>3, MethodStep DEF Operations
<1>q. QED
  BY <1>4, <1>5

\* stop_video of a running step.
LEMMA StopVideoStep ==
  ASSUME IInv, NEW t \in Tasks, NEW r, Runs(t, r), NEW s \in {"stop", "pause"},
         NEW todo \in Seq(Steps), Dry(t) => todo \in Seq(LoopSteps), StopVideo(t, s, todo),
         Works, UNCHANGED <<world, seen, first, called, streamed>>
  PROVE  IInv'
<1>0. TypeOK /\ Plans /\ Scalars
  BY Parts DEF IInv
<1>1. UNCHANGED <<faults, called, streamed>> /\ UNCHANGED <<power, temp, changes, seen, first>>
  BY DEF Works, world
<1>2. state' = s /\ timer' \in BOOLEAN /\ UNCHANGED <<suspended, throttled>>
  BY <1>0 DEF StopVideo, Scalars
<1>3. Scalars' /\ Justified(t, r, todo)
  BY <1>0, <1>1, <1>2 DEF Scalars, Justified
<1>4. CASE IsRecording
  <2>1. Await(t, "stop", todo)
    BY <1>4 DEF StopVideo
  <2>2. Moves(t, todo) /\ Controls' /\ Adds(t, "stop")
    BY <2>1, <1>0, Awaits DEF Operations
  <2>q. QED
    BY <2>2, <1>1, <1>3, MethodStep DEF Operations
<1>5. CASE ~IsRecording
  <2>1. Continue(t, todo)
    BY <1>5 DEF StopVideo
  <2>2. Moves(t, todo) /\ Controls' /\ UNCHANGED controls
    BY <2>1, <1>0, Continues
  <2>q. QED
    BY <2>2, <1>1, <1>3, MethodStep
<1>q. QED
  BY <1>4, <1>5

LEMMA StopSteps ==
  ASSUME IInv, NEW t \in Tasks, Stop(t) \/ Restart(t)
  PROVE  IInv'
<1>0. TypeOK /\ Plans /\ Scalars
  BY Parts DEF IInv
<1>1. ASSUME NEW s \in {"stop", "pause"}, Runs(t, s), StopVideo(t, s, Rest(t)), Stop(t)
      PROVE  IInv'
  <2>1. Rest(t) \in Seq(Steps) /\ (Dry(t) => Rest(t) \in Seq(LoopSteps))
    BY <1>0, <1>1, Resumed
  <2>2. Works /\ UNCHANGED <<world, seen, first, called, streamed>>
    BY <1>1 DEF Stop
  <2>q. QED
    BY <1>1, <2>1, <2>2, StopVideoStep
<1>2. CASE Restart(t)
  <2>1. Runs(t, "restart") /\ Works /\ UNCHANGED <<world, seen, first, called, streamed>>
    BY <1>2 DEF Restart
  <2>2. Rest(t) \in Seq(Steps) /\ (Dry(t) => Rest(t) \in Seq(LoopSteps))
    BY <1>0, <2>1, Resumed
  <2>3. CASE state = "record"
    <3>1. StopVideo(t, "stop", <<"start">> \o Rest(t))
      BY <1>2, <2>3 DEF Restart
    <3>2. <<"start">> \in Seq(Steps) /\ <<"start">> \in Seq(LoopSteps)
      BY DEF Steps, LoopSteps
    <3>3. <<"start">> \o Rest(t) \in Seq(Steps)
      BY <2>2, <3>2, ConcatProperties
    <3>4. Dry(t) => <<"start">> \o Rest(t) \in Seq(LoopSteps)
      BY <2>2, <3>2, ConcatProperties
    <3>q. QED
      BY <2>1, <3>1, <3>3, <3>4, StopVideoStep
  <2>4. CASE state # "record"
    <3>1. Continue(t, Rest(t)) /\ UNCHANGED <<state, suspended, throttled, timer>>
      BY <1>2, <2>4 DEF Restart, plugin
    <3>2. Moves(t, Rest(t)) /\ Controls' /\ UNCHANGED controls
      BY <3>1, <1>0, <2>2, Continues
    <3>3. UNCHANGED <<faults, called, streamed>> /\ UNCHANGED <<power, temp, changes, seen, first>>
      BY <2>1 DEF Works, world
    <3>4. Scalars' /\ Justified(t, "restart", Rest(t))
      BY <3>1, <3>2, <3>3, <1>0 DEF Scalars, Justified
    <3>q. QED
      BY <2>1, <2>2, <3>2, <3>3, <3>4, MethodStep
  <2>q. QED
    BY <2>3, <2>4
<1>3. CASE Stop(t)
  <2>1. \/ Runs(t, "stop") /\ StopVideo(t, "stop", Rest(t))
        \/ Runs(t, "pause") /\ StopVideo(t, "pause", Rest(t))
    BY <1>3 DEF Stop
  <2>q. QED
    BY <2>1, <1>1, <1>3
<1>q. QED
  BY <1>2, <1>3

LEMMA SuspendStep ==
  ASSUME IInv, NEW t \in Tasks, Suspend(t)
  PROVE  IInv'
<1>0. TypeOK /\ Plans /\ Scalars /\ Controls
  BY Parts DEF IInv
<1>1. Runs(t, "suspend")
  BY DEF Suspend
<1>2. /\ Rest(t) \in Seq(Steps) /\ (Dry(t) => Rest(t) \in Seq(LoopSteps))
      /\ task[t] \in TaskRecord /\ task \in [Tasks -> TaskRecord]
  BY <1>0, <1>1, Resumed, Parts DEF TaskTypes
<1>3. UNCHANGED <<faults, called, streamed>> /\ UNCHANGED <<power, temp, changes, seen, first>>
  BY DEF Suspend, Works, world
<1>4. state' = "pause" /\ timer' \in BOOLEAN /\ UNCHANGED <<suspended, throttled>>
  BY <1>0 DEF Suspend, Scalars
<1>5. Scalars' /\ Justified(t, "suspend", Rest(t))
  BY <1>0, <1>3, <1>4 DEF Scalars, Justified
<1>6. PICK b \in BOOLEAN : b = (state = "record")
  OBVIOUS
<1>7. CASE IsRecording
  <2>1. Adds(t, "stop") /\ turn' = "none"
    BY <1>7 DEF Suspend, Adds
  <2>2. task' = [task EXCEPT ![t] = [@ EXCEPT !.was = b, !.todo = Rest(t), !.wait = "queue",
                                              !.op = "stop"]]
    BY <1>2, <1>6, <1>7 DEF Suspend, TaskRecord
  <2>3. [task[t] EXCEPT !.was = b, !.todo = Rest(t), !.wait = "queue", !.op = "stop"] \in TaskRecord
    BY <1>2 DEF TaskRecord, Operations
  <2>4. task'[t].todo = Rest(t) /\ task'[t].wait = "queue"
    BY <1>2, <2>2 DEF TaskRecord
  <2>5. Moves(t, Rest(t))
    BY <1>2, <2>1, <2>2, <2>3, <2>4 DEF Moves, TaskTypes
  <2>6. Controls'
    BY <1>0, <2>1, AddTypes DEF Operations
  <2>q. QED
    BY <1>1, <1>2, <1>3, <1>5, <2>1, <2>5, <2>6, MethodStep DEF Operations
<1>8. CASE ~IsRecording
  <2>1. UNCHANGED controls /\ turn' = t
    BY <1>8 DEF Suspend
  <2>2. task' = [task EXCEPT ![t] = [@ EXCEPT !.was = b, !.todo = Rest(t), !.wait = "no"]]
    BY <1>2, <1>6, <1>8 DEF Suspend, TaskRecord
  <2>3. [task[t] EXCEPT !.was = b, !.todo = Rest(t), !.wait = "no"] \in TaskRecord
    BY <1>2 DEF TaskRecord
  <2>4. task'[t].todo = Rest(t) /\ task'[t].wait = "no"
    BY <1>2, <2>2 DEF TaskRecord
  <2>5. Moves(t, Rest(t))
    BY <1>2, <2>1, <2>2, <2>3, <2>4 DEF Moves, TaskTypes
  <2>6. Controls'
    BY <1>0, <2>1 DEF Controls, controls
  <2>q. QED
    BY <1>1, <1>2, <1>3, <1>5, <2>1, <2>5, <2>6, MethodStep
<1>q. QED
  BY <1>7, <1>8

LEMMA ResumeSteps ==
  ASSUME IInv, NEW t \in Tasks, Suspended(t) \/ ContinueVideo(t)
  PROVE  IInv'
<1>0. TypeOK /\ Plans /\ Scalars
  BY Parts DEF IInv
<1>1. /\ UNCHANGED <<faults, called, streamed>> /\ UNCHANGED <<power, temp, changes, seen, first>>
      /\ UNCHANGED <<state, throttled, timer>>
  BY DEF Suspended, ContinueVideo, Works, world
<1>2. ASSUME NEW s \in {"suspended", "continue", "continued"}, Runs(t, s), suspended' \in BOOLEAN,
             NEW todo \in Seq(Steps), Dry(t) => todo \in Seq(LoopSteps),
             Continue(t, todo) \/ Yield(t, todo)
      PROVE  IInv'
  <2>1. Moves(t, todo) /\ Controls' /\ UNCHANGED controls
    BY <1>2, <1>0, Continues, Yields
  <2>2. Scalars' /\ Justified(t, s, todo)
    BY <1>0, <1>1, <1>2, <2>1 DEF Scalars, Justified
  <2>q. QED
    BY <1>1, <1>2, <2>1, <2>2, MethodStep
<1>3. <<"start">> \in Seq(Steps) /\ <<"start">> \in Seq(LoopSteps) /\ <<>> \in Seq(Steps)
      /\ <<>> \in Seq(LoopSteps)
  BY DEF Steps, LoopSteps
<1>4. CASE Suspended(t)
  <2>1. /\ Runs(t, "suspended") /\ Yield(t, Rest(t)) /\ task[t] \in TaskRecord
        /\ suspended' = task[t].was
    BY <1>4, <1>0, Parts DEF Suspended, TaskTypes
  <2>2. suspended' \in BOOLEAN
    BY <2>1 DEF TaskRecord
  <2>3. Rest(t) \in Seq(Steps) /\ (Dry(t) => Rest(t) \in Seq(LoopSteps))
    BY <1>0, <2>1, Resumed
  <2>q. QED
    BY <2>1, <2>2, <2>3, <1>2
<1>5. CASE Runs(t, "continue") /\ suspended /\ ContinueVideo(t)
  <2>1. Continue(t, <<"start">> \o Rest(t)) /\ UNCHANGED suspended
    BY <1>5 DEF ContinueVideo, Runs
  <2>2. Rest(t) \in Seq(Steps) /\ (Dry(t) => Rest(t) \in Seq(LoopSteps))
    BY <1>0, <1>5, Resumed
  <2>3. <<"start">> \o Rest(t) \in Seq(Steps)
    BY <2>2, <1>3, ConcatProperties
  <2>4. Dry(t) => <<"start">> \o Rest(t) \in Seq(LoopSteps)
    BY <2>2, <1>3, ConcatProperties
  <2>5. suspended' \in BOOLEAN
    BY <2>1, <1>0 DEF Scalars
  <2>q. QED
    BY <2>1, <2>3, <2>4, <2>5, <1>5, <1>2
<1>6. CASE Runs(t, "continue") /\ ~suspended /\ ContinueVideo(t)
  <2>1. Continue(t, <<>>) /\ UNCHANGED suspended
    BY <1>6 DEF ContinueVideo, Runs
  <2>2. suspended' \in BOOLEAN
    BY <2>1, <1>0 DEF Scalars
  <2>q. QED
    BY <2>1, <2>2, <1>3, <1>6, <1>2
<1>7. CASE Runs(t, "continued") /\ ContinueVideo(t)
  <2>1. Continue(t, <<>>) /\ suspended' = FALSE
    BY <1>7 DEF ContinueVideo, Runs
  <2>q. QED
    BY <2>1, <1>3, <1>7, <1>2
<1>q. QED
  BY <1>4, <1>5, <1>6, <1>7 DEF ContinueVideo

LEMMA TakeSteps ==
  ASSUME IInv, NEW t \in Tasks, Take(t) \/ Convert(t)
  PROVE  IInv'
<1>0. TypeOK /\ Plans /\ Scalars /\ Controls
  BY Parts DEF IInv
<1>1. /\ UNCHANGED <<faults, called, streamed>> /\ UNCHANGED <<power, temp, changes, seen, first>>
      /\ UNCHANGED <<state, suspended, throttled, timer>>
  BY DEF Take, Convert, Works, world, plugin
<1>2. Scalars'
  BY <1>0, <1>1 DEF Scalars
<1>3. CASE Take(t)
  <2>1. PICK s \in {"photo", "photo15", "clip"}, op \in {"photo", "clip"} :
          Runs(t, s) /\ Await(t, op, Rest(t))
    BY <1>3 DEF Take
  <2>2. Rest(t) \in Seq(Steps) /\ (Dry(t) => Rest(t) \in Seq(LoopSteps))
    BY <1>0, <2>1, Resumed
  <2>3. Moves(t, Rest(t)) /\ Controls' /\ Adds(t, op)
    BY <2>1, <1>0, <2>2, Awaits DEF Operations
  <2>4. Justified(t, s, Rest(t))
    BY <2>3, <1>1 DEF Justified
  <2>q. QED
    BY <2>1, <2>2, <2>3, <2>4, <1>1, <1>2, MethodStep DEF Operations
<1>4. CASE Convert(t)
  <2>1. Runs(t, "convert") /\ turn' = "none" /\ UNCHANGED controls
    BY <1>4 DEF Convert
  <2>2. /\ Rest(t) \in Seq(Steps) /\ (Dry(t) => Rest(t) \in Seq(LoopSteps))
        /\ task[t] \in TaskRecord /\ task \in [Tasks -> TaskRecord]
    BY <1>0, <2>1, Resumed, Parts DEF TaskTypes
  <2>3. task' = [task EXCEPT ![t] = [@ EXCEPT !.todo = Rest(t), !.wait = "convert"]]
    BY <1>4, <2>2 DEF Convert
  <2>4. [task[t] EXCEPT !.todo = Rest(t), !.wait = "convert"] \in TaskRecord
    BY <2>2 DEF TaskRecord
  <2>5. task'[t].todo = Rest(t) /\ task'[t].wait = "convert"
    BY <2>2, <2>3 DEF TaskRecord
  <2>6. Moves(t, Rest(t))
    BY <2>1, <2>2, <2>3, <2>4, <2>5 DEF Moves, TaskTypes
  <2>7. Controls' /\ Justified(t, "convert", Rest(t))
    BY <1>0, <1>1, <2>1 DEF Controls, controls, Justified
  <2>q. QED
    BY <2>1, <2>2, <2>6, <2>7, <1>1, <1>2, MethodStep
<1>q. QED
  BY <1>3, <1>4

LEMMA StreamSteps ==
  ASSUME IInv, NEW t \in Tasks, Stream(t)
  PROVE  IInv'
<1>0. TypeOK /\ Plans /\ Scalars
  BY Parts DEF IInv
<1>1. /\ UNCHANGED <<faults, called, streamed>> /\ UNCHANGED <<power, temp, changes, seen, first>>
      /\ UNCHANGED <<suspended, throttled>>
  BY DEF Stream, Works, world
<1>2. PICK s \in {"stream", "hls", "streaming"} : Runs(t, s)
  BY DEF Stream
<1>3. ~Dry(t) /\ t # "loop"
  BY <1>0, <1>2, Resumed DEF LoopSteps, Dry
<1>4. /\ <<"hls">> \in Seq(Steps) /\ <<"streaming">> \in Seq(Steps) /\ <<>> \in Seq(Steps)
      /\ <<"hls">> # <<>> /\ Head(<<"hls">>) = "hls"
      /\ <<"streaming">> # <<>> /\ Head(<<"streaming">>) = "streaming"
  BY DEF Steps
<1>5. timer' \in BOOLEAN
  BY <1>0 DEF Stream, TimerSet, Scalars
<1>6. CASE Runs(t, "stream") /\ state = "stream"
  <2>1. Continue(t, <<>>) /\ state' = "stream"
    BY <1>6 DEF Stream, Runs
  <2>2. Moves(t, <<>>) /\ Controls' /\ UNCHANGED controls
    BY <2>1, <1>0, <1>4, Continues
  <2>3. Scalars' /\ Justified(t, "stream", <<>>)
    BY <1>0, <1>1, <1>5, <2>1 DEF Scalars, Justified
  <2>q. QED
    BY <1>1, <1>3, <1>4, <1>6, <2>2, <2>3, MethodStep
<1>7. CASE Runs(t, "stream") /\ state # "stream"
  <2>1. /\ IsRecording => Await(t, "stop", <<"hls">>)
        /\ ~IsRecording => Continue(t, <<"hls">>)
        /\ UNCHANGED state
    BY <1>7 DEF Stream, Runs
  <2>2. Moves(t, <<"hls">>) /\ Controls' /\ (UNCHANGED controls \/ Adds(t, "stop"))
    BY <2>1, <1>0, <1>4, Continues, Awaits DEF Operations
  <2>3. Scalars' /\ Justified(t, "stream", <<"hls">>)
    BY <1>0, <1>1, <1>3, <1>4, <1>5, <2>1 DEF Scalars, Justified
  <2>q. QED
    BY <1>1, <1>3, <1>4, <1>7, <2>2, <2>3, MethodStep DEF Operations
<1>8. CASE Runs(t, "hls")
  <2>1. Await(t, "start_stream", <<"streaming">>) /\ UNCHANGED state
    BY <1>8 DEF Stream, Runs
  <2>2. Moves(t, <<"streaming">>) /\ Controls' /\ Adds(t, "start_stream")
    BY <2>1, <1>0, <1>4, Awaits DEF Operations
  <2>3. Scalars' /\ Justified(t, "hls", <<"streaming">>)
    BY <1>0, <1>1, <1>3, <1>4, <1>5, <2>1 DEF Scalars, Justified
  <2>q. QED
    BY <1>1, <1>3, <1>4, <1>8, <2>2, <2>3, MethodStep DEF Operations
<1>9. CASE Runs(t, "streaming")
  <2>1. Continue(t, <<>>) /\ state' = "stream"
    BY <1>9 DEF Stream, Runs
  <2>2. Moves(t, <<>>) /\ Controls' /\ UNCHANGED controls
    BY <2>1, <1>0, <1>4, Continues
  <2>3. Scalars' /\ Justified(t, "streaming", <<>>)
    BY <1>0, <1>1, <1>5, <2>1 DEF Scalars, Justified
  <2>q. QED
    BY <1>1, <1>3, <1>4, <1>9, <2>2, <2>3, MethodStep
<1>q. QED
  BY <1>6, <1>7, <1>8, <1>9 DEF Stream

LEMMA UnstreamSteps ==
  ASSUME IInv, NEW t \in Tasks, Unstream(t)
  PROVE  IInv'
<1>0. TypeOK /\ Plans /\ Scalars
  BY Parts DEF IInv
<1>1. /\ UNCHANGED <<faults, called, streamed>> /\ UNCHANGED <<power, temp, changes, seen, first>>
      /\ UNCHANGED <<suspended, throttled>>
  BY DEF Unstream, Works, world
<1>4. /\ \A S : <<>> \in Seq(S) 
      /\ <<"resume">> \in Seq(Steps) /\ <<"resume">> \in Seq(LoopSteps)
      /\ <<"start">> \in Seq(Steps) /\ <<"start">> \in Seq(LoopSteps)
  BY DEF Steps, LoopSteps
<1>5. timer' \in BOOLEAN
  BY <1>0 DEF Unstream, Scalars
<1>6. CASE Runs(t, "unstream") /\ state # "stream"
  <2>1. Continue(t, <<>>) /\ UNCHANGED state
    BY <1>6 DEF Unstream, Runs
  <2>2. Moves(t, <<>>) /\ Controls' /\ UNCHANGED controls
    BY <2>1, <1>0, <1>4, Continues
  <2>3. Scalars' /\ Justified(t, "unstream", <<>>)
    BY <1>0, <1>1, <1>5, <2>1, <2>2 DEF Scalars, Justified
  <2>q. QED
    BY <1>1, <1>4, <1>6, <2>2, <2>3, MethodStep
<1>7. CASE Runs(t, "unstream") /\ state = "stream"
  <2>1. /\ IsRecording => Await(t, "stop", <<"resume">>)
        /\ ~IsRecording => Continue(t, <<"resume">>)
        /\ state' = "stream"
    BY <1>7 DEF Unstream, Runs
  <2>2. Moves(t, <<"resume">>) /\ Controls' /\ (UNCHANGED controls \/ Adds(t, "stop"))
    BY <2>1, <1>0, <1>4, Continues, Awaits DEF Operations
  <2>3. Scalars' /\ Justified(t, "unstream", <<"resume">>)
    BY <1>0, <1>1, <1>5, <2>1 DEF Scalars, Justified
  <2>q. QED
    BY <1>1, <1>4, <1>7, <2>2, <2>3, MethodStep DEF Operations
<1>8. CASE Runs(t, "resume")
  <2>1. Continue(t, <<"start">>) /\ state' = "stop"
    BY <1>8 DEF Unstream, Runs
  <2>2. Moves(t, <<"start">>) /\ Controls' /\ UNCHANGED controls
    BY <2>1, <1>0, <1>4, Continues
  <2>3. Scalars' /\ Justified(t, "resume", <<"start">>)
    BY <1>0, <1>1, <1>5, <2>1 DEF Scalars, Justified
  <2>q. QED
    BY <1>1, <1>4, <1>8, <2>2, <2>3, MethodStep
<1>q. QED
  BY <1>6, <1>7, <1>8 DEF Unstream

-----------------------------------------------------------------------------
(* The other steps                                                            *)

\* Once something failed, less remains to be shown.
LEMMA FaultStep ==
  ASSUME IInv, Fails, TypeOK', Serial', Plans'
  PROVE  IInv'
<1>1. faults' < MaxFaults
  BY BoundsAssumption DEF IInv, TypeOK, Fails
<1>2. faults' # MaxFaults
  BY <1>1, BoundsAssumption DEF IInv, TypeOK, Fails
<1>q. QED
  BY <1>2 DEF IInv, Unharmed, Backed

\* A step that leaves what the tasks have to do, the state and the queue's
\* operations; what it does to the worker is given.
LEMMA WorkStep ==
  ASSUME IInv, TypeOK', Serial', UNCHANGED <<faults, called, streamed, state>>,
         \A u \in Tasks : task'[u].todo = task[u].todo,
         \A u \in Tasks : task'[u].wait = "error" => task[u].wait = "error" \/ faults # MaxFaults,
         faults = MaxFaults =>
           ~stray' /\ proc' # "exited" /\ worker'.pc # "kill" /\ (StartLast \/ Stays => (StartLast \/ Stays)')
  PROVE  IInv'
<1> USE DEF IInv
<1>1. Plans'
  BY TaskNames DEF Plans, Dry, Streamless
<1>2. Unharmed'
  BY DEF Unharmed
<1>3. Streaming => Streaming'
  BY DEF Streaming
<1>4. Backed'
  BY <1>3 DEF Backed
<1>q. QED
  BY <1>1, <1>2, <1>4

LEMMA ConvertedStep ==
  ASSUME IInv, NEW t \in Tasks, Converted(t)
  PROVE  IInv'
<1>0. /\ TypeOK /\ Scalars /\ Controls /\ task \in [Tasks -> TaskRecord]
      /\ turn \in Tasks \cup {"worker", "none"} /\ task[t] \in TaskRecord
  BY Parts DEF IInv, TaskTypes
<1>1. /\ UNCHANGED <<power, temp, changes, seen, first, called, streamed, state, suspended, throttled, timer>>
      /\ UNCHANGED <<queue, worker, proc, stray, turn>>
  BY DEF Converted, world, plugin, controls
<1>2. Serial' /\ Controls' /\ (StartLast \/ Stays => (StartLast \/ Stays)')
  BY <1>0, <1>1 DEF IInv, Serial, Controls, StartLast, Stays, Dry, Streamless
<1>3. CASE Works /\ task' = [task EXCEPT ![t].wait = "ok"]
  <2>1. Scalars'
    BY <1>0, <1>1, <1>3 DEF Scalars, Works
  <2>2. TaskTypes'
    BY <1>0, <1>1, <1>3 DEF TaskTypes, TaskRecord
  <2>3. \A u \in Tasks : /\ task'[u].todo = task[u].todo
                         /\ task'[u].wait = "error" => task[u].wait = "error"
    BY <1>0, <1>3 DEF TaskRecord
  <2>4. UNCHANGED faults
    BY <1>3 DEF Works
  <2>q. QED
    BY <2>1, <2>2, <2>3, <2>4, <1>1, <1>2, PartsNext, WorkStep DEF IInv, Unharmed
<1>4. CASE Fails /\ task' = [task EXCEPT ![t] = Idle]
  <2>1. Scalars'
    BY <1>0, <1>1, <1>4, BoundsAssumption DEF Scalars, Fails
  <2>2. TaskTypes'
    BY <1>0, <1>1, <1>4, IdleRecord DEF TaskTypes
  <2>3. Idle.todo = <<>> /\ \A S : <<>> \in Seq(S)
    BY DEF Idle
  <2>4. Plans'
    BY <1>0, <1>1, <1>4, <2>3, TaskNames DEF IInv, Plans, Dry, Streamless
  <2>q. QED
    BY <2>1, <2>2, <2>4, <1>2, <1>4, PartsNext, FaultStep
<1>q. QED
  BY <1>3, <1>4 DEF Converted

LEMMA RaiseStep ==
  ASSUME IInv, NEW t \in Tasks, Raise(t)
  PROVE  IInv'
<1>0. /\ TypeOK /\ Scalars /\ Controls /\ task \in [Tasks -> TaskRecord]
      /\ turn \in Tasks \cup {"worker", "none"}
  BY Parts DEF IInv, TaskTypes
<1>1. /\ UNCHANGED <<power, temp, changes, seen, first, called, streamed, suspended, throttled, timer>>
      /\ UNCHANGED <<queue, worker, proc, stray, turn, faults>> /\ state' \in {state, "stop"}
  BY DEF Raise, world, plugin, controls, Works
<1>2. faults # MaxFaults
  BY DEF IInv, Unharmed, Raise
<1>3. <<"rest">> \in Seq(Steps) /\ <<"rest">> \in Seq(LoopSteps) /\ \A S : <<>> \in Seq(S)
  BY DEF Steps, LoopSteps
<1>4. PICK new \in TaskRecord :
        /\ task' = [task EXCEPT ![t] = new]
        /\ new = Idle \/ (t = "loop" /\ new = [Idle EXCEPT !.todo = <<"rest">>])
  <2>1. Idle \in TaskRecord /\ [Idle EXCEPT !.todo = <<"rest">>] \in TaskRecord
    BY <1>3, IdleRecord
  <2>q. QED
    BY <2>1 DEF Raise
<1>5. new.todo = <<>> \/ new.todo = <<"rest">>
  BY <1>4 DEF Idle
<1>6. Scalars' /\ Controls' /\ TaskTypes' /\ Serial'
  BY <1>0, <1>1, <1>4 DEF Scalars, Controls, TaskTypes, IInv, Serial, Dry, Streamless
<1>7. Plans'
  <2>1. task'[t].todo \in {<<>>, <<"rest">>} /\ \A u \in Tasks \ {t} : task'[u] = task[u]
    BY <1>0, <1>4, <1>5
  <2>2. \A u \in Callers \ called' : task'[u].todo = <<>>
    BY <1>0, <1>1, <1>4, <2>1, TaskNames DEF IInv, Plans, Idle
  <2>3. \A u \in Tasks : Dry(u) => task'[u].todo \in Seq(LoopSteps)
    BY <1>3, <2>1 DEF IInv, Plans, LoopSteps
  <2>q. QED
    BY <1>1, <2>2, <2>3 DEF Plans, LoopSteps, Dry, Streamless
<1>q. QED
  BY <1>1, <1>2, <1>6, <1>7, PartsNext DEF IInv, Unharmed, Backed

LEMMA LookStep ==
  ASSUME IInv, NEW s, Runs("loop", s), s \in {"check", "look"}, Look,
         UNCHANGED <<world, first, called, streamed>>
  PROVE  IInv'
<1>0. /\ TypeOK /\ Plans /\ Scalars /\ "loop" \in Tasks
      /\ <<"act">> \in Seq(Steps) /\ <<"act">> \in Seq(LoopSteps)
  BY Parts, TaskNames DEF IInv, Steps, LoopSteps
<1>1. /\ UNCHANGED <<power, temp, changes, first, called, streamed, state, suspended, throttled, timer>>
      /\ Yield("loop", <<"act">>) /\ seen' \in BOOLEAN
  BY <1>0 DEF Look, world, plugin, Scalars
<1>2. Moves("loop", <<"act">>) /\ Controls' /\ UNCHANGED controls
  BY <1>0, <1>1, Yields
<1>3. CASE Works
  <2>1. Scalars' /\ Justified("loop", s, <<"act">>) /\ UNCHANGED faults
    BY <1>0, <1>1, <1>2, <1>3 DEF Scalars, Justified, Works
  <2>q. QED
    BY <1>0, <1>1, <1>2, <2>1, MethodStep
<1>4. CASE Fails
  <2>1. Scalars' /\ Serial'
    BY <1>0, <1>1, <1>2, <1>4, BoundsAssumption DEF Scalars, Fails, IInv, Serial, controls, Dry, Streamless
  <2>2. TypeOK'
    BY <1>2, <2>1, PartsNext DEF Moves
  <2>3. Plans'
    <3>1. \A u \in Tasks : Dry(u)' <=> Dry(u)
      BY <1>1 DEF Dry, Streamless
    <3>q. QED
      BY <1>0, <1>1, <1>2, <3>1, TaskNames DEF Moves, Plans, LoopSteps
  <2>q. QED
    BY <1>4, <2>1, <2>2, <2>3, FaultStep
<1>q. QED
  BY <1>3, <1>4 DEF Look

LEMMA ActTodo ==
  ASSUME NEW todo, todo \in {Action, Unpowered}
  PROVE  /\ todo \in {<<>>, <<"restart">>, <<"stop">>, <<"start15">>, <<"photo">>, <<"photo15">>}
         /\ todo \o <<"rest">> \in Seq(Steps) /\ todo \o <<"rest">> \in Seq(LoopSteps)
<1>1. todo \in {<<>>, <<"restart">>, <<"stop">>, <<"start15">>, <<"photo">>, <<"photo15">>}
  BY DEF Action, Unpowered
<1>2. \A S : <<>> \in Seq(S) /\ \A e \in S : <<e>> \in Seq(S)
  OBVIOUS
<1>4. /\ {"restart", "stop", "start15", "photo", "photo15"} \subseteq LoopSteps
      /\ LoopSteps \subseteq Steps
  BY DEF Steps, LoopSteps
<1>5. todo \in Seq(LoopSteps)
  BY <1>1, <1>2, <1>4
<1>6. todo \in Seq(Steps)
  BY <1>1, <1>2, <1>4
<1>3. <<"rest">> \in Seq(Steps) /\ <<"rest">> \in Seq(LoopSteps)
  BY DEF Steps, LoopSteps
<1>q. QED
  BY <1>1, <1>3, <1>5, <1>6, ConcatProperties

LEMMA ActStep ==
  ASSUME IInv, Act
  PROVE  IInv'
<1>0. /\ TypeOK /\ Plans /\ Scalars /\ "loop" \in Tasks /\ Controls
      /\ <<"check">> \in Seq(Steps) /\ <<"check">> \in Seq(LoopSteps)
  BY Parts, TaskNames DEF IInv, Steps, LoopSteps
<1>1. /\ UNCHANGED <<power, temp, changes, called, streamed, state, suspended, timer, faults>>
      /\ Runs("loop", "act") /\ seen' = FALSE
  BY DEF Act, world, Works
<1>2. throttled' \in BOOLEAN
  <2>1. Throttled \in BOOLEAN /\ throttled \in BOOLEAN
    <3>1. (temp # Cool) \in BOOLEAN /\ (temp \in {Warm, Hot}) \in BOOLEAN
      OBVIOUS
    <3>2. throttled \in BOOLEAN
      BY <1>0 DEF Scalars
    <3>3. CASE throttled
      BY <3>1, <3>2, <3>3 DEF Throttled
    <3>4. CASE ~throttled
      BY <3>1, <3>2, <3>4 DEF Throttled
    <3>q. QED
      BY <3>3, <3>4
  <2>2. throttled' = Throttled \/ throttled' = throttled
    BY DEF Act
  <2>q. QED
    BY <2>1, <2>2
<1>7. first' \in BOOLEAN
  <2>1. first' = TRUE \/ first' = first
    BY DEF Act
  <2>q. QED
    BY <1>0, <2>1 DEF Scalars
<1>3. PICK todo \in {Action, Unpowered} : todo = IF seen THEN Action ELSE Unpowered
  OBVIOUS
<1>4. Scalars'
  BY <1>0, <1>1, <1>2, <1>7 DEF Scalars
<1>5. CASE todo = <<>>
  <2>1. Yield("loop", <<"check">>)
    BY <1>3, <1>5 DEF Act
  <2>2. Moves("loop", <<"check">>) /\ Controls' /\ UNCHANGED controls
    BY <1>0, <2>1, Yields
  <2>3. Justified("loop", "act", <<"check">>)
    BY <1>1, <2>2 DEF Justified
  <2>q. QED
    BY <1>0, <1>1, <1>4, <2>2, <2>3, MethodStep
<1>6. CASE todo # <<>>
  <2>1. PICK b \in BOOLEAN : b = (todo \in {<<"start15">>, <<"photo15">>})
    <3>1. (todo \in {<<"start15">>, <<"photo15">>}) \in BOOLEAN
      OBVIOUS
    <3>q. QED
      BY <3>1, Zenon
  <2>2. /\ task["loop"] \in TaskRecord /\ task \in [Tasks -> TaskRecord]
        /\ todo \o <<"rest">> \in Seq(Steps) /\ todo \o <<"rest">> \in Seq(LoopSteps)
    BY <1>0, <1>3, ActTodo, Parts DEF TaskTypes
  <2>3. /\ task' = [task EXCEPT !["loop"] = [@ EXCEPT !.todo = todo \o <<"rest">>, !.was = b]]
        /\ turn' = "loop" /\ UNCHANGED controls
    BY <1>3, <1>6, <2>1, <2>2 DEF Act
  <2>4. [task["loop"] EXCEPT !.todo = todo \o <<"rest">>, !.was = b] \in TaskRecord
    BY <2>2 DEF TaskRecord
  <2>5. task'["loop"].todo = todo \o <<"rest">> /\ task'["loop"].wait = task["loop"].wait
    BY <1>0, <2>2, <2>3 DEF TaskRecord
  <2>6. task["loop"].wait # "error"
    BY <1>1 DEF Runs
  <2>7. Moves("loop", todo \o <<"rest">>)
    BY <1>0, <2>2, <2>3, <2>4, <2>5, <2>6 DEF Moves, TaskTypes
  <2>8. Controls' /\ Justified("loop", "act", todo \o <<"rest">>)
    BY <1>0, <1>1, <2>3 DEF Controls, controls, Justified
  <2>q. QED
    BY <1>0, <1>1, <1>4, <2>2, <2>3, <2>7, <2>8, MethodStep
<1>q. QED
  BY <1>5, <1>6

LEMMA RoundSteps ==
  ASSUME IInv, LoopStep
  PROVE  IInv'
<1>0. /\ TypeOK /\ Plans /\ Scalars /\ "loop" \in Tasks
      /\ <<"check">> \in Seq(Steps) /\ <<"check">> \in Seq(LoopSteps)
      /\ <<"look">> \in Seq(Steps) /\ <<"look">> \in Seq(LoopSteps)
  BY Parts, TaskNames DEF IInv, Steps, LoopSteps
<1>1. CASE Check
  <2>1. CASE Runs("loop", "check") /\ proc = "exited"
    <3>1. /\ StopVideo("loop", "stop", <<"look">>) /\ Works
          /\ UNCHANGED <<world, seen, first, called, streamed>>
      BY <1>1, <2>1 DEF Check, Runs
    <3>q. QED
      BY <1>0, <2>1, <3>1, StopVideoStep
  <2>2. CASE Runs("loop", "check") /\ proc # "exited"
    BY <1>1, <2>2, LookStep DEF Check, Runs
  <2>3. CASE Runs("loop", "look")
    BY <1>1, <2>3, LookStep DEF Check, Runs
  <2>q. QED
    BY <1>1, <2>1, <2>2, <2>3 DEF Check
<1>2. CASE Rested
  <2>1. /\ UNCHANGED <<power, temp, changes, seen, called, streamed, state, suspended, throttled, timer, faults>>
        /\ Runs("loop", "rest") /\ first' = TRUE /\ Yield("loop", <<"check">>)
    BY <1>2 DEF Rested, world, plugin, Works
  <2>2. Moves("loop", <<"check">>) /\ Controls' /\ UNCHANGED controls
    BY <1>0, <2>1, Yields
  <2>3. Scalars' /\ Justified("loop", "rest", <<"check">>)
    BY <1>0, <2>1, <2>2 DEF Scalars, Justified
  <2>q. QED
    BY <1>0, <2>1, <2>2, <2>3, MethodStep
<1>q. QED
  BY <1>1, <1>2, ActStep DEF LoopStep

\* A task begins: the timer's, or a caller's.
LEMMA BeginStep ==
  ASSUME IInv, NEW t \in Tasks \ {"loop"}, task[t].todo = <<>>, NEW todo \in Seq(Steps),
         task' = [task EXCEPT ![t].todo = todo], turn' = t, UNCHANGED controls, Scalars',
         Dry(t)' => todo \in Seq(LoopSteps), streamed => streamed',
         UNCHANGED <<faults, state>>, called \subseteq called', t \in Callers => t \in called'
  PROVE  IInv'
<1>0. TypeOK /\ Controls /\ task \in [Tasks -> TaskRecord]
  BY Parts DEF IInv, TaskTypes
<1>1. TaskTypes'
  BY <1>0 DEF TaskTypes, TaskRecord
<1>2. UNCHANGED <<queue, worker, proc, stray>>
  BY DEF controls
<1>3. Controls' /\ Serial' /\ (StartLast \/ Stays => (StartLast \/ Stays)')
  BY <1>0, <1>2 DEF IInv, Serial, Controls, StartLast, Stays, Dry, Streamless
<1>4. TypeOK'
  BY <1>1, <1>3, PartsNext
<1>5. /\ \A u \in Tasks \ {t} : task'[u] = task[u]
      /\ \A u \in Tasks : task'[u].wait = task[u].wait
  BY <1>0 DEF TaskRecord
<1>6. Plans'
  <2>1. task'[t].todo = todo
    BY <1>0 DEF TaskRecord
  <2>q. QED
    BY <1>5, <2>1, TaskNames DEF IInv, Plans, LoopSteps, Dry, Streamless
<1>7. Unharmed'
  BY <1>2, <1>5 DEF IInv, Unharmed
<1>8. Streaming => Streaming'
  BY <1>5 DEF Streaming
<1>9. Backed'
  BY <1>3, <1>8 DEF IInv, Backed
<1>q. QED
  BY <1>3, <1>4, <1>6, <1>7, <1>9 DEF IInv

LEMMA BeginSteps ==
  ASSUME IInv, TimerFires \/ \E t \in Callers : \E k \in Kinds[t] : Call(t, k)
  PROVE  IInv'
<1>0. TypeOK /\ Scalars
  BY Parts DEF IInv
<1>1. CASE TimerFires
  <2>1. /\ task' = [task EXCEPT !["timer"].todo = <<"unstream">>] /\ turn' = "timer"
        /\ task["timer"].todo = <<>> /\ UNCHANGED <<controls, faults, state, called, streamed>>
        /\ UNCHANGED <<power, temp, changes, seen, first, suspended, throttled>> /\ timer' = FALSE
    BY <1>1 DEF TimerFires, Program, Works, world
  <2>2. <<"unstream">> \in Seq(Steps) /\ <<"unstream">> \in Seq(LoopSteps)
    BY DEF Steps, LoopSteps
  <2>3. Scalars'
    BY <1>0, <2>1 DEF Scalars
  <2>q. QED
    BY <2>1, <2>2, <2>3, TaskNames, BeginStep
<1>2. ASSUME NEW t \in Callers, NEW k \in Kinds[t], Call(t, k) PROVE IInv'
  <2>1. k \in {"start", "stop", "pause", "photo", "clip", "convert", "stream", "unstream", "settings"}
    BY <1>2, KindsAssumption
  <2>2. Program[k] \in Seq(Steps) /\ (k # "stream" => Program[k] \in Seq(LoopSteps))
    <3>1. /\ \A e \in Steps : <<e>> \in Seq(Steps)
          /\ \A a, b, c, d, e \in Steps : <<a, b, c, d, e>> \in Seq(Steps)
          /\ \A a, b, c, d, e, f \in Steps : <<a, b, c, d, e, f>> \in Seq(Steps)
      OBVIOUS
    <3>6. /\ \A e \in LoopSteps : <<e>> \in Seq(LoopSteps)
          /\ \A a, b, c, d, e \in LoopSteps : <<a, b, c, d, e>> \in Seq(LoopSteps)
          /\ \A a, b, c, d, e, f \in LoopSteps : <<a, b, c, d, e, f>> \in Seq(LoopSteps)
      OBVIOUS
    <3>2. /\ {"start", "stop", "pause", "photo", "clip", "convert", "unstream", "restart",
              "suspend", "suspended", "continue", "continued"} \subseteq LoopSteps
          /\ LoopSteps \subseteq Steps /\ "stream" \in Steps
      BY DEF Steps, LoopSteps
    <3>3. CASE k \in {"photo", "convert"}
      <4>1. Program[k] = <<"suspend", "suspended", k, "continue", "continued">>
        BY <3>3 DEF Program
      <4>2. k \in LoopSteps /\ "suspend" \in LoopSteps /\ "suspended" \in LoopSteps
            /\ "continue" \in LoopSteps /\ "continued" \in LoopSteps
        BY <3>2, <3>3
      <4>q. QED
        BY <3>1, <3>2, <3>6, <4>1, <4>2
    <3>4. CASE k = "clip"
      <4>1. Program[k] = <<"suspend", "suspended", "clip", "convert", "continue", "continued">>
        BY <3>4 DEF Program
      <4>2. "clip" \in LoopSteps /\ "convert" \in LoopSteps /\ "suspend" \in LoopSteps
            /\ "suspended" \in LoopSteps /\ "continue" \in LoopSteps /\ "continued" \in LoopSteps
        BY <3>2
      <4>q. QED
        BY <3>1, <3>2, <3>6, <4>1, <4>2
    <3>5. CASE k \notin {"photo", "clip", "convert"}
      <4>1. Program[k] = <<IF k = "settings" THEN "restart" ELSE k>>
        BY <2>1, <3>5 DEF Program
      <4>q. QED
        BY <2>1, <3>1, <3>2, <3>5, <3>6, <4>1
    <3>q. QED
      BY <3>3, <3>4, <3>5
  <2>3. /\ task' = [task EXCEPT ![t].todo = Program[k]] /\ turn' = t
        /\ UNCHANGED <<controls, faults, state>> /\ called' = called \cup {t} /\ t \notin called
        /\ streamed' = (streamed \/ k = "stream")
        /\ UNCHANGED <<power, temp, changes, seen, first, suspended, throttled, timer>>
    BY <1>2 DEF Call, Works, world, plugin
  <2>5. Dry(t)' => k # "stream"
    BY <2>3, TaskNames DEF Dry, Streamless
  <2>4. task[t].todo = <<>> /\ Scalars'
    BY <1>0, <2>3 DEF IInv, Plans, Scalars
  <2>q. QED
    BY <2>2, <2>3, <2>4, <2>5, TaskNames, BeginStep
<1>q. QED
  BY <1>1, <1>2

\* wait_for gives up.
LEMMA GiveUpStep ==
  ASSUME IInv, GiveUp
  PROVE  IInv'
<1>0. /\ TypeOK /\ Plans /\ Scalars /\ Controls /\ "loop" \in Tasks /\ task \in [Tasks -> TaskRecord]
      /\ <<"rest">> \in Seq(Steps) /\ <<"rest">> \in Seq(LoopSteps)
  BY Parts, TaskNames DEF IInv, TaskTypes, Steps, LoopSteps
<1>1. /\ UNCHANGED <<power, temp, changes, seen, first, called, streamed, state, suspended, throttled, timer>>
      /\ UNCHANGED <<faults, proc, stray>> /\ turn = "none" /\ turn' = "none"
      /\ task' = [task EXCEPT !["loop"] = [Idle EXCEPT !.todo = <<"rest">>]]
      /\ worker' = IF worker.by = "loop" THEN [worker EXCEPT !.by = "none"] ELSE worker
      /\ queue' = [i \in DOMAIN queue |->
                     IF queue[i].by = "loop" THEN [queue[i] EXCEPT !.by = "none"] ELSE queue[i]]
  BY DEF GiveUp, Works, world, plugin
<1>2. Scalars'
  BY <1>0, <1>1 DEF Scalars
<1>3. worker' \in Workers /\ worker'.pc = worker.pc /\ worker'.op = worker.op
  BY <1>0, <1>1 DEF Controls, Workers
<1>4. Len(queue) \in Nat /\ DOMAIN queue = 1 .. Len(queue) /\ \A i \in DOMAIN queue : queue[i] \in Entries
  BY <1>0 DEF Controls
<1>5. \A i \in DOMAIN queue : queue'[i] \in Entries /\ queue'[i].op = queue[i].op
  BY <1>1, <1>4 DEF Entries
<1>6. DOMAIN queue' = DOMAIN queue /\ queue' \in [1 .. Len(queue) -> Entries]
  BY <1>1, <1>4, <1>5
<1>7. queue' \in Seq(Entries)
  BY <1>4, <1>6, SeqDef
<1>8. worker'.pc = "idle" => queue' = <<>>
  <2>1. SUFFICES ASSUME worker'.pc = "idle" PROVE queue' = <<>>
    OBVIOUS
  <2>2. queue = <<>>
    BY <1>0, <1>3, <2>1 DEF Controls
  <2>3. Len(queue') = 0
    BY <1>6, <1>7, <2>2
  <2>q. QED
    BY <1>7, <2>3, EmptySeq
<1>9. Controls'
  BY <1>0, <1>1, <1>3, <1>7, <1>8 DEF Controls
<1>10. [Idle EXCEPT !.todo = <<"rest">>] \in TaskRecord
  BY <1>0, IdleRecord
<1>11. [Idle EXCEPT !.todo = <<"rest">>].todo = <<"rest">> /\ [Idle EXCEPT !.todo = <<"rest">>].wait = "no"
  BY DEF Idle
<1>12. TaskTypes'
  BY <1>0, <1>1, <1>10 DEF TaskTypes
<1>13. /\ \A u \in Tasks \ {"loop"} : task'[u] = task[u]
       /\ task'["loop"].todo = <<"rest">> /\ task'["loop"].wait = "no"
  BY <1>0, <1>1, <1>11
<1>14. Serial' /\ (StartLast \/ Stays => (StartLast \/ Stays)')
  BY <1>1, <1>3, <1>5, <1>6 DEF IInv, Serial, StartLast, Stays, Dry, Streamless
<1>15. Plans'
  BY <1>0, <1>1, <1>13, TaskNames DEF Plans, LoopSteps, Dry, Streamless
<1>16. Unharmed'
  BY <1>1, <1>3, <1>13 DEF IInv, Unharmed
<1>17. Streaming => Streaming'
  BY <1>13 DEF Streaming
<1>18. Backed'
  BY <1>1, <1>14, <1>17 DEF IInv, Backed
<1>q. QED
  BY <1>2, <1>9, <1>12, <1>14, <1>15, <1>16, <1>18, PartsNext DEF IInv

-----------------------------------------------------------------------------
(* The worker                                                                 *)

LEMMA Answered ==
  ASSUME TypeOK, NEW by \in Tasks \cup {"none"}, NEW result \in {"ok", "error"}, Answer(by, result)
  PROVE  /\ TaskTypes' /\ worker' \in Workers /\ worker'.pc \in {"take", "dead"} /\ worker'.op = "none"
         /\ \A u \in Tasks :
              /\ task'[u].todo = task[u].todo
              /\ task'[u].wait = "error" => task[u].wait = "error" \/ result = "error"
<1>0. task \in [Tasks -> TaskRecord] /\ turn \in Tasks \cup {"worker", "none"}
  BY Parts DEF TaskTypes
<1>1. CASE by = "none"
  BY <1>0, <1>1 DEF Answer, TaskTypes, Workers
<1>2. CASE by # "none"
  <2>1. /\ worker' = [pc |-> "take", op |-> "none", by |-> "none"] /\ turn' = "worker"
        /\ task' = [task EXCEPT ![by] = Resolved(by, result)]
    BY <1>2 DEF Answer
  <2>4. task[by] \in TaskRecord
    BY <1>0, <1>2
  <2>5. /\ Resolved(by, result) \in TaskRecord /\ Resolved(by, result).todo = task[by].todo
        /\ Resolved(by, result).wait \in {"no", result}
    <3>1. CASE result = "ok" /\ task[by].todo = <<>>
      BY <3>1, IdleRecord DEF Resolved, Idle
    <3>2. CASE ~(result = "ok" /\ task[by].todo = <<>>)
      <4>1. Resolved(by, result) = [task[by] EXCEPT !.wait = result]
        BY <3>2 DEF Resolved
      <4>q. QED
        BY <2>4, <4>1 DEF TaskRecord
    <3>q. QED
      BY <3>1, <3>2
  <2>2. TaskTypes'
    BY <1>0, <1>2, <2>1, <2>5 DEF TaskTypes
  <2>3. /\ \A u \in Tasks \ {by} : task'[u] = task[u]
        /\ task'[by].todo = task[by].todo /\ task'[by].wait \in {"no", result}
    BY <1>0, <1>2, <2>1, <2>5
  <2>q. QED
    BY <2>1, <2>2, <2>3 DEF Workers
<1>q. QED
  BY <1>1, <1>2

\* Taking an entry out of the queue.
LEMMA TailFacts ==
  ASSUME Controls, queue # <<>>, queue' = Tail(queue)
  PROVE  /\ Head(queue) \in Entries /\ queue' \in Seq(Entries)
         /\ \A o : (\A i \in DOMAIN queue : queue[i].op # o) =>
                  Head(queue).op # o /\ \A i \in DOMAIN queue' : queue'[i].op # o
         /\ Head(queue).op = "stop" => ~Stays
         /\ Stays => \A i \in DOMAIN queue' : queue'[i].op # "stop"
         /\ StartLast => \/ StartLast'
                         \/ /\ Head(queue).op \in {"start_file", "start_stream"}
                            /\ \A i \in DOMAIN queue' : queue'[i].op # "stop"
<1>1. /\ Len(queue) \in Nat \ {0} /\ DOMAIN queue = 1 .. Len(queue) /\ Head(queue) = queue[1]
      /\ DOMAIN queue' = 1 .. Len(queue) - 1 /\ queue' \in Seq(Entries)
      /\ \A i \in 1 .. Len(queue) - 1 : queue'[i] = queue[i + 1]
      /\ Head(queue) \in Entries
  BY DEF Controls
<1>5. \A o : (\A i \in DOMAIN queue : queue[i].op # o) =>
            Head(queue).op # o /\ \A i \in DOMAIN queue' : queue'[i].op # o
  BY <1>1
<1>2. Head(queue).op = "stop" => ~Stays
  BY <1>1 DEF Stays
<1>3. ASSUME Stays PROVE \A i \in DOMAIN queue' : queue'[i].op # "stop"
  BY <1>1, <1>3 DEF Stays
<1>4. ASSUME StartLast, ~StartLast'
      PROVE  /\ Head(queue).op \in {"start_file", "start_stream"}
             /\ \A i \in DOMAIN queue' : queue'[i].op # "stop"
  <2>1. PICK i \in DOMAIN queue :
          /\ queue[i].op \in {"start_file", "start_stream"}
          /\ \A j \in DOMAIN queue : j > i => queue[j].op # "stop"
    BY <1>4 DEF StartLast
  <2>2. CASE i > 1
    <3>1. i - 1 \in DOMAIN queue' /\ queue'[i - 1] = queue[i]
      BY <1>1, <2>1, <2>2
    <3>2. \A j \in DOMAIN queue' : j > i - 1 => queue'[j].op # "stop"
      BY <1>1, <2>1, <2>2
    <3>q. QED
      BY <1>4, <2>1, <3>1, <3>2 DEF StartLast
  <2>3. CASE i = 1
    BY <1>1, <2>1, <2>3
  <2>q. QED
    BY <1>1, <2>1, <2>2, <2>3
<1>q. QED
  BY <1>1, <1>2, <1>3, <1>4, <1>5

LEMMA TakeNextStep ==
  ASSUME IInv, TakeNext
  PROVE  IInv'
<1>0. /\ TypeOK /\ Scalars /\ Controls /\ task \in [Tasks -> TaskRecord]
      /\ turn \in Tasks \cup {"worker", "none"}
  BY Parts DEF IInv, TaskTypes
<1>1. /\ UNCHANGED <<power, temp, changes, seen, first, called, streamed, state, suspended, throttled, timer>>
      /\ UNCHANGED <<faults, stray>>
      /\ worker.pc = "take" /\ queue # <<>> /\ queue' = Tail(queue)
  BY DEF TakeNext, Works, world, plugin
<1>2. Scalars'
  BY <1>0, <1>1 DEF Scalars
<1>3. PICK entry \in Entries : entry = Head(queue)
  BY <1>0, <1>1, TailFacts
<1>9. Streamless => /\ entry.op # "start_stream" /\ proc # "stream"
                    /\ \A i \in DOMAIN queue' : queue'[i].op # "start_stream"
  BY <1>0, <1>1, <1>3, TailFacts DEF IInv, Serial
<1>4. /\ queue' \in Seq(Entries)
      /\ entry.op = "stop" => ~Stays
      /\ Stays => \A i \in DOMAIN queue' : queue'[i].op # "stop"
      /\ StartLast => \/ StartLast'
                      \/ /\ entry.op \in {"start_file", "start_stream"}
                         /\ \A i \in DOMAIN queue' : queue'[i].op # "stop"
  BY <1>0, <1>1, <1>3, TailFacts
<1>5. /\ entry.op \in Operations /\ entry.by \in Tasks \cup {"none"}
      /\ proc \in {"none", "file", "stream", "exited"}
  BY <1>0, <1>3 DEF Entries, Controls
<1>6. \/ Refused(entry.op) /\ Answer(entry.by, "ok") /\ UNCHANGED proc
      \/ /\ entry.op = "stop" /\ proc \in {"none", "exited"}
         /\ Answer(entry.by, "ok") /\ proc' = "none"
      \/ entry.op = "stop" /\ proc \in {"file", "stream"} /\ Begin("term", entry) /\ UNCHANGED proc
      \/ entry.op # "stop" /\ proc = "none" /\ Begin("run", entry) /\ UNCHANGED proc
  BY <1>3, <1>5 DEF TakeNext, Refused, IsRecording
<1>7. CASE Answer(entry.by, "ok")
  <2>1. /\ TaskTypes' /\ worker' \in Workers /\ worker'.pc \in {"take", "dead"} /\ worker'.op = "none"
        /\ \A u \in Tasks : /\ task'[u].todo = task[u].todo
                            /\ task'[u].wait = "error" => task[u].wait = "error"
    BY <1>0, <1>5, <1>7, Answered
  <2>2. \/ proc # "none" /\ UNCHANGED proc
        \/ entry.op = "stop" /\ proc' = "none"
    BY <1>1, <1>6, <2>1 DEF Refused, IsRecording, Begin
  <2>3. Controls' /\ Serial'
    BY <1>0, <1>1, <1>4, <1>9, <2>1, <2>2 DEF Controls, Serial, Dry, Streamless
  <2>4. StartLast \/ Stays => (StartLast \/ Stays)'
    BY <1>4, <2>1, <2>2 DEF Stays
  <2>5. TypeOK'
    BY <1>2, <2>1, <2>3, PartsNext
  <2>6. faults = MaxFaults => ~stray' /\ proc' # "exited" /\ worker'.pc # "kill"
    BY <1>1, <2>1, <2>2 DEF IInv, Unharmed
  <2>q. QED
    BY <1>1, <2>1, <2>3, <2>4, <2>5, <2>6, WorkStep
<1>8. CASE \E pc \in {"term", "run"} :
             /\ Begin(pc, entry) /\ UNCHANGED proc
             /\ pc = "term" => entry.op = "stop"
             /\ pc = "run" => entry.op # "stop" /\ proc = "none"
  <2>1. PICK pc \in {"term", "run"} :
             /\ Begin(pc, entry) /\ UNCHANGED proc
             /\ pc = "term" => entry.op = "stop"
             /\ pc = "run" => entry.op # "stop" /\ proc = "none"
    BY <1>8
  <2>2. /\ worker' = [pc |-> pc, op |-> entry.op, by |-> entry.by]
        /\ UNCHANGED task /\ turn' = "none"
    BY <2>1 DEF Begin
  <2>3. worker' \in Workers /\ worker'.pc = pc /\ worker'.op = entry.op
    BY <1>5, <2>2 DEF Workers
  <2>4. Controls' /\ Serial' /\ TaskTypes'
    BY <1>0, <1>1, <1>4, <1>9, <2>1, <2>2, <2>3 DEF Controls, Serial, TaskTypes, Dry, Streamless
  <2>5. StartLast \/ Stays => (StartLast \/ Stays)'
    BY <1>1, <1>4, <2>1, <2>3 DEF Stays
  <2>6. TypeOK'
    BY <1>2, <2>4, PartsNext
  <2>7. faults = MaxFaults => ~stray' /\ proc' # "exited" /\ worker'.pc # "kill"
    BY <1>1, <2>1, <2>3 DEF IInv, Unharmed
  <2>q. QED
    BY <1>1, <2>2, <2>4, <2>5, <2>6, <2>7, WorkStep
<1>q. QED
  BY <1>6, <1>7, <1>8

LEMMA LeaveStep ==
  ASSUME IInv, Leave
  PROVE  IInv'
<1>0. /\ TypeOK /\ Scalars /\ Controls /\ task \in [Tasks -> TaskRecord]
  BY Parts DEF IInv, TaskTypes
<1>1. /\ UNCHANGED <<power, temp, changes, seen, first, called, streamed, state, suspended, throttled, timer>>
      /\ UNCHANGED <<faults, queue, proc, stray, task>> /\ turn' = "none"
      /\ queue = <<>> /\ worker' = [worker EXCEPT !.pc = "idle"]
  BY DEF Leave, Left, Works, world, plugin
<1>2. worker' \in Workers /\ worker'.pc = "idle" /\ worker.pc = "take" /\ worker'.op = worker.op
  BY <1>0, <1>1 DEF Controls, Workers, Leave
<1>3. Scalars' /\ TaskTypes' /\ Controls' /\ Serial'
  BY <1>0, <1>1, <1>2 DEF Scalars, TaskTypes, Controls, Serial, IInv, Dry, Streamless
<1>4. TypeOK'
  BY <1>3, PartsNext
<1>5. StartLast \/ Stays => (StartLast \/ Stays)'
  BY <1>1, <1>2 DEF StartLast, Stays
<1>q. QED
  BY <1>1, <1>2, <1>3, <1>4, <1>5, WorkStep DEF IInv, Unharmed

\* An operation ends, after which the worker goes on.
LEMMA EndStep ==
  ASSUME IInv, worker.pc \in {"run", "term", "kill"}, turn = "none",
         NEW result \in {"ok", "error"}, Answer(worker.by, result),
         Works \/ Fails, result = "error" => Fails \/ worker.pc = "kill",
         UNCHANGED <<world, seen, first, called, streamed, plugin, queue>>,
         stray' \in BOOLEAN, proc' \in {"none", "file", "stream", "exited"},
         proc' = "stream" => proc = "stream" \/ worker.op = "start_stream",
         Works /\ worker.pc # "kill" =>
           /\ UNCHANGED stray
           /\ worker.pc = "term" => proc' = "none"
           /\ worker.pc = "run" =>
                IF worker.op \in {"start_file", "start_stream"}
                THEN proc' \in {"file", "stream"} ELSE proc' = "none"
  PROVE  IInv'
<1>0. /\ TypeOK /\ Scalars /\ Controls /\ task \in [Tasks -> TaskRecord]
      /\ worker.by \in Tasks \cup {"none"}
  BY Parts DEF IInv, TaskTypes, Controls, Workers
<1>1. UNCHANGED <<power, temp, changes, seen, first, called, streamed, state, suspended, throttled, timer, queue>>
  BY DEF world, plugin
<1>2. faults' \in 0 .. MaxFaults
  BY <1>0, BoundsAssumption DEF Works, Fails, Scalars
<1>3. /\ TaskTypes' /\ worker' \in Workers /\ worker'.pc \in {"take", "dead"} /\ worker'.op = "none"
      /\ \A u \in Tasks : /\ task'[u].todo = task[u].todo
                          /\ task'[u].wait = "error" => task[u].wait = "error" \/ result = "error"
  BY <1>0, Answered
<1>4. Scalars' /\ Controls' /\ Serial'
  BY <1>0, <1>1, <1>2, <1>3 DEF Scalars, Controls, Serial, IInv, Dry, Streamless
<1>5. TypeOK'
  BY <1>3, <1>4, PartsNext
<1>6. Plans'
  BY <1>1, <1>3, TaskNames DEF IInv, Plans, Dry, Streamless
<1>7. CASE Fails
  BY <1>4, <1>5, <1>6, <1>7, FaultStep
<1>8. CASE Works /\ faults # MaxFaults
  BY <1>4, <1>5, <1>6, <1>8 DEF IInv, Unharmed, Backed, Works
<1>9. CASE Works /\ faults = MaxFaults
  <2>0. worker.pc # "kill" /\ UNCHANGED <<stray, faults>>
    BY <1>9 DEF IInv, Unharmed, Works
  <2>1. result = "ok"
    BY <1>9, <2>0, BoundsAssumption, <1>0 DEF Works, Fails, Scalars
  <2>2. ~stray' /\ proc' # "exited"
    BY <1>9, <2>0 DEF IInv, Unharmed
  <2>3. StartLast => StartLast'
    BY <1>1 DEF StartLast
  <2>4. Stays => Stays'
    <3>1. SUFFICES ASSUME Stays PROVE Stays'
      OBVIOUS
    <3>2. \A i \in DOMAIN queue' : queue'[i].op # "stop"
      BY <1>1, <3>1 DEF Stays
    <3>3. worker.pc = "run" /\ worker.op \in {"start_file", "start_stream"}
      BY <2>0, <3>1 DEF Stays, IInv, Serial
    <3>4. proc' \in {"file", "stream"}
      BY <1>9, <2>0, <3>3
    <3>q. QED
      BY <1>3, <3>2, <3>4 DEF Stays
  <2>q. QED
    BY <1>1, <1>3, <1>4, <1>5, <2>0, <2>1, <2>2, <2>3, <2>4, WorkStep
<1>q. QED
  BY <1>7, <1>8, <1>9

LEMMA EndSteps ==
  ASSUME IInv, \/ Terminated \/ (\E m \in {"file", "stream"} : Started(m))
               \/ (\E op \in {"photo", "clip"} : Taken(op))
  PROVE  IInv'
<1>0. /\ TypeOK /\ Scalars /\ Controls /\ TaskTypes /\ stray \in BOOLEAN
      /\ proc \in {"none", "file", "stream", "exited"} /\ Serial
  BY Parts DEF IInv, Controls
<1>1. ASSUME NEW m \in {"file", "stream"}, Started(m) PROVE IInv'
  <2>1. /\ turn = "none" /\ worker.pc = "run" /\ worker.op = (IF m = "file" THEN "start_file" ELSE "start_stream")
        /\ UNCHANGED <<world, seen, first, called, streamed, plugin, queue, stray>>
        /\ \/ Works /\ proc' = m /\ Answer(worker.by, "ok")
           \/ Fails /\ UNCHANGED proc /\ Answer(worker.by, "error")
    BY <1>1 DEF Started, Running, Longer
  <2>2. CASE Works /\ proc' = m /\ Answer(worker.by, "ok")
    BY <1>0, <2>1, <2>2, EndStep
  <2>3. CASE Fails /\ UNCHANGED proc /\ Answer(worker.by, "error")
    <3>1. ~Works
      BY <1>0, <2>3, BoundsAssumption DEF Works, Fails, Scalars
    <3>q. QED
      BY <1>0, <2>1, <2>3, <3>1, EndStep
  <2>q. QED
    BY <2>1, <2>2, <2>3
<1>2. ASSUME NEW op \in {"photo", "clip"}, Taken(op) PROVE IInv'
  <2>1. /\ turn = "none" /\ worker.pc = "run" /\ worker.op = op /\ proc' = "none"
        /\ UNCHANGED <<world, seen, first, called, streamed, plugin, queue>>
        /\ \/ Works /\ Answer(worker.by, "ok") /\ UNCHANGED stray
           \/ \E result \in {"ok", "error"} :
                Fails /\ Answer(worker.by, result) /\ stray' \in {stray, TRUE}
    BY <1>0, <1>2 DEF Taken, Running, Longer, Serial
  <2>2. CASE Works /\ Answer(worker.by, "ok") /\ UNCHANGED stray
    BY <1>0, <2>1, <2>2, EndStep
  <2>3. CASE \E result \in {"ok", "error"} :
                Fails /\ Answer(worker.by, result) /\ stray' \in {stray, TRUE}
    <3>1. PICK result \in {"ok", "error"} :
                Fails /\ Answer(worker.by, result) /\ stray' \in {stray, TRUE}
      BY <2>3
    <3>2. stray' \in BOOLEAN
      BY <1>0, <3>1
    <3>3. ~Works
      BY <1>0, <3>1, BoundsAssumption DEF Works, Fails, Scalars
    <3>q. QED
      BY <1>0, <2>1, <3>1, <3>2, <3>3, EndStep
  <2>q. QED
    BY <2>1, <2>2, <2>3
<1>3. ASSUME Terminated PROVE IInv'
  <2>1. turn = "none" /\ UNCHANGED <<world, seen, first, called, streamed, plugin, queue>>
    BY <1>3 DEF Terminated, Longer
  <2>2. CASE /\ worker.pc = "term" /\ Works
             /\ proc' = "none" /\ Answer(worker.by, "ok") /\ UNCHANGED stray
    BY <1>0, <2>1, <2>2, EndStep
  <2>3. CASE /\ worker.pc = "term" /\ Fails
             /\ worker' = [worker EXCEPT !.pc = "kill"] /\ UNCHANGED <<proc, stray, task, turn>>
    <3>1. worker' \in Workers /\ worker'.pc = "kill"
      BY <1>0, <2>3 DEF Controls, Workers
    <3>2. faults' \in 0 .. MaxFaults
      BY <1>0, <2>3, BoundsAssumption DEF Fails, Scalars
    <3>3. UNCHANGED <<power, temp, changes, state, suspended, throttled, timer>>
      BY <2>1 DEF world, plugin
    <3>4. Scalars' /\ Controls' /\ TaskTypes' /\ Serial'
      BY <1>0, <2>1, <2>3, <3>1, <3>2, <3>3 DEF Scalars, Controls, TaskTypes, Serial, Dry, Streamless
    <3>5. TypeOK' /\ Plans'
      BY <2>1, <2>3, <3>4, PartsNext DEF IInv, Plans, Dry, Streamless
    <3>q. QED
      BY <2>3, <3>4, <3>5, FaultStep
  <2>4. CASE /\ worker.pc = "kill" /\ Works
             /\ proc' = "none" /\ stray' \in {stray, TRUE}
             /\ \E result \in {"ok", "error"} : Answer(worker.by, result)
    <3>1. PICK result \in {"ok", "error"} : Answer(worker.by, result)
      BY <2>4
    <3>2. stray' \in BOOLEAN
      BY <1>0, <2>4
    <3>q. QED
      BY <1>0, <2>1, <2>4, <3>1, <3>2, EndStep
  <2>q. QED
    BY <1>3, <2>2, <2>3, <2>4 DEF Terminated
<1>q. QED
  BY <1>1, <1>2, <1>3

-----------------------------------------------------------------------------
(* Around the plugin                                                          *)

LEMMA WorldSteps ==
  ASSUME IInv, ProcessExits \/ StrayEnds \/ Change
  PROVE  IInv'
<1>0. /\ TypeOK /\ Scalars /\ Controls /\ TaskTypes /\ stray \in BOOLEAN /\ worker \in Workers
      /\ proc \in {"none", "file", "stream", "exited"} /\ Serial
  BY Parts DEF IInv, Controls
<1>1. /\ UNCHANGED <<seen, first, called, streamed, state, suspended, throttled, timer>>
      /\ UNCHANGED <<queue, worker, task, turn>>
  BY DEF ProcessExits, StrayEnds, Change, plugin, controls
<1>2. TaskTypes' /\ Plans'
  BY <1>0, <1>1 DEF TaskTypes, Plans, IInv, Dry, Streamless
<1>3. CASE ProcessExits
  <2>1. /\ UNCHANGED <<power, temp, changes>> /\ proc \in {"file", "stream"} /\ proc' = "exited"
        /\ UNCHANGED stray /\ (Fails \/ (stray /\ Works))
    BY <1>3 DEF ProcessExits, world
  <2>2. faults' \in 0 .. MaxFaults
    BY <1>0, <2>1, BoundsAssumption DEF Fails, Works, Scalars
  <2>3. Scalars' /\ Controls' /\ Serial'
    BY <1>0, <1>1, <2>1, <2>2 DEF Scalars, Controls, Serial, Dry, Streamless
  <2>4. TypeOK'
    BY <1>2, <2>3, PartsNext
  <2>5. CASE Fails
    BY <1>2, <2>3, <2>4, <2>5, FaultStep
  <2>6. CASE stray /\ Works
    BY <1>2, <2>3, <2>4, <2>6 DEF IInv, Unharmed, Backed, Works
  <2>q. QED
    BY <2>1, <2>5, <2>6
<1>4. CASE StrayEnds \/ Change
  <2>1. /\ UNCHANGED <<faults, proc>> /\ stray' \in {stray, FALSE}
    BY <1>4 DEF StrayEnds, Change, Works, controls
  <2>2. power' \in BOOLEAN /\ temp' \in 0 .. 3 /\ changes' \in 0 .. MaxChanges
    <3>0. power \in BOOLEAN /\ temp \in 0 .. 3 /\ changes \in 0 .. MaxChanges
      BY <1>0 DEF Scalars
    <3>1. CASE StrayEnds
      BY <3>0, <3>1 DEF StrayEnds, world
    <3>2. CASE Change
      <4>1. changes > 0 /\ changes' = changes - 1 /\ (temp' \in Bands \/ temp' = temp)
        BY <3>2 DEF Change
      <4>2. power' \in BOOLEAN
        BY <3>0, <3>2 DEF Change
      <4>3. temp' \in 0 .. 3
        BY <3>0, <4>1, BoundsAssumption
      <4>4. changes' \in 0 .. MaxChanges
        BY <3>0, <4>1, BoundsAssumption
      <4>q. QED
        BY <4>2, <4>3, <4>4
    <3>q. QED
      BY <1>4, <3>1, <3>2
  <2>8. Serial'
    BY <1>0, <1>1, <2>1 DEF Serial, Dry, Streamless
  <2>10. Scalars'
    BY <1>0, <1>1, <2>1, <2>2 DEF Scalars
  <2>9. Controls'
    <3>1. stray' \in BOOLEAN
      BY <1>0, <2>1
    <3>q. QED
      BY <1>0, <1>1, <2>1, <3>1 DEF Controls
  <2>3. Scalars' /\ Controls' /\ Serial'
    BY <2>8, <2>9, <2>10
  <2>4. TypeOK'
    BY <1>2, <2>3, PartsNext
  <2>5. StartLast \/ Stays => (StartLast \/ Stays)'
    BY <1>1, <2>1 DEF StartLast, Stays
  <2>6. faults = MaxFaults => ~stray' /\ proc' # "exited" /\ worker'.pc # "kill"
    BY <1>1, <2>1 DEF IInv, Unharmed
  <2>7. \A u \in Tasks : task'[u] = task[u]
    BY <1>1
  <2>q. QED
    BY <1>1, <2>1, <2>3, <2>4, <2>5, <2>6, <2>7, WorkStep
<1>q. QED
  BY <1>3, <1>4

-----------------------------------------------------------------------------
(* The theorems                                                               *)

LEMMA InitIInv == Init => IInv
<1> SUFFICES ASSUME Init PROVE IInv
  OBVIOUS
<1>1. <<"check">> \in Seq(Steps) /\ <<"check">> \in Seq(LoopSteps) /\ \A S : <<>> \in Seq(S)
  BY DEF Steps, LoopSteps
<1>2. Idle \in TaskRecord /\ [Idle EXCEPT !.todo = <<"check">>] \in TaskRecord
  BY <1>1, IdleRecord
<1>3. /\ Idle.todo = <<>> /\ Idle.wait = "no"
      /\ [Idle EXCEPT !.todo = <<"check">>].todo = <<"check">>
      /\ [Idle EXCEPT !.todo = <<"check">>].wait = "no"
  BY DEF Idle
<1>4. task = [t \in Tasks |-> IF t = "loop" THEN [Idle EXCEPT !.todo = <<"check">>] ELSE Idle]
  BY DEF Init
<1>5. TaskTypes
  BY <1>2, <1>4 DEF TaskTypes, Init
<1>6. Scalars
  <2>1. power \in BOOLEAN
    BY DEF Init
  <2>2. temp \in 0 .. 3 /\ changes \in 0 .. MaxChanges /\ faults \in 0 .. MaxFaults
    BY BoundsAssumption DEF Init, Cool
  <2>q. QED
    BY <2>1, <2>2 DEF Init, Scalars
<1>9. Controls
  <2>1. worker = [pc |-> "idle", op |-> "none", by |-> "none"]
    BY DEF Init
  <2>2. worker \in Workers
    BY <2>1 DEF Workers
  <2>q. QED
    BY <1>1, <2>2 DEF Init, Controls
<1>7. Plans
  BY <1>1, <1>3, <1>4, TaskNames DEF Plans, LoopSteps
<1>8. Unharmed
  BY <1>3, <1>4 DEF Init, Unharmed
<1>q. QED
  BY <1>5, <1>6, <1>7, <1>8, <1>9, Parts DEF IInv, Init, Serial, Backed

LEMMA NextIInv == IInv /\ [Next]_vars => IInv'
<1> SUFFICES ASSUME IInv, [Next]_vars PROVE IInv'
  OBVIOUS
<1>1. ASSUME NEW t \in Tasks, PluginStep(t) PROVE IInv'
  BY <1>1, StartSteps, StopSteps, SuspendStep, ResumeSteps, TakeSteps, ConvertedStep, StreamSteps,
     UnstreamSteps, RaiseStep DEF PluginStep
<1>2. CASE WorkerStep
  BY <1>2, TakeNextStep, LeaveStep, EndSteps DEF WorkerStep
<1>3. CASE UNCHANGED vars
  <2>1. /\ UNCHANGED <<power, temp, changes, faults, seen, state, suspended, first, throttled, timer>>
        /\ UNCHANGED <<queue, worker, proc, stray, task, called, streamed, turn>>
    BY <1>3 DEF vars
  <2>2. Scalars' /\ Controls' /\ TaskTypes'
    BY <2>1, Parts DEF IInv, Scalars, Controls, TaskTypes
  <2>3. TypeOK' /\ Serial' /\ Plans' /\ Unharmed'
    BY <2>1, <2>2, PartsNext DEF IInv, Serial, Plans, Unharmed, Dry, Streamless
  <2>4. Backed'
    BY <2>1 DEF IInv, Backed, Streaming, StartLast, Stays
  <2>q. QED
    BY <2>3, <2>4 DEF IInv
<1>q. QED
  BY <1>1, <1>2, <1>3, RoundSteps, GiveUpStep, BeginSteps, WorldSteps DEF Next

LEMMA Invariant == Spec => []IInv
  BY InitIInv, NextIInv, PTL DEF Spec

\* The types, for any number of calls, changes and faults.
THEOREM Types == Spec => []TypeOK
<1>1. IInv => TypeOK
  BY DEF IInv
<1>q. QED
  BY <1>1, Invariant, PTL

\* While a photo or a clip is taken no recorder runs: the worker refuses every
\* operation but a stop while a process is there, and starts none meanwhile.
THEOREM CameraIsAlone == Spec => []OneCamera
<1>1. IInv => OneCamera
  BY DEF IInv, Serial, OneCamera
<1>q. QED
  BY <1>1, Invariant, PTL

\* Until somebody streams or something fails, the state that says recording has its
\* recorder, which runs, as soon as the tasks and the queue are at rest: every stop
\* that still came into the queue behind a start was one after which the state is
\* changed or a start follows.
THEOREM RecordsWhenItSaysSo == Spec => []StateHasRecorder
<1>1. ASSUME ~streamed, IInv, Quiet, faults = MaxFaults, state = "record" PROVE proc = "file"
  <2>1. queue = <<>> /\ worker.pc = "idle"
    BY <1>1 DEF IInv, TypeOK, Quiet
  <2>2. ~Streaming
    BY <1>1 DEF Quiet, Streaming
  <2>3. ~StartLast
    BY <2>1 DEF StartLast
  <2>4. Stays
    BY <1>1, <2>2, <2>3 DEF IInv, Backed
  <2>5. proc # "none"
    BY <2>1, <2>4 DEF Stays
  <2>6. proc # "stream" /\ proc # "exited"
    BY <1>1 DEF IInv, Serial, Unharmed, Streamless
  <2>q. QED
    BY <1>1, <2>5, <2>6 DEF IInv, TypeOK
<1>2. IInv => StateHasRecorder
  BY <1>1 DEF StateHasRecorder
<1>q. QED
  BY <1>2, Invariant, PTL

=============================================================================
