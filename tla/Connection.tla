----------------------------- MODULE Connection -----------------------------
(* The client side of the event bus in one service process: the reconnecting  *)
(* Connection of sdk/socket/client.py as MuxConnection drives it              *)
(* (sdk/socket/mux_connection.py).                                            *)
(*                                                                            *)
(* connect() opens a link, starts a reader and a writer coroutine for it and  *)
(* queues the init and the subscription. Either coroutine, or the service     *)
(* that stops, may find that the link is over and run disconnect(). All of    *)
(* them share self.writer, self.write_queue and self._stop_event, which each  *)
(* connect() replaces: a coroutine that is resumed late acts on the next      *)
(* link. An action is what a coroutine does between two awaits. Links are     *)
(* numbered by the call of connect() that made them, and so are the queue and *)
(* the two coroutines of that call.                                           *)
EXTENDS Naturals, Sequences

CONSTANTS
  Msg,        \* messages the plugins send with send_data
  MaxLinks    \* bound on the calls of connect()

ASSUME MaxLinksAssumption == MaxLinks \in Nat \ {0}

ASSUME MsgAssumption == Msg \cap {"init", "subscribe", "exit"} = {}

VARIABLES
  stopped,    \* _stop_event.is_set()
  up,         \* self.writer is not None
  gen,        \* the call of connect() whose queue is self.write_queue
  opening,    \* what connect() is doing
  link,       \* [Gen -> state of the socket]
  queue,      \* [Gen -> write queue]
  wire,       \* [Gen -> what was written to the socket]
  reader,     \* [Gen -> read_from_socket: where it is, on which link]
  writer,     \* [Gen -> write_to_socket: where it is, on which queue]
  stopping,   \* the disconnect(reconnect=False) of a service that stops
  sentOn      \* [Msg -> the link it was sent on; 0 before, and when dropped]

vars == <<stopped, up, gen, opening, link, queue, wire, reader, writer,
          stopping, sentOn>>

-----------------------------------------------------------------------------
Gen == 1 .. MaxLinks

At(pc, g) == [at |-> pc, on |-> g]

\* is_connected().
Connected == ~stopped /\ up

\* The socket is closed: streams at their end, waiters of drain() resumed.
Over(g) == link[g] = "closed"

\* Coroutines the event loop has resumed, or is about to. The ready queue of
\* asyncio is served in order and open_unix_connection takes two rounds of it,
\* so these run before a link that is being opened is there.
ReaderRunnable(g) ==
  \/ reader[g].at = "ready"
  \/ reader[g].at = "read" /\ Over(reader[g].on)

WriterRunnable(g) ==
  \/ writer[g].at = "ready"
  \/ writer[g].at = "get" /\ queue[writer[g].on] # <<>>
  \/ writer[g].at = "drain" /\ Over(writer[g].on)

Runnable == \E g \in Gen : ReaderRunnable(g) \/ WriterRunnable(g)

-----------------------------------------------------------------------------
(* connect()                                                                  *)

\* Its caller is the coroutine that lost the link; it ends with connect().
Returned(f) == [g \in Gen |-> IF f[g].at = "connect" THEN At("done", 0) ELSE f[g]]

\* Mutant: the stop event is not replaced.
Reconnect_Stopped ==
  /\ gen' = gen + 1
  /\ stopped' = TRUE
  /\ opening' = "no"

\* The first lines of connect(), when a disconnect falls into it: a new event,
\* new queues, and the await of open_unix_connection.
Reconnect ==
  /\ gen' = gen + 1
  /\ stopped' = FALSE
  /\ opening' = "open"

\* Mutant: the channels are sent only when a plugin registers them.
Greeting_InitOnly == <<"init">>

\* send_init and, in the dispatcher's on_connected, send_subscribe: both are
\* put on the queue before the task of the link first runs.
Greeting == <<"init", "subscribe">>

\* The socket is there: the link's task is created and the greeting queued.
Opened ==
  /\ opening = "open" /\ ~Runnable
  /\ link' = [link EXCEPT ![gen] = "open"]
  /\ up' = TRUE
  /\ queue' = [queue EXCEPT ![gen] = @ \o Greeting]
  /\ reader' = [Returned(reader) EXCEPT ![gen] = At("ready", gen)]
  /\ writer' = [Returned(writer) EXCEPT ![gen] = At("ready", gen)]
  /\ opening' = "no"
  /\ UNCHANGED <<stopped, gen, wire, stopping, sentOn>>

\* The bus is not there: sleep a second and try again.
Refused ==
  /\ opening = "open"
  /\ opening' = "sleep"
  /\ UNCHANGED <<stopped, up, gen, link, queue, wire, reader, writer, stopping, sentOn>>

SleepEnds ==
  /\ opening = "sleep"
  /\ opening' = "open"
  /\ UNCHANGED <<stopped, up, gen, link, queue, wire, reader, writer, stopping, sentOn>>

\* Any other exception of open_unix_connection: connect() breaks for good.
GivesUp ==
  /\ opening = "open"
  /\ opening' = "gave up"
  /\ reader' = Returned(reader) /\ writer' = Returned(writer)
  /\ UNCHANGED <<stopped, up, gen, link, queue, wire, stopping, sentOn>>

-----------------------------------------------------------------------------
(* disconnect(reconnect)                                                      *)

\* Up to the await of wait_closed(). The writer goes first, so that whoever
\* comes next finds nothing to disconnect.
CloseLink == up' = FALSE /\ link' = [link EXCEPT ![gen] = "closing"]

\* Mutant: the exit message is put after connect() has replaced the queue.
UnblockWriter_Late == queue' = [queue EXCEPT ![gen'] = Append(@, "exit")]

\* Mutant: connect() keeps the queue, and with it what is left of it.
UnblockWriter_Keeps == queue' = [queue EXCEPT ![gen] = <<"exit">>, ![gen'] = queue[gen]]

\* After it: set the event and unblock the writer with an exit message.
UnblockWriter == queue' = [queue EXCEPT ![gen] = Append(@, "exit")]

\* The reader's or the writer's disconnect(reconnect=True) goes on.
LostIsClosed ==
  /\ \/ \E g \in Gen : /\ reader[g].at = "close"
                       /\ reader' = [reader EXCEPT ![g] = At("connect", 0)]
                       /\ UNCHANGED writer
     \/ \E g \in Gen : /\ writer[g].at = "close"
                       /\ writer' = [writer EXCEPT ![g] = At("connect", 0)]
                       /\ UNCHANGED reader
  /\ gen < MaxLinks
  /\ link' = [link EXCEPT ![gen] = "closed"]
  /\ Reconnect
  /\ UnblockWriter
  /\ UNCHANGED <<up, wire, stopping, sentOn>>

\* ServiceRunner.on_stop: a link that is being closed or opened is left alone.
\* The process ends soon after; the model lets what is under way go on.
Stop ==
  /\ stopping = "no"
  /\ IF Connected
     THEN CloseLink /\ stopping' = "close"
     ELSE UNCHANGED <<up, link>> /\ stopping' = "missed"
  /\ UNCHANGED <<stopped, gen, opening, queue, wire, reader, writer, sentOn>>

StopIsClosed ==
  /\ stopping = "close"
  /\ stopping' = "done"
  /\ stopped' = TRUE
  /\ link' = [link EXCEPT ![gen] = "closed"]
  /\ gen' = gen
  /\ UnblockWriter
  /\ UNCHANGED <<up, opening, wire, reader, writer, sentOn>>

-----------------------------------------------------------------------------
(* read_from_socket                                                           *)

\* The loop's test, and readline() on the stream that is there now.
ReadsOn == IF Connected THEN At("read", gen) ELSE At("done", 0)

ReaderStarts(g) ==
  /\ reader[g].at = "ready"
  /\ reader' = [reader EXCEPT ![g] = ReadsOn]
  /\ UNCHANGED <<stopped, up, gen, opening, link, queue, wire, writer, stopping, sentOn>>

\* A line: the listeners take it without an await, and the loop goes round.
ReaderGets(g) ==
  /\ reader[g].at = "read" /\ ~Over(reader[g].on)
  /\ reader' = [reader EXCEPT ![g] = ReadsOn]
  /\ UNCHANGED <<stopped, up, gen, opening, link, queue, wire, writer, stopping, sentOn>>

\* Mutant: no test of is_connected() at the head of disconnect().
OnException_Always == At("close", 0)

\* The disconnect of an exception: nothing to do where another was first.
OnException == IF Connected THEN At("close", 0) ELSE At("done", 0)

CloseIf(s) == IF s.at = "close" THEN CloseLink ELSE UNCHANGED <<up, link>>

\* End of file, also that of a link this process has closed.
ReaderEof(g) ==
  /\ reader[g].at = "read" /\ link[reader[g].on] \in {"lost", "closed"}
  /\ reader' = [reader EXCEPT ![g] = OnException]
  /\ CloseIf(reader'[g])
  /\ UNCHANGED <<stopped, gen, opening, queue, wire, writer, stopping, sentOn>>

-----------------------------------------------------------------------------
(* write_to_socket                                                            *)

\* The loop's test, and get() on the queue that is there now.
GetsOn == IF Connected THEN At("get", gen) ELSE At("done", 0)

WriterStarts(g) ==
  /\ writer[g].at = "ready"
  /\ writer' = [writer EXCEPT ![g] = GetsOn]
  /\ UNCHANGED <<stopped, up, gen, opening, link, queue, wire, reader, stopping, sentOn>>

WriterPops(g) ==
  /\ writer[g].at = "get" /\ queue[writer[g].on] # <<>>
  /\ queue' = [queue EXCEPT ![writer[g].on] = Tail(@)]

\* The exit message: ForceDisconnectException, disconnect(reconnect=False).
\* The disconnect of an earlier step has left nothing connected; were it not
\* so, the link would be closed and the event set.
WriterExits(g) ==
  /\ WriterPops(g) /\ Head(queue[writer[g].on]) = "exit"
  /\ writer' = [writer EXCEPT ![g] = At("done", 0)]
  /\ IF Connected
     THEN /\ up' = FALSE /\ stopped' = TRUE
          /\ link' = [link EXCEPT ![gen] = "closed"]
     ELSE UNCHANGED <<up, stopped, link>>
  /\ UNCHANGED <<gen, opening, wire, reader, stopping, sentOn>>

\* A message is written, and drain() returns at once or waits for room.
WriterWrites(g) ==
  /\ WriterPops(g) /\ Head(queue[writer[g].on]) # "exit"
  /\ up /\ link[gen] = "open"
  /\ wire' = [wire EXCEPT ![gen] = Append(@, Head(queue[writer[g].on]))]
  /\ writer' \in { [writer EXCEPT ![g] = GetsOn], [writer EXCEPT ![g] = At("drain", gen)] }
  /\ UNCHANGED <<stopped, up, gen, opening, link, reader, stopping, sentOn>>

\* No writer is left (AttributeError), or the peer is gone: the message is lost,
\* and the write that meets the error may be this one or a later one.
WriterFails(g) ==
  /\ WriterPops(g) /\ Head(queue[writer[g].on]) # "exit"
  /\ ~up \/ link[gen] # "open"
  /\ \/ writer' = [writer EXCEPT ![g] = OnException]
     \/ up /\ writer' = [writer EXCEPT ![g] = GetsOn]
  /\ CloseIf(writer'[g])
  /\ UNCHANGED <<stopped, gen, opening, wire, reader, stopping, sentOn>>

Drained(g) ==
  /\ writer[g].at = "drain" /\ link[writer[g].on] = "open"
  /\ writer' = [writer EXCEPT ![g] = GetsOn]
  /\ UNCHANGED <<stopped, up, gen, opening, link, queue, wire, reader, stopping, sentOn>>

DrainFails(g) ==
  /\ writer[g].at = "drain" /\ link[writer[g].on] \in {"lost", "closed"}
  /\ writer' = [writer EXCEPT ![g] = OnException]
  /\ CloseIf(writer'[g])
  /\ UNCHANGED <<stopped, gen, opening, queue, wire, reader, stopping, sentOn>>

-----------------------------------------------------------------------------
(* The plugins and the bus                                                    *)

\* Mutant: messages are queued whether there is a connection or not.
Accepts_Always == TRUE

\* The test of send_message().
Accepts == Connected

\* send_data: queued when connected, silently dropped when not.
Send(m) ==
  /\ sentOn[m] = 0
  /\ IF Accepts
     THEN /\ queue' = [queue EXCEPT ![gen] = Append(@, m)]
          /\ sentOn' = [sentOn EXCEPT ![m] = gen]
     ELSE UNCHANGED <<queue, sentOn>>
  /\ UNCHANGED <<stopped, up, gen, opening, link, wire, reader, writer, stopping>>

\* The bus goes away, or drops this client.
BusCloses ==
  /\ gen < MaxLinks /\ link[gen] = "open"
  /\ link' = [link EXCEPT ![gen] = "lost"]
  /\ UNCHANGED <<stopped, up, gen, opening, queue, wire, reader, writer, stopping, sentOn>>

-----------------------------------------------------------------------------
Init ==
  /\ stopped = FALSE /\ up = FALSE /\ gen = 1 /\ opening = "open"
  /\ link = [g \in Gen |-> "none"]
  /\ queue = [g \in Gen |-> <<>>]
  /\ wire = [g \in Gen |-> <<>>]
  /\ reader = [g \in Gen |-> At("none", 0)]
  /\ writer = [g \in Gen |-> At("none", 0)]
  /\ stopping = "no"
  /\ sentOn = [m \in Msg |-> 0]

Connecting == Opened \/ Refused \/ SleepEnds \/ GivesUp

Closing == LostIsClosed \/ Stop \/ StopIsClosed

ReaderStep(g) == ReaderStarts(g) \/ ReaderGets(g) \/ ReaderEof(g)

WriterStep(g) ==
  \/ WriterStarts(g) \/ WriterExits(g) \/ WriterWrites(g) \/ WriterFails(g)
  \/ Drained(g) \/ DrainFails(g)

Next ==
  \/ Connecting \/ Closing \/ BusCloses
  \/ \E g \in Gen : ReaderStep(g) \/ WriterStep(g)
  \/ \E m \in Msg : Send(m)

Spec == Init /\ [][Next]_vars

\* The event loop runs what is ready, sleeps and closes end, and a bus that is
\* asked again and again takes the connection some time.
FairSpec ==
  /\ Spec
  /\ SF_vars(Opened) /\ WF_vars(SleepEnds)
  /\ WF_vars(LostIsClosed) /\ WF_vars(StopIsClosed)
  /\ \A g \in Gen : /\ WF_vars(ReaderStarts(g)) /\ WF_vars(ReaderEof(g))
                    /\ WF_vars(WriterStep(g))

-----------------------------------------------------------------------------
(* Properties                                                                 *)

FlagTypes ==
  /\ stopped \in BOOLEAN /\ up \in BOOLEAN
  /\ gen \in Gen
  /\ opening \in {"no", "open", "sleep", "gave up"}
  /\ stopping \in {"no", "close", "done", "missed"}

LinkTypes ==
  /\ link \in [Gen -> {"none", "open", "lost", "closing", "closed"}]
  /\ queue \in [Gen -> Seq(Msg \cup {"init", "subscribe", "exit"})]
  /\ wire \in [Gen -> Seq(Msg \cup {"init", "subscribe"})]
  /\ sentOn \in [Msg -> 0 .. MaxLinks]

ReaderState ==
  [at : {"none", "ready", "read", "close", "connect", "done"}, on : 0 .. MaxLinks]

WriterState ==
  [at : {"none", "ready", "get", "drain", "close", "connect", "done"}, on : 0 .. MaxLinks]

\* self.writer is the writer of a socket that is there.
WriterHasLink == up => link[gen] \in {"open", "lost"}

\* What the next calls of connect() will make is not there yet.
NothingAhead ==
  \A g \in Gen : g > gen => link[g] = "none" /\ queue[g] = <<>> /\ reader[g].at = "none"

\* Types; self.writer is the writer of a socket that is there; and links, queues and coroutines exist only for calls of connect().
TypeOK ==
  /\ FlagTypes /\ LinkTypes
  /\ reader \in [Gen -> ReaderState] /\ writer \in [Gen -> WriterState]
  /\ WriterHasLink /\ NothingAhead

\* A stream has one reader and a queue one writer, although a coroutine asks
\* only `is_connected()` before it takes the stream, or the queue, that is there
\* by then (client.py:134-148). asyncio refuses a second reader of a stream, and
\* a second writer would take messages, or the exit message, of the first.
OneOfEach ==
  \A g, h \in Gen :
    g # h =>
      /\ reader[g].at = "read" /\ reader[h].at = "read" => reader[g].on # reader[h].on
      /\ writer[g].at = "get" /\ writer[h].at = "get" => writer[g].on # writer[h].on

\* What the bus reads first on any link is who the client is and what it
\* subscribes to, whatever the plugins sent while the link was down or coming
\* up (client.py:91-97). The bus drops a subscription that comes before the init,
\* with a warning, and passes data on as from nobody: an answer to it never comes.
InitFirst ==
  \A g \in Gen : \A i \in DOMAIN wire[g] : i <= Len(Greeting) => wire[g][i] = Greeting[i]

\* A message goes out on the link it was sent on or not at all: a request of
\* before the loss never follows its caller's timeout onto the next link.
NeverResent ==
  \A g \in Gen : \A i \in DOMAIN wire[g] : wire[g][i] \in Msg => sentOn[wire[g][i]] = g

\* Once the service that stops has closed the link, neither coroutine, which
\* both see it end, opens another (client.py:110-112, 149-155).
StaysDown == stopping = "done" => ~up /\ opening = "no"

\* "Async Unix-socket client with auto-reconnect" (client.py:18): unless the
\* service stops, or connect() has met an error it does not retry, the
\* connection comes back each time.
Reconnects ==
  []<>((Connected /\ link[gen] = "open") \/ stopping \in {"close", "done"} \/ opening = "gave up")

\* The bus is told the channels of the service on every link that lasts, the
\* first and those after a reconnect.
Resubscribes ==
  \A g \in Gen : <>[](link[g] = "open") => <>(\E i \in DOMAIN wire[g] : wire[g][i] = "subscribe")

=============================================================================
