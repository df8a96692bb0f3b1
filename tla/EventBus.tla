------------------------------ MODULE EventBus ------------------------------
(***************************************************************************)
(* The event bus of vrg-core (plugins/org_vrg_bus/plugin.py): one asyncio  *)
(* task per connected client reads its lines and handles them one by one,  *)
(* a waiting list keeps the messages nobody is subscribed to, and a third  *)
(* kind of task cleans that list. The tasks interleave wherever the code   *)
(* awaits: at the lock of the waiting list and at every write.             *)
(***************************************************************************)
EXTENDS Naturals, Sequences, SequencesExt, FiniteSets

CONSTANTS
    Client,      \* connections; the channel named after a service id is the client itself
    Topic,       \* the channels of plugins
    Msg,         \* data messages, each sent once
    TTL,         \* ticks a message may wait: the 15 s of the cleaner
    Period,      \* ticks between two cleanings: the 30 s of the cleaner
    MaxBreaks,   \* bound: connections whose peer goes away
    Nobody       \* not a client

VARIABLES
    conn,        \* [Client -> state of the connection]
    named,       \* clients that sent init
    channels,    \* [Client -> subscriptions]
    handler,     \* [Client -> what _handle_message is doing for this client]
    waiting,     \* [Channel -> _waiting_list, oldest first]
    lockQueue,   \* holder and waiters of _waiting_list_lock, in order
    cleaner,     \* the cleaning loop: asleep for some ticks, or locking
    got,         \* [Client -> [Msg -> copies written to a live peer]]
    fate,        \* [Msg -> what the bus did with it]
    due,         \* [Msg -> clients found subscribed when it was sent]
    breaks       \* peers that may still go away

vars == <<conn, named, channels, handler, waiting, lockQueue, cleaner, got, fate, due, breaks>>

Channel  == Client \cup Topic
Cleaner  == Nobody                 \* its name in the lock queue
Lasting  == TTL + Period + 1       \* ages are counted up to here
Idle     == [pc |-> "read", msg |-> Nobody, chan |-> Nobody, age |-> 0, todo |-> {}]

ASSUME BusConstants ==
    /\ Nobody \notin Channel \cup Msg
    /\ Client \cap Topic = {} /\ Client \cap Msg = {}
    /\ TTL \in Nat \ {0} /\ Period \in Nat \ {0} /\ MaxBreaks \in Nat

Stored   == [msg : Msg, age : 0..Lasting]
Handlers == [pc : {"read", "deliver", "store", "fanout"}, msg : Msg \cup {Nobody},
             chan : Channel \cup {Nobody}, age : 0..Lasting,
             todo : SUBSET Channel]

TypeOK ==
    /\ conn \in [Client -> {"absent", "open", "gone", "lost"}]
    /\ named \subseteq Client
    /\ channels \in [Client -> SUBSET Channel]
    /\ handler \in [Client -> Handlers]
    /\ waiting \in [Channel -> Seq(Stored)]
    /\ lockQueue \in Seq(Client \cup {Cleaner}) /\ IsInjective(lockQueue)
    /\ cleaner \in 0..Period
    /\ got \in [Client -> [Msg -> 0..2]]
    /\ fate \in [Msg -> {"new", "fanned", "stored", "taken", "expired", "dropped"}]
    /\ due \in [Msg -> SUBSET Client]
    /\ breaks \in 0..MaxBreaks

-----------------------------------------------------------------------------
(* Tools                                                                   *)

Present(c) == conn[c] # "absent"

\* asyncio.Lock serves its waiters in order.
Holds(p)  == lockQueue # <<>> /\ Head(lockQueue) = p

\* Mutant: the lock is not released.
Release_Never == UNCHANGED lockQueue

Enqueue(p) == lockQueue' = Append(lockQueue, p)
Release    == lockQueue' = Tail(lockQueue)

\* Client.write reaches a live peer. A peer that went away loses what is written
\* to it; once the event loop knows, the write raises.
Write(c, m)  == got' = IF conn[c] = "open" THEN [got EXCEPT ![c][m] = @ + 1] ELSE got
Raises(c)    == conn[c] \in {"lost", "absent"}

Become(c, h) == handler' = [handler EXCEPT ![c] = h]

\* The finally clause of _handle_client.
Leave(c) ==
    /\ conn' = [conn EXCEPT ![c] = "absent"]
    /\ named' = named \ {c}
    /\ channels' = [channels EXCEPT ![c] = {}]
    /\ due' = [m \in Msg |-> due[m] \ {c}]
    /\ Become(c, Idle)

-----------------------------------------------------------------------------
(* Connections                                                             *)

\* A slot is used again only when no fan-out still refers to its last client.
Connect(c) ==
    /\ ~Present(c)
    /\ \A d \in Client : handler[d].pc = "fanout" => c \notin handler[d].todo
    /\ conn' = [conn EXCEPT ![c] = "open"]
    /\ UNCHANGED <<named, channels, handler, waiting, lockQueue, cleaner, got, fate, due, breaks>>

PeerLeaves(c) ==
    /\ conn[c] = "open" /\ breaks > 0
    /\ conn' = [conn EXCEPT ![c] = "gone"]
    /\ breaks' = breaks - 1
    /\ UNCHANGED <<named, channels, handler, waiting, lockQueue, cleaner, got, fate, due>>

\* connection_lost: from here on drain() raises.
LossNoticed(c) ==
    /\ conn[c] = "gone"
    /\ conn' = [conn EXCEPT ![c] = "lost"]
    /\ UNCHANGED <<named, channels, handler, waiting, lockQueue, cleaner, got, fate, due, breaks>>

Reading(c) == Present(c) /\ handler[c].pc = "read"

\* readline() returns nothing: the loop of _handle_client ends.
ReadEof(c) ==
    /\ Reading(c) /\ conn[c] \in {"gone", "lost"}
    /\ Leave(c)
    /\ UNCHANGED <<waiting, lockQueue, cleaner, got, fate, breaks>>

-----------------------------------------------------------------------------
(* _handle_message                                                         *)

\* _deliver_waiting starts by asking for the lock.
StartDelivery(c, chans) ==
    /\ Become(c, [Idle EXCEPT !.pc = "deliver", !.todo = chans])
    /\ Enqueue(c)

ReadInit(c) ==
    /\ Reading(c)
    /\ named' = named \cup {c}
    /\ channels' = [channels EXCEPT ![c] = {c}]
    /\ StartDelivery(c, {c})
    /\ UNCHANGED <<conn, waiting, cleaner, got, fate, due, breaks>>

\* Mutant: the channels that were subscribed already.
NewChannels_Known(c, chans) == chans \cap channels[c]

\* The channels that were not subscribed yet.
NewChannels(c, chans) == chans \ channels[c]

\* The subscriptions are extended before the waiting list is looked at.
ReadSubscribe(c, chans) ==
    /\ Reading(c) /\ c \in named
    /\ channels' = [channels EXCEPT ![c] = @ \cup chans]
    /\ StartDelivery(c, NewChannels(c, chans))
    /\ UNCHANGED <<conn, named, waiting, cleaner, got, fate, due, breaks>>

ReadUnsubscribe(c, chans) ==
    /\ Reading(c) /\ c \in named
    /\ channels' = [channels EXCEPT ![c] = @ \ chans]
    /\ UNCHANGED <<conn, named, handler, waiting, lockQueue, cleaner, got, fate, due, breaks>>

Subscribers(ch) == {d \in Client : Present(d) /\ ch \in channels[d]}

\* Mutant: one subscriber is enough (plugin.py has this line commented out).
Recipients_FirstOnly(ch) == IF Subscribers(ch) = {} THEN {}
                            ELSE {CHOOSE d \in Subscribers(ch) : TRUE}

Recipients(ch) == Subscribers(ch)

\* The subscribers are looked up once; the message is sent to them one by one,
\* or put on the waiting list.
ReadData(c, ch, m) ==
    /\ Reading(c) /\ fate[m] = "new"
    /\ LET found == Recipients(ch) IN
          IF found = {}
          THEN /\ Become(c, [Idle EXCEPT !.pc = "store", !.msg = m, !.chan = ch])
               /\ Enqueue(c)
               /\ fate' = [fate EXCEPT ![m] = "stored"]
               /\ UNCHANGED due
          ELSE /\ Become(c, [Idle EXCEPT !.pc = "fanout", !.msg = m, !.todo = found])
               /\ fate' = [fate EXCEPT ![m] = "fanned"]
               /\ due' = [due EXCEPT ![m] = Subscribers(ch)]
               /\ UNCHANGED lockQueue
    /\ UNCHANGED <<conn, named, channels, waiting, cleaner, got, breaks>>

\* The message is dated when it is sent, not when the lock is granted.
Store(c) ==
    /\ handler[c].pc = "store" /\ Holds(c)
    /\ waiting' = [waiting EXCEPT ![handler[c].chan] =
                     Append(@, [msg |-> handler[c].msg, age |-> handler[c].age])]
    /\ Release
    /\ Become(c, Idle)
    /\ UNCHANGED <<conn, named, channels, cleaner, got, fate, due, breaks>>

\* Mutant: the newest message is written, the oldest removed.
Popped_Oldest(list) == Tail(list)

\* list.pop() takes the newest message.
Popped(list) == Front(list)

\* A write that raises is only logged by _deliver_waiting: its message is lost.
DeliverOne(c, ch) ==
    /\ handler[c].pc = "deliver" /\ Holds(c)
    /\ ch \in handler[c].todo /\ waiting[ch] # <<>>
    /\ LET m == Last(waiting[ch]).msg IN
          /\ Write(c, m)
          /\ fate' = [fate EXCEPT ![m] = IF conn[c] = "open" THEN "taken" ELSE "dropped"]
    /\ waiting' = [waiting EXCEPT ![ch] = Popped(@)]
    /\ UNCHANGED <<conn, named, channels, handler, lockQueue, cleaner, due, breaks>>

DeliveryDone(c) ==
    /\ handler[c].pc = "deliver" /\ Holds(c)
    /\ \A ch \in handler[c].todo : waiting[ch] = <<>>
    /\ Release
    /\ Become(c, Idle)
    /\ UNCHANGED <<conn, named, channels, waiting, cleaner, got, fate, due, breaks>>

FanoutWrite(c, d) ==
    /\ handler[c].pc = "fanout" /\ d \in handler[c].todo
    /\ ~Raises(d)
    /\ Write(d, handler[c].msg)
    /\ Become(c, IF handler[c].todo = {d} THEN Idle ELSE [handler[c] EXCEPT !.todo = @ \ {d}])
    /\ UNCHANGED <<conn, named, channels, waiting, lockQueue, cleaner, fate, due, breaks>>

\* The error reply goes to the `client` of the for loop, so it raises as well, and
\* leaves _handle_message: the task of the sender ends.
FanoutFails(c, d) ==
    /\ handler[c].pc = "fanout" /\ d \in handler[c].todo
    /\ Raises(d)
    /\ Leave(c)
    /\ UNCHANGED <<waiting, lockQueue, cleaner, got, fate, breaks>>

-----------------------------------------------------------------------------
(* The cleaning loop, and time                                             *)

CleanerWakes ==
    /\ cleaner = 0 /\ ~Contains(lockQueue, Cleaner)
    /\ Enqueue(Cleaner)
    /\ UNCHANGED <<conn, named, channels, handler, waiting, cleaner, got, fate, due, breaks>>

\* Mutant: nothing is ever too old.
Fresh_Always(s) == TRUE

Fresh(s) == s.age < TTL

\* Where the fresh messages are in a list, and the list of them (SelectSeq, without
\* its recursion).
FreshAt(list) ==
    LET at == {i \in DOMAIN list : Fresh(list[i])} IN
        CHOOSE f \in [1..Cardinality(at) -> at] :
            \A j, k \in 1..Cardinality(at) : j < k => f[j] < f[k]

Kept(list) == [k \in DOMAIN FreshAt(list) |-> list[FreshAt(list)[k]]]

Clean ==
    /\ Holds(Cleaner)
    /\ waiting' = [ch \in Channel |-> Kept(waiting[ch])]
    /\ fate' = [m \in Msg |->
                  IF \E ch \in Channel : \E i \in DOMAIN waiting[ch] :
                        waiting[ch][i].msg = m /\ ~Fresh(waiting[ch][i])
                  THEN "expired" ELSE fate[m]]
    /\ cleaner' = Period
    /\ Release
    /\ UNCHANGED <<conn, named, channels, handler, got, due, breaks>>

Older(n) == IF n < Lasting THEN n + 1 ELSE n

\* The cleaner's sleep ends on time; how long it waits for the lock is open.
Tick ==
    /\ cleaner > 0 \/ Contains(lockQueue, Cleaner)
    /\ cleaner' = IF cleaner > 0 THEN cleaner - 1 ELSE 0
    /\ waiting' = [ch \in Channel |->
                     [i \in DOMAIN waiting[ch] |-> [waiting[ch][i] EXCEPT !.age = Older(@)]]]
    /\ handler' = [c \in Client |-> IF handler[c].pc = "store"
                                    THEN [handler[c] EXCEPT !.age = Older(@)] ELSE handler[c]]
    /\ UNCHANGED <<conn, named, channels, lockQueue, got, fate, due, breaks>>

-----------------------------------------------------------------------------
Init ==
    /\ conn = [c \in Client |-> "absent"]
    /\ named = {}
    /\ channels = [c \in Client |-> {}]
    /\ handler = [c \in Client |-> Idle]
    /\ waiting = [ch \in Channel |-> <<>>]
    /\ lockQueue = <<>>
    /\ cleaner = Period
    /\ got = [c \in Client |-> [m \in Msg |-> 0]]
    /\ fate = [m \in Msg |-> "new"]
    /\ due = [m \in Msg |-> {}]
    /\ breaks = MaxBreaks

\* Steps of a client's task that its current message makes it take.
Work(c) == \/ Store(c) \/ DeliveryDone(c)
           \/ \E ch \in Channel : DeliverOne(c, ch)
           \/ \E d \in Client : FanoutWrite(c, d) \/ FanoutFails(c, d)
Read(c) == \/ ReadInit(c)
           \/ \E chans \in (SUBSET Topic) \ {{}} : ReadSubscribe(c, chans) \/ ReadUnsubscribe(c, chans)
           \/ \E ch \in Channel, m \in Msg : ReadData(c, ch, m)
Peer(c) == Connect(c) \/ PeerLeaves(c) \/ LossNoticed(c) \/ ReadEof(c)

Next == \/ \E c \in Client : Work(c) \/ Read(c) \/ Peer(c)
        \/ CleanerWakes \/ Clean \/ Tick

Spec == Init /\ [][Next]_vars

\* Peers read what they are sent, so every write ends; the cleaner and time go on.
Fairness == /\ \A c \in Client : WF_vars(Work(c))
            /\ WF_vars(CleanerWakes) /\ WF_vars(Clean) /\ WF_vars(Tick)

FairSpec == Spec /\ Fairness

-----------------------------------------------------------------------------
(* Properties                                                              *)

\* A message never lies in the waiting list of a channel that has a subscriber,
\* unless a delivery of that channel is on its way: the look-up in `data` and the
\* look-up in `subscribe` happen on either side of a lock, and neither misses.
NoStranded ==
    \A c \in Client, ch \in Channel :
        waiting[ch] # <<>> /\ Present(c) /\ ch \in channels[c] =>
            \E d \in Client : handler[d].pc = "deliver" /\ ch \in handler[d].todo

\* No client receives a message twice, and a message that waited is received by
\* one client only.
AtMostOnce ==
    \A m \in Msg : \A c, d \in Client :
        /\ got[c][m] <= 1
        /\ fate[m] \in {"stored", "taken", "expired", "dropped"} /\ c # d => got[c][m] + got[d][m] <= 1

\* As long as no peer went away, a message whose handling ended was received by
\* every client due, or is stored, or was taken by one client, or expired.
NothingLost ==
    breaks = MaxBreaks =>
        \A m \in Msg :
            /\ fate[m] = "fanned" /\ (\A c \in Client : handler[c].msg # m)
                  => \A d \in due[m] : got[d][m] = 1
            /\ fate[m] = "taken" => \E d \in Client : got[d][m] = 1
            /\ fate[m] # "dropped"

\* Why NoStranded is inductive: whoever stores to a channel that has a subscriber
\* by now is in front of a delivery of that channel in the queue of the lock.
Queued(p)    == \E i \in DOMAIN lockQueue : lockQueue[i] = p
Before(p, q) == \E i, j \in DOMAIN lockQueue :
                    i < j /\ lockQueue[i] = p /\ lockQueue[j] = q
QueueOrder ==
    /\ \A c \in Client : handler[c].pc \in {"store", "deliver"} <=> Queued(c)
    /\ \A c, s \in Client :
          handler[s].pc = "store" /\ Present(c) /\ handler[s].chan \in channels[c] =>
              \E d \in Client : /\ handler[d].pc = "deliver" /\ handler[s].chan \in handler[d].todo
                               /\ Before(s, d)

\* The task of a client comes back to reading, whatever happens to its peers.
HandlersReturn == \A c \in Client : handler[c].pc # "read" ~> handler[c].pc = "read"

\* Nothing waits for ever: a message is delivered or expires.
WaitingDrains == \A m \in Msg : fate[m] = "stored" ~> fate[m] # "stored"
=============================================================================
