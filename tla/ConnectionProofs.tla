-------------------------- MODULE ConnectionProofs --------------------------
(* Proofs about Connection, for any number of links and any messages.         *)
EXTENDS Connection, TLAPS

\* The phases of connect() and of the stop against the flags that all the
\* coroutines share.
Phases ==
  /\ opening \in {"open", "sleep"} => ~up /\ ~stopped /\ link[gen] = "none" /\ queue[gen] = <<>>
  /\ opening = "gave up" => ~up
  /\ up => ~stopped /\ opening = "no"
  /\ link[gen] = "open" => up
  /\ stopping \in {"close", "done"} => ~up /\ opening = "no"

\* Whoever closes a link is alone in it.
Alone ==
  /\ \A g \in Gen : reader[g].at = "close" \/ writer[g].at = "close" =>
       ~up /\ opening = "no" /\ stopping \in {"no", "missed"}
  /\ \A g, h \in Gen : ~(reader[g].at = "close" /\ writer[h].at = "close")
  /\ \A g, h \in Gen : reader[g].at = "close" /\ reader[h].at = "close" => g = h
  /\ \A g, h \in Gen : writer[g].at = "close" /\ writer[h].at = "close" => g = h

\* Of all links only the last is alive.
Links == \A g \in Gen : link[g] \in {"open", "lost", "closing"} => g = gen

\* A coroutine acts on the link and the queue it was started for, and what is
\* left of earlier ones when a link is up has nothing to take.
Owners ==
  /\ \A g \in Gen : reader[g].at = "read" => reader[g].on = g /\ link[g] # "none"
  /\ \A g \in Gen : writer[g].at \in {"get", "drain"} => writer[g].on = g
  /\ up => \A g \in Gen : reader[g].at = "ready" \/ writer[g].at = "ready" => g = gen
  /\ up => \A g \in Gen \ {gen} : writer[g].at = "get" => queue[g] = <<>>

\* While a link is up no exit message waits for its writer.
NoExit == up => \A i \in DOMAIN queue[gen] : queue[gen][i] # "exit"

\* What waits in a queue was sent on its link.
Queued ==
  \A g \in Gen : \A i \in DOMAIN queue[g] : queue[g][i] \in Msg => sentOn[queue[g][i]] = g

\* As much of the greeting as is not written is at the head of the queue.
Greets ==
  link[gen] = "open" =>
    \/ /\ wire[gen] = <<>> /\ Len(queue[gen]) >= 2
       /\ queue[gen][1] = "init" /\ queue[gen][2] = "subscribe"
    \/ /\ Len(wire[gen]) = 1 /\ wire[gen][1] = "init"
       /\ Len(queue[gen]) >= 1 /\ queue[gen][1] = "subscribe"
    \/ /\ Len(wire[gen]) >= 2 /\ wire[gen][1] = "init" /\ wire[gen][2] = "subscribe"

\* Nothing was written to a link that is not there yet.
Unwritten == \A g \in Gen : link[g] = "none" => wire[g] = <<>>

Base == TypeOK /\ Phases /\ Alone /\ Links /\ Owners /\ NoExit

IInv == Base /\ Queued /\ NeverResent /\ Unwritten /\ Greets /\ InitFirst

-----------------------------------------------------------------------------
(* Sequences                                                                  *)

\* What Append does to the elements.
LEMMA Appended ==
  ASSUME NEW S, NEW s \in Seq(S), NEW e \in S
  PROVE  /\ Append(s, e) \in Seq(S)
         /\ Len(Append(s, e)) = Len(s) + 1 /\ Len(s) \in Nat
         /\ DOMAIN s = 1 .. Len(s)
         /\ DOMAIN Append(s, e) = 1 .. Len(s) + 1
         /\ \A i \in 1 .. Len(s) : Append(s, e)[i] = s[i]
         /\ Append(s, e)[Len(s) + 1] = e
  OBVIOUS

\* What Head and Tail do to them.
LEMMA Popped ==
  ASSUME NEW S, NEW s \in Seq(S), s # <<>>
  PROVE  /\ Head(s) \in S /\ Head(s) = s[1] /\ Len(s) \in Nat \ {0}
         /\ Tail(s) \in Seq(S)
         /\ Len(Tail(s)) = Len(s) - 1
         /\ DOMAIN s = 1 .. Len(s)
         /\ DOMAIN Tail(s) = 1 .. Len(s) - 1
         /\ \A i \in 1 .. Len(s) - 1 : Tail(s)[i] = s[i + 1]
  OBVIOUS

\* A queue that is empty when the link comes up holds the greeting.
LEMMA Greeted ==
  <<>> \o Greeting = <<"init", "subscribe">>
  BY DEF Greeting

-----------------------------------------------------------------------------
(* The types                                                                  *)

\* Nothing has been opened and nothing queued.
LEMMA InitTypes == Init => TypeOK
<1> SUFFICES ASSUME Init PROVE TypeOK
  OBVIOUS
<1> USE MaxLinksAssumption DEF Gen
<1>1. FlagTypes
  <2>1. stopped \in BOOLEAN /\ up \in BOOLEAN
    BY DEF Init
  <2>2. gen \in Gen /\ opening \in {"no", "open", "sleep", "gave up"}
        /\ stopping \in {"no", "close", "done", "missed"}
    BY DEF Init
  <2>q. QED
    BY <2>1, <2>2 DEF FlagTypes
<1>2. LinkTypes
  BY DEF Init, LinkTypes
<1>3. reader \in [Gen -> ReaderState] /\ writer \in [Gen -> WriterState]
  BY DEF Init, At, ReaderState, WriterState
<1>4. WriterHasLink /\ NothingAhead
  BY DEF Init, At, WriterHasLink, NothingAhead
<1>q. QED
  BY <1>1, <1>2, <1>3, <1>4 DEF TypeOK

\* The calls of connect() are numbered.
LEMMA GenTypes ==
  ASSUME TypeOK
  PROVE  /\ gen \in Gen /\ 0 \in 0 .. MaxLinks /\ Gen \subseteq 0 .. MaxLinks
         /\ \A g \in Gen : g \in Nat \ {0}
         /\ gen < MaxLinks => gen + 1 \in Gen /\ gen + 1 # gen
<1>1. gen \in Gen
  BY DEF TypeOK, FlagTypes
<1>q. QED
  BY <1>1, MaxLinksAssumption DEF Gen

\* Where a coroutine goes on, or what it does about an exception.
LEMMA NextStates ==
  ASSUME TypeOK
  PROVE  /\ ReadsOn \in ReaderState /\ GetsOn \in WriterState
         /\ OnException \in ReaderState /\ OnException \in WriterState
         /\ At("ready", gen) \in ReaderState /\ At("ready", gen) \in WriterState
         /\ At("connect", 0) \in ReaderState /\ At("connect", 0) \in WriterState
         /\ At("done", 0) \in ReaderState /\ At("done", 0) \in WriterState
         /\ At("drain", gen) \in WriterState
<1>1. 0 \in 0 .. MaxLinks /\ gen \in 0 .. MaxLinks
  BY GenTypes
<1>2. \A at \in {"ready", "read", "close", "connect", "done"}, on \in {0, gen} :
        At(at, on) \in ReaderState
  BY <1>1 DEF At, ReaderState
<1>3. \A at \in {"ready", "get", "drain", "close", "connect", "done"}, on \in {0, gen} :
        At(at, on) \in WriterState
  BY <1>1 DEF At, WriterState
<1>q. QED
  BY <1>2, <1>3 DEF ReadsOn, GetsOn, OnException

\* The caller of connect() ends with it.
LEMMA ReturnedTypes ==
  ASSUME TypeOK
  PROVE  /\ Returned(reader) \in [Gen -> ReaderState] /\ Returned(writer) \in [Gen -> WriterState]
         /\ \A g \in Gen : Returned(reader)[g] = IF reader[g].at = "connect" THEN At("done", 0) ELSE reader[g]
         /\ \A g \in Gen : Returned(writer)[g] = IF writer[g].at = "connect" THEN At("done", 0) ELSE writer[g]
<1>1. reader \in [Gen -> ReaderState] /\ writer \in [Gen -> WriterState]
  BY DEF TypeOK
<1>q. QED
  BY <1>1, NextStates DEF Returned

\* The exit message is put on the queue that is there.
LEMMA UnblockTypes ==
  ASSUME TypeOK, UnblockWriter
  PROVE  /\ queue' \in [Gen -> Seq(Msg \cup {"init", "subscribe", "exit"})]
         /\ \A g \in Gen \ {gen} : queue'[g] = queue[g]
         /\ queue'[gen] = Append(queue[gen], "exit")
<1>1. queue \in [Gen -> Seq(Msg \cup {"init", "subscribe", "exit"})] /\ gen \in Gen
  BY GenTypes DEF TypeOK, LinkTypes
<1>2. Append(queue[gen], "exit") \in Seq(Msg \cup {"init", "subscribe", "exit"})
  BY <1>1, Appended
<1>q. QED
  BY <1>1, <1>2 DEF UnblockWriter

\* Closing the link, or leaving it alone, keeps the types of what it touches.
LEMMA CloseTypes ==
  ASSUME TypeOK, CloseLink \/ UNCHANGED <<up, link>>
  PROVE  /\ up' \in BOOLEAN
         /\ link' \in [Gen -> {"none", "open", "lost", "closing", "closed"}]
         /\ up' => up /\ link' = link
         /\ \A g \in Gen \ {gen} : link'[g] = link[g]
         /\ link'[gen] # link[gen] => link'[gen] = "closing"
<1>1. CASE CloseLink
  <2>1. up' = FALSE
    BY <1>1 DEF CloseLink
  <2>2. link' = [link EXCEPT ![gen] = "closing"]
    BY <1>1 DEF CloseLink
  <2>q. QED
    BY <2>1, <2>2 DEF TypeOK, FlagTypes, LinkTypes
<1>2. CASE UNCHANGED <<up, link>>
  BY <1>2 DEF TypeOK, FlagTypes, LinkTypes
<1>q. QED
  BY <1>1, <1>2

\* The writer takes the first message of its queue.
LEMMA PopTypes ==
  ASSUME TypeOK, NEW g \in Gen, WriterPops(g),
         \A h \in Gen : writer[h].at \in {"get", "drain"} => writer[h].on = h
  PROVE  /\ writer[g].at = "get" /\ writer[g].on = g /\ queue[g] # <<>>
         /\ queue' = [queue EXCEPT ![g] = Tail(@)]
         /\ queue' \in [Gen -> Seq(Msg \cup {"init", "subscribe", "exit"})]
         /\ \A h \in Gen \ {g} : queue'[h] = queue[h]
         /\ ~(g > gen) /\ \A h \in Gen : h > gen => queue'[h] = queue[h]
         /\ Head(queue[g]) \in Msg \cup {"init", "subscribe", "exit"}
<1>1. writer[g].at = "get" /\ writer[g].on = g /\ queue[g] # <<>>
  BY DEF WriterPops
<1>2. queue' = [queue EXCEPT ![g] = Tail(@)]
  BY <1>1 DEF WriterPops
<1>3. queue[g] \in Seq(Msg \cup {"init", "subscribe", "exit"})
  BY DEF TypeOK, LinkTypes
<1>4. Tail(queue[g]) \in Seq(Msg \cup {"init", "subscribe", "exit"})
      /\ Head(queue[g]) \in Msg \cup {"init", "subscribe", "exit"}
  BY <1>1, <1>3, Popped
<1>5. queue \in [Gen -> Seq(Msg \cup {"init", "subscribe", "exit"})]
  BY DEF TypeOK, LinkTypes
<1>6. ~(g > gen)
  BY <1>1 DEF TypeOK, NothingAhead
<1>q. QED
  BY <1>1, <1>2, <1>4, <1>5, <1>6

\* Every step keeps the types.
LEMMA TypeStep ==
  ASSUME Base, [Next]_vars
  PROVE  TypeOK'
<1> USE GenTypes
<1>a. TypeOK /\ gen \in Gen /\ FlagTypes /\ LinkTypes /\ WriterHasLink /\ NothingAhead
      /\ reader \in [Gen -> ReaderState] /\ writer \in [Gen -> WriterState]
  BY DEF Base, TypeOK
<1>b. \A h \in Gen : writer[h].at \in {"get", "drain"} => writer[h].on = h
  BY DEF Base, Owners
<1>0. CASE UNCHANGED vars
  BY <1>0, <1>a DEF vars, TypeOK, FlagTypes, LinkTypes, WriterHasLink, NothingAhead
<1>1. CASE Opened
  <2>1. FlagTypes'
    BY <1>1, <1>a DEF Opened, FlagTypes
  <2>2. link' \in [Gen -> {"none", "open", "lost", "closing", "closed"}]
    BY <1>1, <1>a DEF Opened, LinkTypes
  <2>3. queue' \in [Gen -> Seq(Msg \cup {"init", "subscribe", "exit"})]
    <3>1. queue' = [queue EXCEPT ![gen] = <<"init", "subscribe">>]
      BY <1>1, <1>a, Greeted DEF Opened, Base, Phases, LinkTypes
    <3>2. <<"init", "subscribe">> \in Seq(Msg \cup {"init", "subscribe", "exit"})
      OBVIOUS
    <3>q. QED
      BY <3>1, <3>2, <1>a DEF LinkTypes
  <2>4. /\ wire' \in [Gen -> Seq(Msg \cup {"init", "subscribe"})] /\ sentOn' \in [Msg -> 0 .. MaxLinks]
    BY <1>1, <1>a DEF Opened, LinkTypes
  <2>5. /\ reader' \in [Gen -> ReaderState] /\ writer' \in [Gen -> WriterState]
    BY <1>1, <1>a, NextStates, ReturnedTypes DEF Opened
  <2>6. WriterHasLink' /\ NothingAhead'
    <3>1. WriterHasLink'
      BY <1>1, <1>a DEF Opened, WriterHasLink, LinkTypes
    <3>2. NothingAhead'
      <4>1. gen' = gen /\ \A g \in Gen \ {gen} : link'[g] = link[g] /\ queue'[g] = queue[g]
        BY <1>1, <1>a DEF Opened, LinkTypes
      <4>2. \A g \in Gen \ {gen} : reader'[g] = Returned(reader)[g]
        BY <1>1, <1>a, ReturnedTypes DEF Opened
      <4>3. \A g \in Gen : g > gen => g # gen
        BY <1>a
      <4>q. QED
        BY <4>1, <4>2, <4>3, <1>a, ReturnedTypes DEF NothingAhead
    <3>q. QED
      BY <3>1, <3>2
  <2>q. QED
    BY <2>1, <2>2, <2>3, <2>4, <2>5, <2>6 DEF TypeOK, LinkTypes
<1>2. CASE Refused
  <2>1. FlagTypes'
    BY <1>2, <1>a DEF Refused, FlagTypes
  <2>2. LinkTypes'
    BY <1>2, <1>a DEF Refused, LinkTypes
  <2>3. /\ reader' \in [Gen -> ReaderState] /\ writer' \in [Gen -> WriterState]
    BY <1>2, <1>a DEF Refused
  <2>4. WriterHasLink' /\ NothingAhead'
    BY <1>2, <1>a DEF Refused, WriterHasLink, NothingAhead
  <2>q. QED
    BY <2>1, <2>2, <2>3, <2>4 DEF TypeOK
<1>3. CASE SleepEnds
  <2>1. FlagTypes'
    BY <1>3, <1>a DEF SleepEnds, FlagTypes
  <2>2. LinkTypes'
    BY <1>3, <1>a DEF SleepEnds, LinkTypes
  <2>3. /\ reader' \in [Gen -> ReaderState] /\ writer' \in [Gen -> WriterState]
    BY <1>3, <1>a DEF SleepEnds
  <2>4. WriterHasLink' /\ NothingAhead'
    BY <1>3, <1>a DEF SleepEnds, WriterHasLink, NothingAhead
  <2>q. QED
    BY <2>1, <2>2, <2>3, <2>4 DEF TypeOK
<1>4. CASE GivesUp
  <2>1. FlagTypes'
    BY <1>4, <1>a DEF GivesUp, FlagTypes
  <2>2. LinkTypes'
    BY <1>4, <1>a DEF GivesUp, LinkTypes
  <2>3. /\ reader' \in [Gen -> ReaderState] /\ writer' \in [Gen -> WriterState]
    BY <1>4, <1>a, NextStates, ReturnedTypes DEF GivesUp
  <2>4. WriterHasLink' /\ NothingAhead'
    <3>1. WriterHasLink'
      BY <1>4, <1>a DEF GivesUp, WriterHasLink
    <3>2. NothingAhead'
      BY <1>4, <1>a, ReturnedTypes DEF GivesUp, NothingAhead, At
    <3>q. QED
      BY <3>1, <3>2
  <2>q. QED
    BY <2>1, <2>2, <2>3, <2>4 DEF TypeOK
<1>5. CASE LostIsClosed
  <2>1. stopped' \in BOOLEAN /\ up' \in BOOLEAN
    <3>1. stopped' = FALSE /\ up' = up
      BY <1>5 DEF LostIsClosed, Reconnect
    <3>q. QED
      BY <3>1, <1>a DEF FlagTypes
  <2>2. /\ gen' \in Gen /\ opening' \in {"no", "open", "sleep", "gave up"}
        /\ stopping' \in {"no", "close", "done", "missed"}
    <3>1. gen' = gen + 1 /\ gen < MaxLinks /\ opening' = "open" /\ stopping' = stopping
      BY <1>5 DEF LostIsClosed, Reconnect
    <3>2. gen' \in Gen
      BY <3>1, <1>a
    <3>q. QED
      BY <3>1, <3>2, <1>a DEF FlagTypes
  <2>3. link' \in [Gen -> {"none", "open", "lost", "closing", "closed"}]
    BY <1>5, <1>a DEF LostIsClosed, LinkTypes
  <2>4. queue' \in [Gen -> Seq(Msg \cup {"init", "subscribe", "exit"})]
    BY <1>5, <1>a, UnblockTypes DEF LostIsClosed
  <2>5. /\ wire' \in [Gen -> Seq(Msg \cup {"init", "subscribe"})] /\ sentOn' \in [Msg -> 0 .. MaxLinks]
    BY <1>5, <1>a DEF LostIsClosed, LinkTypes
  <2>6. /\ reader' \in [Gen -> ReaderState] /\ writer' \in [Gen -> WriterState]
    BY <1>5, <1>a, NextStates DEF LostIsClosed
  <2>7. WriterHasLink' /\ NothingAhead'
    <3>1. ~up /\ up' = up
      BY <1>5 DEF LostIsClosed, Base, Alone
    <3>2. gen' = gen + 1
      BY <1>5 DEF LostIsClosed, Reconnect
    <3>3. \A g \in Gen : g > gen => link'[g] = link[g] /\ queue'[g] = queue[g]
      BY <1>5, <1>a, UnblockTypes DEF LostIsClosed, LinkTypes
    <3>4. \A g \in Gen : g > gen => reader'[g].at = "none"
      BY <1>5, <1>a DEF LostIsClosed, NothingAhead
    <3>5. \A g \in Gen : g > gen + 1 => g > gen
      BY <1>a
    <3>6. NothingAhead'
      BY <1>a, <3>2, <3>3, <3>4, <3>5 DEF NothingAhead
    <3>q. QED
      BY <3>1, <3>6 DEF WriterHasLink
  <2>q. QED
    BY <2>1, <2>2, <2>3, <2>4, <2>5, <2>6, <2>7 DEF TypeOK, FlagTypes, LinkTypes
<1>6. CASE Stop
  <2>1. stopped' \in BOOLEAN /\ up' \in BOOLEAN
    <3>1. CloseLink \/ UNCHANGED <<up, link>>
      BY <1>6 DEF Stop
    <3>2. stopped' = stopped
      BY <1>6 DEF Stop
    <3>q. QED
      BY <3>1, <3>2, <1>a, CloseTypes DEF FlagTypes
  <2>2. /\ gen' \in Gen /\ opening' \in {"no", "open", "sleep", "gave up"}
        /\ stopping' \in {"no", "close", "done", "missed"}
    BY <1>6, <1>a DEF Stop, FlagTypes
  <2>3. link' \in [Gen -> {"none", "open", "lost", "closing", "closed"}]
    <3>1. CloseLink \/ UNCHANGED <<up, link>>
      BY <1>6 DEF Stop
    <3>2. stopped' = stopped
      BY <1>6 DEF Stop
    <3>q. QED
      BY <3>1, <3>2, <1>a, CloseTypes DEF FlagTypes
  <2>4. queue' \in [Gen -> Seq(Msg \cup {"init", "subscribe", "exit"})]
    BY <1>6, <1>a DEF Stop, LinkTypes
  <2>5. /\ wire' \in [Gen -> Seq(Msg \cup {"init", "subscribe"})] /\ sentOn' \in [Msg -> 0 .. MaxLinks]
    BY <1>6, <1>a DEF Stop, LinkTypes
  <2>6. /\ reader' \in [Gen -> ReaderState] /\ writer' \in [Gen -> WriterState]
    BY <1>6, <1>a DEF Stop
  <2>7. WriterHasLink' /\ NothingAhead'
    <3>1. CloseLink \/ UNCHANGED <<up, link>>
      BY <1>6 DEF Stop, CloseIf
    <3>2. gen' = gen /\ queue' = queue /\ reader' = reader
      BY <1>6, <1>a DEF Stop
    <3>3. \A g \in Gen : g > gen => link'[g] = link[g]
      BY <3>1, <1>a, CloseTypes
    <3>4. WriterHasLink'
      BY <3>1, <3>2, <1>a, CloseTypes DEF WriterHasLink
    <3>q. QED
      BY <3>2, <3>3, <3>4, <1>a DEF NothingAhead
  <2>q. QED
    BY <2>1, <2>2, <2>3, <2>4, <2>5, <2>6, <2>7 DEF TypeOK, FlagTypes, LinkTypes
<1>7. CASE StopIsClosed
  <2>1. FlagTypes'
    BY <1>7, <1>a DEF StopIsClosed, FlagTypes
  <2>2. link' \in [Gen -> {"none", "open", "lost", "closing", "closed"}]
    BY <1>7, <1>a DEF StopIsClosed, LinkTypes
  <2>3. queue' \in [Gen -> Seq(Msg \cup {"init", "subscribe", "exit"})]
    BY <1>7, <1>a, UnblockTypes DEF StopIsClosed
  <2>4. /\ wire' \in [Gen -> Seq(Msg \cup {"init", "subscribe"})] /\ sentOn' \in [Msg -> 0 .. MaxLinks]
    BY <1>7, <1>a DEF StopIsClosed, LinkTypes
  <2>5. /\ reader' \in [Gen -> ReaderState] /\ writer' \in [Gen -> WriterState]
    BY <1>7, <1>a DEF StopIsClosed
  <2>6. WriterHasLink' /\ NothingAhead'
    <3>1. ~up /\ up' = up /\ gen' = gen /\ reader' = reader
      BY <1>7 DEF StopIsClosed, Base, Phases
    <3>2. \A g \in Gen : g > gen => link'[g] = link[g] /\ queue'[g] = queue[g]
      BY <1>7, <1>a, UnblockTypes DEF StopIsClosed, LinkTypes
    <3>q. QED
      BY <3>1, <3>2, <1>a DEF WriterHasLink, NothingAhead
  <2>q. QED
    BY <2>1, <2>2, <2>3, <2>4, <2>5, <2>6 DEF TypeOK, LinkTypes
<1>8. CASE BusCloses
  <2>1. FlagTypes'
    BY <1>8, <1>a DEF BusCloses, FlagTypes
  <2>2. LinkTypes'
    BY <1>8, <1>a DEF BusCloses, LinkTypes
  <2>3. /\ reader' \in [Gen -> ReaderState] /\ writer' \in [Gen -> WriterState]
    BY <1>8, <1>a DEF BusCloses
  <2>4. WriterHasLink' /\ NothingAhead'
    BY <1>8, <1>a DEF BusCloses, WriterHasLink, NothingAhead
  <2>q. QED
    BY <2>1, <2>2, <2>3, <2>4 DEF TypeOK
<1>9. CASE \E g \in Gen : ReaderStarts(g)
  <2>0. PICK g \in Gen : ReaderStarts(g)
    BY <1>9
  <2>1. FlagTypes'
    BY <2>0, <1>a DEF ReaderStarts, FlagTypes
  <2>2. LinkTypes'
    BY <2>0, <1>a DEF ReaderStarts, LinkTypes
  <2>3. /\ reader' \in [Gen -> ReaderState] /\ writer' \in [Gen -> WriterState]
    BY <2>0, <1>a, NextStates DEF ReaderStarts
  <2>4. WriterHasLink' /\ NothingAhead'
    BY <2>0, <1>a DEF ReaderStarts, WriterHasLink, NothingAhead
  <2>q. QED
    BY <2>1, <2>2, <2>3, <2>4 DEF TypeOK
<1>10. CASE \E g \in Gen : ReaderGets(g)
  <2>0. PICK g \in Gen : ReaderGets(g)
    BY <1>10
  <2>1. FlagTypes'
    BY <2>0, <1>a DEF ReaderGets, FlagTypes
  <2>2. LinkTypes'
    BY <2>0, <1>a DEF ReaderGets, LinkTypes
  <2>3. /\ reader' \in [Gen -> ReaderState] /\ writer' \in [Gen -> WriterState]
    BY <2>0, <1>a, NextStates DEF ReaderGets
  <2>4. WriterHasLink' /\ NothingAhead'
    BY <2>0, <1>a DEF ReaderGets, WriterHasLink, NothingAhead
  <2>q. QED
    BY <2>1, <2>2, <2>3, <2>4 DEF TypeOK
<1>11. CASE \E g \in Gen : ReaderEof(g)
  <2>0. PICK g \in Gen : ReaderEof(g)
    BY <1>11
  <2>1. stopped' \in BOOLEAN /\ up' \in BOOLEAN
    <3>1. CloseLink \/ UNCHANGED <<up, link>>
      BY <2>0 DEF ReaderEof, CloseIf
    <3>2. stopped' = stopped
      BY <2>0 DEF ReaderEof
    <3>q. QED
      BY <3>1, <3>2, <1>a, CloseTypes DEF FlagTypes
  <2>2. /\ gen' \in Gen /\ opening' \in {"no", "open", "sleep", "gave up"}
        /\ stopping' \in {"no", "close", "done", "missed"}
    BY <2>0, <1>a DEF ReaderEof, FlagTypes
  <2>3. link' \in [Gen -> {"none", "open", "lost", "closing", "closed"}]
    <3>1. CloseLink \/ UNCHANGED <<up, link>>
      BY <2>0 DEF ReaderEof, CloseIf
    <3>q. QED
      BY <3>1, <1>a, CloseTypes
  <2>4. queue' \in [Gen -> Seq(Msg \cup {"init", "subscribe", "exit"})]
    BY <2>0, <1>a DEF ReaderEof, LinkTypes
  <2>5. /\ wire' \in [Gen -> Seq(Msg \cup {"init", "subscribe"})] /\ sentOn' \in [Msg -> 0 .. MaxLinks]
    BY <2>0, <1>a DEF ReaderEof, LinkTypes
  <2>6. /\ reader' \in [Gen -> ReaderState] /\ writer' \in [Gen -> WriterState]
    BY <2>0, <1>a, NextStates DEF ReaderEof
  <2>7. WriterHasLink' /\ NothingAhead'
    <3>1. CloseLink \/ UNCHANGED <<up, link>>
      BY <2>0 DEF ReaderEof, CloseIf
    <3>2. gen' = gen /\ queue' = queue /\ \A h \in Gen : h > gen => reader'[h] = reader[h]
      BY <2>0, <1>a DEF ReaderEof, NothingAhead
    <3>3. \A h \in Gen : h > gen => link'[h] = link[h]
      BY <3>1, <1>a, CloseTypes
    <3>4. WriterHasLink'
      BY <3>1, <3>2, <1>a, CloseTypes DEF WriterHasLink
    <3>q. QED
      BY <3>2, <3>3, <3>4, <1>a DEF NothingAhead
  <2>q. QED
    BY <2>1, <2>2, <2>3, <2>4, <2>5, <2>6, <2>7 DEF TypeOK, FlagTypes, LinkTypes
<1>12. CASE \E g \in Gen : WriterStarts(g)
  <2>0. PICK g \in Gen : WriterStarts(g)
    BY <1>12
  <2>1. FlagTypes'
    BY <2>0, <1>a DEF WriterStarts, FlagTypes
  <2>2. LinkTypes'
    BY <2>0, <1>a DEF WriterStarts, LinkTypes
  <2>3. /\ reader' \in [Gen -> ReaderState] /\ writer' \in [Gen -> WriterState]
    BY <2>0, <1>a, NextStates DEF WriterStarts
  <2>4. WriterHasLink' /\ NothingAhead'
    BY <2>0, <1>a DEF WriterStarts, WriterHasLink, NothingAhead
  <2>q. QED
    BY <2>1, <2>2, <2>3, <2>4 DEF TypeOK
<1>13. CASE \E g \in Gen : WriterExits(g)
  <2>0. PICK g \in Gen : WriterExits(g)
    BY <1>13
  <2>1. FlagTypes'
    BY <2>0, <1>a DEF WriterExits, FlagTypes
  <2>2. link' \in [Gen -> {"none", "open", "lost", "closing", "closed"}]
    BY <2>0, <1>a DEF WriterExits, LinkTypes
  <2>3. queue' \in [Gen -> Seq(Msg \cup {"init", "subscribe", "exit"})]
    BY <2>0, <1>a, <1>b, PopTypes DEF WriterExits
  <2>4. /\ wire' \in [Gen -> Seq(Msg \cup {"init", "subscribe"})] /\ sentOn' \in [Msg -> 0 .. MaxLinks]
    BY <2>0, <1>a DEF WriterExits, LinkTypes
  <2>5. /\ reader' \in [Gen -> ReaderState] /\ writer' \in [Gen -> WriterState]
    BY <2>0, <1>a, NextStates DEF WriterExits
  <2>6. WriterHasLink' /\ NothingAhead'
    <3>a. WriterPops(g) /\ gen' = gen /\ reader' = reader
      BY <2>0 DEF WriterExits
    <3>b. \A h \in Gen : h > gen => queue'[h] = queue[h]
      BY <3>a, <1>a, <1>b, PopTypes
    <3>1. gen' = gen /\ reader' = reader /\ \A h \in Gen : h > gen => queue'[h] = queue[h]
      BY <3>a, <3>b
    <3>2. \A h \in Gen : h > gen => link'[h] = link[h]
      BY <2>0, <1>a DEF WriterExits, LinkTypes
    <3>3. WriterHasLink'
      BY <2>0, <1>a DEF WriterExits, WriterHasLink
    <3>q. QED
      BY <3>1, <3>2, <3>3, <1>a DEF NothingAhead
  <2>q. QED
    BY <2>1, <2>2, <2>3, <2>4, <2>5, <2>6 DEF TypeOK, LinkTypes
<1>14. CASE \E g \in Gen : WriterWrites(g)
  <2>0. PICK g \in Gen : WriterWrites(g)
    BY <1>14
  <2>1. FlagTypes'
    BY <2>0, <1>a DEF WriterWrites, FlagTypes
  <2>2. link' \in [Gen -> {"none", "open", "lost", "closing", "closed"}]
    BY <2>0, <1>a DEF WriterWrites, LinkTypes
  <2>3. queue' \in [Gen -> Seq(Msg \cup {"init", "subscribe", "exit"})]
    BY <2>0, <1>a, <1>b, PopTypes DEF WriterWrites
  <2>4. /\ wire' \in [Gen -> Seq(Msg \cup {"init", "subscribe"})] /\ sentOn' \in [Msg -> 0 .. MaxLinks]
    <3>1. queue[g] # <<>> /\ Head(queue[g]) \in Msg \cup {"init", "subscribe", "exit"}
          /\ writer[g].on = g
      BY <2>0, <1>a, <1>b, PopTypes DEF WriterWrites
    <3>2. Head(queue[g]) \in Msg \cup {"init", "subscribe"} /\ wire[gen] \in Seq(Msg \cup {"init", "subscribe"})
      BY <2>0, <3>1, <1>a DEF WriterWrites, LinkTypes
    <3>3. Append(wire[gen], Head(queue[g])) \in Seq(Msg \cup {"init", "subscribe"})
      BY <3>2, Appended
    <3>q. QED
      BY <2>0, <3>1, <3>3, <1>a DEF WriterWrites, LinkTypes
  <2>5. /\ reader' \in [Gen -> ReaderState] /\ writer' \in [Gen -> WriterState]
    <3>1. writer' = [writer EXCEPT ![g] = GetsOn] \/ writer' = [writer EXCEPT ![g] = At("drain", gen)]
      BY <2>0 DEF WriterWrites
    <3>2. reader' = reader
      BY <2>0 DEF WriterWrites
    <3>q. QED
      BY <3>1, <3>2, <1>a, NextStates
  <2>6. WriterHasLink' /\ NothingAhead'
    <3>a. WriterPops(g) /\ gen' = gen /\ reader' = reader
      BY <2>0 DEF WriterWrites
    <3>b. \A h \in Gen : h > gen => queue'[h] = queue[h]
      BY <3>a, <1>a, <1>b, PopTypes
    <3>1. gen' = gen /\ reader' = reader /\ \A h \in Gen : h > gen => queue'[h] = queue[h]
      BY <3>a, <3>b
    <3>2. \A h \in Gen : h > gen => link'[h] = link[h]
      BY <2>0, <1>a DEF WriterWrites, LinkTypes
    <3>3. WriterHasLink'
      BY <2>0, <1>a DEF WriterWrites, WriterHasLink
    <3>q. QED
      BY <3>1, <3>2, <3>3, <1>a DEF NothingAhead
  <2>q. QED
    BY <2>1, <2>2, <2>3, <2>4, <2>5, <2>6 DEF TypeOK, LinkTypes
<1>15. CASE \E g \in Gen : WriterFails(g)
  <2>0. PICK g \in Gen : WriterFails(g)
    BY <1>15
  <2>1. stopped' \in BOOLEAN /\ up' \in BOOLEAN
    <3>1. CloseLink \/ UNCHANGED <<up, link>>
      BY <2>0 DEF WriterFails, CloseIf
    <3>2. stopped' = stopped
      BY <2>0 DEF WriterFails
    <3>q. QED
      BY <3>1, <3>2, <1>a, CloseTypes DEF FlagTypes
  <2>2. /\ gen' \in Gen /\ opening' \in {"no", "open", "sleep", "gave up"}
        /\ stopping' \in {"no", "close", "done", "missed"}
    BY <2>0, <1>a DEF WriterFails, FlagTypes
  <2>3. link' \in [Gen -> {"none", "open", "lost", "closing", "closed"}]
    <3>1. CloseLink \/ UNCHANGED <<up, link>>
      BY <2>0 DEF WriterFails, CloseIf
    <3>q. QED
      BY <3>1, <1>a, CloseTypes
  <2>4. queue' \in [Gen -> Seq(Msg \cup {"init", "subscribe", "exit"})]
    BY <2>0, <1>a, <1>b, PopTypes DEF WriterFails
  <2>5. /\ wire' \in [Gen -> Seq(Msg \cup {"init", "subscribe"})] /\ sentOn' \in [Msg -> 0 .. MaxLinks]
    BY <2>0, <1>a DEF WriterFails, LinkTypes
  <2>6. /\ reader' \in [Gen -> ReaderState] /\ writer' \in [Gen -> WriterState]
    BY <2>0, <1>a, NextStates DEF WriterFails
  <2>7. WriterHasLink' /\ NothingAhead'
    <3>a. WriterPops(g) /\ gen' = gen /\ reader' = reader
      BY <2>0 DEF WriterFails
    <3>b. \A h \in Gen : h > gen => queue'[h] = queue[h]
      BY <3>a, <1>a, <1>b, PopTypes
    <3>1. CloseLink \/ UNCHANGED <<up, link>>
      BY <2>0 DEF WriterFails, CloseIf
    <3>2. gen' = gen /\ reader' = reader /\ \A h \in Gen : h > gen => queue'[h] = queue[h]
      BY <3>a, <3>b
    <3>3. \A h \in Gen : h > gen => link'[h] = link[h]
      BY <3>1, <1>a, CloseTypes
    <3>4. WriterHasLink'
      BY <3>1, <3>2, <1>a, CloseTypes DEF WriterHasLink
    <3>q. QED
      BY <3>2, <3>3, <3>4, <1>a DEF NothingAhead
  <2>q. QED
    BY <2>1, <2>2, <2>3, <2>4, <2>5, <2>6, <2>7 DEF TypeOK, FlagTypes, LinkTypes
<1>16. CASE \E g \in Gen : Drained(g)
  <2>0. PICK g \in Gen : Drained(g)
    BY <1>16
  <2>1. FlagTypes'
    BY <2>0, <1>a DEF Drained, FlagTypes
  <2>2. LinkTypes'
    BY <2>0, <1>a DEF Drained, LinkTypes
  <2>3. /\ reader' \in [Gen -> ReaderState] /\ writer' \in [Gen -> WriterState]
    BY <2>0, <1>a, NextStates DEF Drained
  <2>4. WriterHasLink' /\ NothingAhead'
    BY <2>0, <1>a DEF Drained, WriterHasLink, NothingAhead
  <2>q. QED
    BY <2>1, <2>2, <2>3, <2>4 DEF TypeOK
<1>17. CASE \E g \in Gen : DrainFails(g)
  <2>0. PICK g \in Gen : DrainFails(g)
    BY <1>17
  <2>1. stopped' \in BOOLEAN /\ up' \in BOOLEAN
    <3>1. CloseLink \/ UNCHANGED <<up, link>>
      BY <2>0 DEF DrainFails, CloseIf
    <3>2. stopped' = stopped
      BY <2>0 DEF DrainFails
    <3>q. QED
      BY <3>1, <3>2, <1>a, CloseTypes DEF FlagTypes
  <2>2. /\ gen' \in Gen /\ opening' \in {"no", "open", "sleep", "gave up"}
        /\ stopping' \in {"no", "close", "done", "missed"}
    BY <2>0, <1>a DEF DrainFails, FlagTypes
  <2>3. link' \in [Gen -> {"none", "open", "lost", "closing", "closed"}]
    <3>1. CloseLink \/ UNCHANGED <<up, link>>
      BY <2>0 DEF DrainFails, CloseIf
    <3>q. QED
      BY <3>1, <1>a, CloseTypes
  <2>4. queue' \in [Gen -> Seq(Msg \cup {"init", "subscribe", "exit"})]
    BY <2>0, <1>a DEF DrainFails, LinkTypes
  <2>5. /\ wire' \in [Gen -> Seq(Msg \cup {"init", "subscribe"})] /\ sentOn' \in [Msg -> 0 .. MaxLinks]
    BY <2>0, <1>a DEF DrainFails, LinkTypes
  <2>6. /\ reader' \in [Gen -> ReaderState] /\ writer' \in [Gen -> WriterState]
    BY <2>0, <1>a, NextStates DEF DrainFails
  <2>7. WriterHasLink' /\ NothingAhead'
    <3>1. CloseLink \/ UNCHANGED <<up, link>>
      BY <2>0 DEF DrainFails, CloseIf
    <3>2. gen' = gen /\ queue' = queue /\ reader' = reader
      BY <2>0, <1>a DEF DrainFails
    <3>3. \A h \in Gen : h > gen => link'[h] = link[h]
      BY <3>1, <1>a, CloseTypes
    <3>4. WriterHasLink'
      BY <3>1, <3>2, <1>a, CloseTypes DEF WriterHasLink
    <3>q. QED
      BY <3>2, <3>3, <3>4, <1>a DEF NothingAhead
  <2>q. QED
    BY <2>1, <2>2, <2>3, <2>4, <2>5, <2>6, <2>7 DEF TypeOK, FlagTypes, LinkTypes
<1>18. CASE \E m \in Msg : Send(m)
  <2>0. PICK m \in Msg : Send(m)
    BY <1>18
  <2>1. FlagTypes'
    BY <2>0, <1>a DEF Send, FlagTypes
  <2>2. link' \in [Gen -> {"none", "open", "lost", "closing", "closed"}]
    BY <2>0, <1>a DEF Send, LinkTypes
  <2>3. queue' \in [Gen -> Seq(Msg \cup {"init", "subscribe", "exit"})]
    <3>1. queue[gen] \in Seq(Msg \cup {"init", "subscribe", "exit"})
      BY <1>a DEF LinkTypes
    <3>2. Append(queue[gen], m) \in Seq(Msg \cup {"init", "subscribe", "exit"})
      BY <3>1, Appended
    <3>q. QED
      BY <2>0, <3>2, <1>a DEF Send, LinkTypes
  <2>4. /\ wire' \in [Gen -> Seq(Msg \cup {"init", "subscribe"})] /\ sentOn' \in [Msg -> 0 .. MaxLinks]
    BY <2>0, <1>a DEF Send, LinkTypes
  <2>5. /\ reader' \in [Gen -> ReaderState] /\ writer' \in [Gen -> WriterState]
    BY <2>0, <1>a DEF Send
  <2>6. WriterHasLink' /\ NothingAhead'
    <3>1. gen' = gen /\ reader' = reader /\ up' = up /\ link' = link
      BY <2>0 DEF Send
    <3>2. \A g \in Gen : g > gen => queue'[g] = queue[g]
      BY <2>0, <1>a DEF Send, LinkTypes
    <3>q. QED
      BY <3>1, <3>2, <1>a DEF WriterHasLink, NothingAhead
  <2>q. QED
    BY <2>1, <2>2, <2>3, <2>4, <2>5, <2>6 DEF TypeOK, LinkTypes
<1>q. QED
  BY <1>0, <1>1, <1>2, <1>3, <1>4, <1>5, <1>6, <1>7, <1>8, <1>9, <1>10, <1>11, <1>12, <1>13, <1>14, <1>15, <1>16, <1>17, <1>18 DEF Next, Connecting, Closing, ReaderStep, WriterStep

-----------------------------------------------------------------------------
(* One lemma for each other part of the invariant                            *)

\* A coroutine that meets an exception closes the link, or finds it closed.
LEMMA ExceptionCases ==
  ASSUME NEW g \in Gen, TypeOK, ReaderEof(g) \/ WriterFails(g) \/ DrainFails(g)
  PROVE  \/ Connected /\ CloseLink
         \/ UNCHANGED <<up, link>>
<1>1. OnException.at = "close" => Connected
  BY DEF OnException, At
<1>2. GetsOn.at # "close"
  BY DEF GetsOn, At
<1>a. reader \in [Gen -> ReaderState] /\ writer \in [Gen -> WriterState]
  BY DEF TypeOK
<1>3. CASE ReaderEof(g)
  BY <1>1, <1>3, <1>a DEF ReaderEof, CloseIf
<1>4. CASE WriterFails(g)
  BY <1>1, <1>2, <1>4, <1>a DEF WriterFails, CloseIf
<1>5. CASE DrainFails(g)
  BY <1>1, <1>5, <1>a DEF DrainFails, CloseIf
<1>q. QED
  BY <1>3, <1>4, <1>5

\* The end of connect() starts two coroutines, or none, and ends its caller.
LEMMA OpenedEffect ==
  ASSUME TypeOK, Opened \/ GivesUp
  PROVE  \A h \in Gen :
           /\ \/ reader'[h] = reader[h] /\ (Opened => h # gen)
              \/ reader'[h].at = "done" /\ (Opened => h # gen)
              \/ Opened /\ h = gen /\ reader'[h] = At("ready", gen)
           /\ \/ writer'[h] = writer[h] /\ (Opened => h # gen)
              \/ writer'[h].at = "done" /\ (Opened => h # gen)
              \/ Opened /\ h = gen /\ writer'[h] = At("ready", gen)
<1>1. /\ Returned(reader) \in [Gen -> ReaderState] /\ Returned(writer) \in [Gen -> WriterState]
      /\ gen \in Gen
  BY ReturnedTypes, GenTypes
<1>2. CASE Opened
  <2>1. \A h \in Gen : h # gen => reader'[h] = Returned(reader)[h] /\ writer'[h] = Returned(writer)[h]
    BY <1>1, <1>2 DEF Opened
  <2>2. reader'[gen] = At("ready", gen) /\ writer'[gen] = At("ready", gen)
    BY <1>1, <1>2 DEF Opened
  <2>3. ~GivesUp
    BY <1>2 DEF Opened, GivesUp
  <2>q. QED
    BY <2>1, <2>2, <2>3, <1>2, ReturnedTypes DEF At
<1>3. CASE GivesUp
  <2>1. \A h \in Gen : reader'[h] = Returned(reader)[h] /\ writer'[h] = Returned(writer)[h]
    BY <1>3 DEF GivesUp
  <2>2. ~Opened
    BY <1>3 DEF Opened, GivesUp
  <2>q. QED
    BY <2>1, <2>2, <1>3, ReturnedTypes DEF At
<1>q. QED
  BY <1>2, <1>3

\* What waits in a queue after a message was taken waited there before.
LEMMA PopElements ==
  ASSUME TypeOK, NEW g \in Gen, WriterPops(g),
         \A h \in Gen : writer[h].at \in {"get", "drain"} => writer[h].on = h
  PROVE  \A h \in Gen : \A i \in DOMAIN queue'[h] :
           i \in Nat \ {0} /\ \E j \in DOMAIN queue[h] : queue'[h][i] = queue[h][j]
<1>1. queue[g] # <<>> /\ queue' = [queue EXCEPT ![g] = Tail(@)]
  BY PopTypes
<1>2. queue \in [Gen -> Seq(Msg \cup {"init", "subscribe", "exit"})]
  BY DEF TypeOK, LinkTypes
<1>3. \A h \in Gen : queue[h] \in Seq(Msg \cup {"init", "subscribe", "exit"})
  BY <1>2
<1> TAKE h \in Gen
<1>4. CASE h = g
  <2>1. queue'[h] = Tail(queue[g])
    BY <1>1, <1>2, <1>4
  <2>2. /\ DOMAIN queue[g] = 1 .. Len(queue[g]) /\ DOMAIN Tail(queue[g]) = 1 .. Len(queue[g]) - 1
        /\ \A i \in 1 .. Len(queue[g]) - 1 : Tail(queue[g])[i] = queue[g][i + 1]
        /\ Len(queue[g]) \in Nat \ {0}
    BY <1>1, <1>3, Popped
  <2>3. \A i \in 1 .. Len(queue[g]) - 1 : i \in Nat \ {0} /\ i + 1 \in 1 .. Len(queue[g])
    BY <2>2
  <2>q. QED
    BY <2>1, <2>2, <2>3, <1>4
<1>5. CASE h # g
  <2>1. queue'[h] = queue[h]
    BY <1>1, <1>2, <1>5
  <2>2. DOMAIN queue[h] = 1 .. Len(queue[h]) /\ Len(queue[h]) \in Nat
    BY <1>3
  <2>q. QED
    BY <2>1, <2>2
<1>q. QED
  BY <1>4, <1>5

\* After an append there is what was there, and what was appended.
LEMMA AppendElements ==
  ASSUME NEW S, NEW s \in Seq(S), NEW e \in S
  PROVE  \A i \in DOMAIN Append(s, e) :
           \/ i \in DOMAIN s /\ Append(s, e)[i] = s[i]
           \/ i = Len(s) + 1 /\ Append(s, e)[i] = e
<1>1. \A i \in 1 .. Len(s) + 1 : i \in 1 .. Len(s) \/ i = Len(s) + 1
  BY Appended
<1>q. QED
  BY <1>1, Appended

\* Only connect() brings a link up, only with the event clear, and a stop that has
\* begun to close keeps it from being called.
LEMMA PhasesStep ==
  ASSUME Base, [Next]_vars
  PROVE  Phases'
<1> USE GenTypes
<1>a. /\ gen \in Gen /\ WriterHasLink /\ NothingAhead /\ TypeOK
      /\ link \in [Gen -> {"none", "open", "lost", "closing", "closed"}]
      /\ queue \in [Gen -> Seq(Msg \cup {"init", "subscribe", "exit"})]
      /\ reader \in [Gen -> ReaderState] /\ writer \in [Gen -> WriterState]
  BY DEF Base, TypeOK, LinkTypes
<1>b. Phases /\ Alone /\ Links /\ Owners /\ NoExit
  BY DEF Base
<1>c. \A h \in Gen : writer[h].at \in {"get", "drain"} => writer[h].on = h
  BY <1>b DEF Owners
<1>1. CASE UNCHANGED vars
  BY <1>1, <1>a, <1>b DEF vars, Phases
<1>2. CASE Opened
  BY <1>2, <1>a, <1>b DEF Opened, Phases
<1>3. CASE Refused
  BY <1>3, <1>a, <1>b DEF Refused, Phases
<1>4. CASE SleepEnds
  BY <1>4, <1>a, <1>b DEF SleepEnds, Phases
<1>5. CASE GivesUp
  BY <1>5, <1>a, <1>b DEF GivesUp, Phases
<1>6. CASE StopIsClosed
  BY <1>6, <1>a, <1>b DEF StopIsClosed, Phases
<1>7. CASE BusCloses
  BY <1>7, <1>a, <1>b DEF BusCloses, Phases
<1>8. CASE LostIsClosed
  <2>1. gen' = gen + 1 /\ gen' \in Gen /\ ~up /\ up' = up /\ stopping' = stopping /\ stopping \in {"no", "missed"}
    BY <1>8, <1>a, <1>b DEF LostIsClosed, Reconnect, Alone
  <2>2. stopped' = FALSE /\ opening' = "open"
    BY <1>8 DEF LostIsClosed, Reconnect
  <2>3. link[gen'] = "none" /\ queue[gen'] = <<>> /\ gen' # gen
    BY <2>1, <1>a DEF NothingAhead
  <2>4. link'[gen'] = "none" /\ queue'[gen'] = <<>>
    BY <1>8, <2>1, <2>3, <1>a, UnblockTypes DEF LostIsClosed
  <2>q. QED
    BY <2>1, <2>2, <2>4 DEF Phases
<1>9. CASE Stop
  BY <1>9, <1>a, <1>b DEF Stop, CloseLink, Connected, Phases
<1>10. ASSUME NEW g \in Gen, ReaderStarts(g) PROVE Phases'
  BY <1>10, <1>a, <1>b DEF ReaderStarts, Phases
<1>11. ASSUME NEW g \in Gen, ReaderGets(g) PROVE Phases'
  BY <1>11, <1>a, <1>b DEF ReaderGets, Phases
<1>12. ASSUME NEW g \in Gen, WriterStarts(g) PROVE Phases'
  BY <1>12, <1>a, <1>b DEF WriterStarts, Phases
<1>13. ASSUME NEW g \in Gen, WriterWrites(g) PROVE Phases'
  BY <1>13, <1>a, <1>b DEF WriterWrites, Phases
<1>14. ASSUME NEW g \in Gen, Drained(g) PROVE Phases'
  BY <1>14, <1>a, <1>b DEF Drained, Phases
<1>15. ASSUME NEW g \in Gen, ReaderEof(g) PROVE Phases'
  <2>1. \/ Connected /\ CloseLink
        \/ UNCHANGED <<up, link>>
    BY <1>15, <1>a, ExceptionCases
  <2>2. UNCHANGED <<stopped, gen, opening, stopping>> /\ (opening \in {"open", "sleep"} => queue' = queue)
    BY <1>15 DEF ReaderEof
  <2>3. CASE Connected /\ CloseLink
    <3>1. up /\ up' = FALSE /\ link'[gen] = "closing" /\ opening = "no"
      BY <2>3, <1>a, <1>b DEF Connected, CloseLink, Phases
    <3>q. QED
      BY <3>1, <2>2 DEF Phases
  <2>4. CASE UNCHANGED <<up, link>>
    BY <2>2, <2>4, <1>b DEF Phases
  <2>q. QED
    BY <2>1, <2>3, <2>4
<1>16. ASSUME NEW g \in Gen, WriterExits(g) PROVE Phases'
  <2>2. UNCHANGED <<gen, opening, stopping>> /\ (opening \in {"open", "sleep"} => queue'[gen] = queue[gen])
    <3>1. WriterPops(g) /\ UNCHANGED <<gen, opening, stopping>>
      BY <1>16 DEF WriterExits
    <3>2. queue[g] # <<>> /\ \A h \in Gen \ {g} : queue'[h] = queue[h]
      BY <3>1, <1>a, <1>c, PopTypes
    <3>q. QED
      BY <3>1, <3>2, <1>a, <1>b DEF Phases
  <2>3. CASE Connected
    <3>1. up' = FALSE /\ link'[gen] = "closed" /\ opening = "no"
      BY <1>16, <2>3, <1>a, <1>b DEF WriterExits, Connected, Phases
    <3>q. QED
      BY <3>1, <2>2 DEF Phases
  <2>4. CASE ~Connected
    <3>1. UNCHANGED <<up, stopped, link>>
      BY <1>16, <2>4 DEF WriterExits
    <3>q. QED
      BY <3>1, <2>2, <1>b DEF Phases
  <2>q. QED
    BY <2>3, <2>4
<1>17. ASSUME NEW g \in Gen, WriterFails(g) PROVE Phases'
  <2>2. UNCHANGED <<gen, opening, stopped, stopping>> /\ (opening \in {"open", "sleep"} => queue'[gen] = queue[gen])
    <3>1. WriterPops(g) /\ UNCHANGED <<gen, opening, stopped, stopping>>
      BY <1>17 DEF WriterFails
    <3>2. queue[g] # <<>> /\ \A h \in Gen \ {g} : queue'[h] = queue[h]
      BY <3>1, <1>a, <1>c, PopTypes
    <3>q. QED
      BY <3>1, <3>2, <1>a, <1>b DEF Phases
  <2>1. \/ Connected /\ CloseLink
        \/ UNCHANGED <<up, link>>
    BY <1>17, <1>a, ExceptionCases
  <2>3. CASE Connected /\ CloseLink
    <3>1. up /\ up' = FALSE /\ link'[gen] = "closing" /\ opening = "no"
      BY <2>3, <1>a, <1>b DEF Connected, CloseLink, Phases
    <3>q. QED
      BY <3>1, <2>2 DEF Phases
  <2>4. CASE UNCHANGED <<up, link>>
    BY <2>2, <2>4, <1>b DEF Phases
  <2>q. QED
    BY <2>1, <2>3, <2>4
<1>18. ASSUME NEW g \in Gen, DrainFails(g) PROVE Phases'
  <2>1. \/ Connected /\ CloseLink
        \/ UNCHANGED <<up, link>>
    BY <1>18, <1>a, ExceptionCases
  <2>2. UNCHANGED <<stopped, gen, opening, stopping>> /\ (opening \in {"open", "sleep"} => queue' = queue)
    BY <1>18 DEF DrainFails
  <2>3. CASE Connected /\ CloseLink
    <3>1. up /\ up' = FALSE /\ link'[gen] = "closing" /\ opening = "no"
      BY <2>3, <1>a, <1>b DEF Connected, CloseLink, Phases
    <3>q. QED
      BY <3>1, <2>2 DEF Phases
  <2>4. CASE UNCHANGED <<up, link>>
    BY <2>2, <2>4, <1>b DEF Phases
  <2>q. QED
    BY <2>1, <2>3, <2>4
<1>19. ASSUME NEW m \in Msg, Send(m) PROVE Phases'
  BY <1>19, <1>a, <1>b DEF Send, Accepts, Connected, Phases
<1>q. QED
  BY <1>1, <1>2, <1>3, <1>4, <1>5, <1>6, <1>7, <1>8, <1>9, <1>10, <1>11, <1>12, <1>13, <1>14, <1>15, <1>16, <1>17, <1>18, <1>19 DEF Next, Connecting, Closing, ReaderStep, WriterStep

\* Who finds a connection takes self.writer away before anyone else can.
LEMMA AloneStep ==
  ASSUME Base, [Next]_vars
  PROVE  Alone'
<1> USE GenTypes
<1>a. /\ gen \in Gen /\ WriterHasLink /\ NothingAhead /\ TypeOK
      /\ link \in [Gen -> {"none", "open", "lost", "closing", "closed"}]
      /\ queue \in [Gen -> Seq(Msg \cup {"init", "subscribe", "exit"})]
      /\ reader \in [Gen -> ReaderState] /\ writer \in [Gen -> WriterState]
  BY DEF Base, TypeOK, LinkTypes
<1>d. stopping \in {"no", "close", "done", "missed"}
  BY DEF Base, TypeOK, FlagTypes
<1>b. Phases /\ Alone /\ Links /\ Owners /\ NoExit
  BY DEF Base
<1>1. CASE UNCHANGED vars
  BY <1>1, <1>a, <1>b DEF vars, Alone
<1>2. CASE Refused \/ SleepEnds \/ StopIsClosed \/ BusCloses
  BY <1>2, <1>a, <1>b DEF Refused, SleepEnds, StopIsClosed, BusCloses, Alone
<1>3. CASE Opened
  <2>1. \A h \in Gen : reader[h].at # "close" /\ writer[h].at # "close"
    BY <1>3, <1>b DEF Opened, Alone
  <2>2. \A h \in Gen : reader'[h].at # "close" /\ writer'[h].at # "close"
    <3>1. TypeOK /\ (Opened \/ GivesUp)
      BY <1>3, <1>a
    <3>2. TAKE h \in Gen
    <3>3. reader'[h] = reader[h] \/ reader'[h].at = "done" \/ reader'[h] = At("ready", gen)
      BY <3>1, OpenedEffect
    <3>4. writer'[h] = writer[h] \/ writer'[h].at = "done" \/ writer'[h] = At("ready", gen)
      BY <3>1, OpenedEffect
    <3>q. QED
      BY <2>1, <3>3, <3>4 DEF At
  <2>q. QED
    BY <2>2 DEF Alone
<1>4. CASE GivesUp
  <2>1. \A h \in Gen : reader[h].at # "close" /\ writer[h].at # "close"
    BY <1>4, <1>b DEF GivesUp, Alone
  <2>2. \A h \in Gen : reader'[h].at # "close" /\ writer'[h].at # "close"
    <3>1. TypeOK /\ (Opened \/ GivesUp)
      BY <1>4, <1>a
    <3>2. TAKE h \in Gen
    <3>3. reader'[h] = reader[h] \/ reader'[h].at = "done" \/ reader'[h] = At("ready", gen)
      BY <3>1, OpenedEffect
    <3>4. writer'[h] = writer[h] \/ writer'[h].at = "done" \/ writer'[h] = At("ready", gen)
      BY <3>1, OpenedEffect
    <3>q. QED
      BY <2>1, <3>3, <3>4 DEF At
  <2>q. QED
    BY <2>2 DEF Alone
<1>5. CASE LostIsClosed
  <2>1. CASE \E g \in Gen : reader[g].at = "close" /\ reader' = [reader EXCEPT ![g] = At("connect", 0)] /\ UNCHANGED writer
    <3>1. \A h \in Gen : reader'[h].at # "close" /\ writer'[h].at # "close"
      BY <2>1, <1>a, <1>b DEF Alone, At
    <3>q. QED
      BY <3>1 DEF Alone
  <2>2. CASE \E g \in Gen : writer[g].at = "close" /\ writer' = [writer EXCEPT ![g] = At("connect", 0)] /\ UNCHANGED reader
    <3>1. \A h \in Gen : reader'[h].at # "close" /\ writer'[h].at # "close"
      BY <2>2, <1>a, <1>b DEF Alone, At
    <3>q. QED
      BY <3>1 DEF Alone
  <2>q. QED
    BY <1>5, <2>1, <2>2 DEF LostIsClosed
<1>6. CASE Stop
  BY <1>6, <1>a, <1>b DEF Stop, CloseLink, Connected, Alone
<1>7. ASSUME NEW g \in Gen, ReaderStarts(g) PROVE Alone'
  <2>1. ReadsOn.at # "close"
    BY DEF ReadsOn, At
  <2>q. QED
    BY <1>7, <2>1, <1>a, <1>b DEF ReaderStarts, Alone
<1>8. ASSUME NEW g \in Gen, ReaderGets(g) PROVE Alone'
  <2>1. ReadsOn.at # "close"
    BY DEF ReadsOn, At
  <2>q. QED
    BY <1>8, <2>1, <1>a, <1>b DEF ReaderGets, Alone
<1>9. ASSUME NEW g \in Gen, ReaderEof(g) PROVE Alone'
  <2>1. CASE Connected
    <3>1. up /\ CloseLink /\ OnException = At("close", 0)
      BY <1>9, <2>1, <1>a DEF ReaderEof, OnException, Connected, CloseIf, At
    <3>2. /\ up' = FALSE /\ opening' = "no" /\ stopping' \in {"no", "missed"}
          /\ \A h \in Gen : reader[h].at # "close" /\ writer[h].at # "close"
      BY <1>9, <3>1, <1>b, <1>d DEF ReaderEof, CloseLink, Alone, Phases
    <3>3. \A h \in Gen : reader'[h].at = "close" => h = g
      BY <1>9, <3>1, <3>2, <1>a DEF ReaderEof
    <3>4. \A h \in Gen : writer'[h].at # "close"
      BY <1>9, <3>2 DEF ReaderEof
    <3>q. QED
      BY <3>2, <3>3, <3>4 DEF Alone
  <2>2. CASE ~Connected
    <3>1. OnException = At("done", 0) /\ UNCHANGED <<up, link>>
      BY <1>9, <2>2, <1>a DEF ReaderEof, OnException, CloseIf, At
    <3>q. QED
      BY <1>9, <3>1, <1>a, <1>b DEF ReaderEof, Alone, At
  <2>q. QED
    BY <2>1, <2>2
<1>10. ASSUME NEW g \in Gen, WriterStarts(g) PROVE Alone'
  <2>1. GetsOn.at # "close"
    BY DEF GetsOn, At
  <2>q. QED
    BY <1>10, <2>1, <1>a, <1>b DEF WriterStarts, Alone
<1>11. ASSUME NEW g \in Gen, WriterExits(g) PROVE Alone'
  BY <1>11, <1>a, <1>b DEF WriterExits, Alone, At
<1>12. ASSUME NEW g \in Gen, WriterWrites(g) PROVE Alone'
  <2>1. GetsOn.at # "close" /\ At("drain", gen).at # "close"
    BY DEF GetsOn, At
  <2>q. QED
    BY <1>12, <2>1, <1>a, <1>b DEF WriterWrites, Alone
<1>13. ASSUME NEW g \in Gen, WriterFails(g) PROVE Alone'
  <2>1. GetsOn.at # "close"
    BY DEF GetsOn, At
  <2>2. CASE writer' = [writer EXCEPT ![g] = OnException] /\ Connected
    <3>1. up /\ CloseLink /\ OnException = At("close", 0)
      BY <1>13, <2>2, <1>a DEF WriterFails, OnException, Connected, CloseIf, At
    <3>2. /\ up' = FALSE /\ opening' = "no" /\ stopping' \in {"no", "missed"}
          /\ \A h \in Gen : reader[h].at # "close" /\ writer[h].at # "close"
      BY <1>13, <3>1, <1>b, <1>d DEF WriterFails, CloseLink, Alone, Phases
    <3>3. \A h \in Gen : writer'[h].at = "close" => h = g
      BY <1>13, <2>2, <3>1, <3>2, <1>a DEF WriterFails
    <3>4. \A h \in Gen : reader'[h].at # "close"
      BY <1>13, <3>2 DEF WriterFails
    <3>q. QED
      BY <3>2, <3>3, <3>4 DEF Alone
  <2>3. CASE writer' = [writer EXCEPT ![g] = OnException] /\ ~Connected
    <3>1. OnException = At("done", 0) /\ UNCHANGED <<up, link>>
      BY <1>13, <2>3, <1>a DEF WriterFails, OnException, CloseIf, At
    <3>q. QED
      BY <1>13, <2>3, <3>1, <1>a, <1>b DEF WriterFails, Alone, At
  <2>4. CASE writer' = [writer EXCEPT ![g] = GetsOn]
    <3>1. UNCHANGED <<up, link>>
      BY <1>13, <2>1, <2>4, <1>a DEF WriterFails, CloseIf
    <3>q. QED
      BY <1>13, <2>1, <2>4, <3>1, <1>a, <1>b DEF WriterFails, Alone
  <2>q. QED
    BY <1>13, <2>2, <2>3, <2>4 DEF WriterFails
<1>14. ASSUME NEW g \in Gen, Drained(g) PROVE Alone'
  <2>1. GetsOn.at # "close"
    BY DEF GetsOn, At
  <2>q. QED
    BY <1>14, <2>1, <1>a, <1>b DEF Drained, Alone
<1>15. ASSUME NEW g \in Gen, DrainFails(g) PROVE Alone'
  <2>1. CASE Connected
    <3>1. up /\ CloseLink /\ OnException = At("close", 0)
      BY <1>15, <2>1, <1>a DEF DrainFails, OnException, Connected, CloseIf, At
    <3>2. /\ up' = FALSE /\ opening' = "no" /\ stopping' \in {"no", "missed"}
          /\ \A h \in Gen : reader[h].at # "close" /\ writer[h].at # "close"
      BY <1>15, <3>1, <1>b, <1>d DEF DrainFails, CloseLink, Alone, Phases
    <3>3. \A h \in Gen : writer'[h].at = "close" => h = g
      BY <1>15, <3>1, <3>2, <1>a DEF DrainFails
    <3>4. \A h \in Gen : reader'[h].at # "close"
      BY <1>15, <3>2 DEF DrainFails
    <3>q. QED
      BY <3>2, <3>3, <3>4 DEF Alone
  <2>2. CASE ~Connected
    <3>1. OnException = At("done", 0) /\ UNCHANGED <<up, link>>
      BY <1>15, <2>2, <1>a DEF DrainFails, OnException, CloseIf, At
    <3>q. QED
      BY <1>15, <3>1, <1>a, <1>b DEF DrainFails, Alone, At
  <2>q. QED
    BY <2>1, <2>2
<1>16. ASSUME NEW m \in Msg, Send(m) PROVE Alone'
  BY <1>16, <1>a, <1>b DEF Send, Alone
<1>q. QED
  BY <1>1, <1>2, <1>3, <1>4, <1>5, <1>6, <1>7, <1>8, <1>9, <1>10, <1>11, <1>12, <1>13, <1>14, <1>15, <1>16 DEF Next, Connecting, Closing, ReaderStep, WriterStep

\* The next link is opened only when the last one is closed.
LEMMA LinksStep ==
  ASSUME Base, [Next]_vars
  PROVE  Links'
<1> USE GenTypes
<1>a. /\ gen \in Gen /\ WriterHasLink /\ NothingAhead /\ TypeOK
      /\ link \in [Gen -> {"none", "open", "lost", "closing", "closed"}]
      /\ queue \in [Gen -> Seq(Msg \cup {"init", "subscribe", "exit"})]
      /\ reader \in [Gen -> ReaderState] /\ writer \in [Gen -> WriterState]
  BY DEF Base, TypeOK, LinkTypes
<1>b. Phases /\ Alone /\ Links /\ Owners /\ NoExit
  BY DEF Base
<1>1. CASE UNCHANGED vars
  BY <1>1, <1>a, <1>b DEF vars, Links
<1>2. CASE Opened \/ Refused \/ SleepEnds \/ GivesUp \/ StopIsClosed \/ BusCloses
  BY <1>2, <1>a, <1>b DEF Opened, Refused, SleepEnds, GivesUp, StopIsClosed, BusCloses, Links
<1>3. CASE LostIsClosed
  <2>1. gen' = gen + 1 /\ gen' \in Gen /\ link' = [link EXCEPT ![gen] = "closed"]
    BY <1>3, <1>a DEF LostIsClosed, Reconnect
  <2>q. QED
    BY <2>1, <1>a, <1>b DEF Links
<1>4. CASE Stop
  <2>1. gen' = gen /\ (CloseLink \/ UNCHANGED <<up, link>>)
    BY <1>4 DEF Stop
  <2>q. QED
    BY <2>1, <1>a, <1>b, CloseTypes DEF Links
<1>5. ASSUME NEW g \in Gen, ReaderStarts(g) \/ ReaderGets(g) \/ WriterStarts(g) \/ WriterExits(g)
     PROVE  Links'
  BY <1>5, <1>a, <1>b DEF ReaderStarts, ReaderGets, WriterStarts, WriterExits, Links
<1>6. ASSUME NEW g \in Gen, WriterWrites(g) \/ Drained(g)
     PROVE  Links'
  BY <1>6, <1>a, <1>b DEF WriterWrites, Drained, Links
<1>7. ASSUME NEW g \in Gen, ReaderEof(g) PROVE Links'
  <2>1. gen' = gen /\ (CloseLink \/ UNCHANGED <<up, link>>)
    BY <1>7, <1>a, ExceptionCases DEF ReaderEof
  <2>q. QED
    BY <2>1, <1>a, <1>b, CloseTypes DEF Links
<1>8. ASSUME NEW g \in Gen, WriterFails(g) PROVE Links'
  <2>1. gen' = gen /\ (CloseLink \/ UNCHANGED <<up, link>>)
    BY <1>8, <1>a, ExceptionCases DEF WriterFails
  <2>q. QED
    BY <2>1, <1>a, <1>b, CloseTypes DEF Links
<1>9. ASSUME NEW g \in Gen, DrainFails(g) PROVE Links'
  <2>1. gen' = gen /\ (CloseLink \/ UNCHANGED <<up, link>>)
    BY <1>9, <1>a, ExceptionCases DEF DrainFails
  <2>q. QED
    BY <2>1, <1>a, <1>b, CloseTypes DEF Links
<1>10. ASSUME NEW m \in Msg, Send(m) PROVE Links'
  BY <1>10, <1>a, <1>b DEF Send, Links
<1>q. QED
  BY <1>1, <1>2, <1>3, <1>4, <1>5, <1>6, <1>7, <1>8, <1>9, <1>10 DEF Next, Connecting, Closing, ReaderStep, WriterStep

\* A coroutine that is resumed late finds either no connection or its own.
LEMMA OwnersStep ==
  ASSUME Base, [Next]_vars
  PROVE  Owners'
<1> USE GenTypes
<1>a. /\ gen \in Gen /\ WriterHasLink /\ NothingAhead /\ TypeOK
      /\ link \in [Gen -> {"none", "open", "lost", "closing", "closed"}]
      /\ queue \in [Gen -> Seq(Msg \cup {"init", "subscribe", "exit"})]
      /\ reader \in [Gen -> ReaderState] /\ writer \in [Gen -> WriterState]
  BY DEF Base, TypeOK, LinkTypes
<1>b. Phases /\ Alone /\ Links /\ Owners /\ NoExit
  BY DEF Base
<1>c. \A h \in Gen : writer[h].at \in {"get", "drain"} => writer[h].on = h
  BY <1>b DEF Owners
<1>o. /\ \A h \in Gen : reader[h].at = "read" => reader[h].on = h /\ link[h] # "none"
      /\ up => \A h \in Gen : reader[h].at = "ready" \/ writer[h].at = "ready" => h = gen
      /\ up => \A h \in Gen \ {gen} : writer[h].at = "get" => queue[h] = <<>>
  BY <1>b DEF Owners
<1> DEFINE Reads  == \A h \in Gen : reader[h].at = "read" => reader[h].on = h /\ link[h] # "none"
           Takes  == \A h \in Gen : writer[h].at \in {"get", "drain"} => writer[h].on = h
           Ready  == up => \A h \in Gen : reader[h].at = "ready" \/ writer[h].at = "ready" => h = gen
           Silent == up => \A h \in Gen \ {gen} : writer[h].at = "get" => queue[h] = <<>>
<1>1. CASE UNCHANGED vars
  BY <1>1, <1>a, <1>b, <1>c, <1>o DEF vars, Owners
<1>2. CASE Refused \/ SleepEnds
  BY <1>2, <1>a, <1>c, <1>o DEF Refused, SleepEnds, Owners
<1>3. CASE Opened
  <2>0. \A h \in Gen : /\ reader[h].at # "ready" /\ writer[h].at # "ready"
                       /\ writer[h].at = "get" => queue[h] = <<>>
    BY <1>3, <1>c DEF Opened, Runnable, ReaderRunnable, WriterRunnable
  <2>5. /\ gen' = gen /\ \A h \in Gen \ {gen} : queue'[h] = queue[h]
        /\ \A h \in Gen : link[h] # "none" => link'[h] # "none"
    BY <1>3, <1>a DEF Opened
  <2>6. \A h \in Gen : \/ reader'[h] = reader[h] \/ reader'[h].at = "done"
                       \/ h = gen /\ reader'[h] = At("ready", gen)
    BY <1>3, <1>a, OpenedEffect
  <2>7. \A h \in Gen : \/ writer'[h] = writer[h] \/ writer'[h].at = "done"
                       \/ h = gen /\ writer'[h] = At("ready", gen)
    BY <1>3, <1>a, OpenedEffect
  <2>1. Reads'
    BY <2>5, <2>6, <1>o DEF At
  <2>2. Takes'
    BY <2>7, <1>c DEF At
  <2>3. Ready'
    BY <2>0, <2>5, <2>6, <2>7 DEF At
  <2>4. Silent'
    BY <2>0, <2>5, <2>7 DEF At
  <2>q. QED
    BY <2>1, <2>2, <2>3, <2>4 DEF Owners
<1>4. CASE GivesUp
  <2>0. ~up /\ ~up' /\ link' = link
    BY <1>4, <1>b DEF GivesUp, Phases
  <2>6. \A h \in Gen : reader'[h] = reader[h] \/ reader'[h].at \in {"done", "ready"}
    BY <1>4, <1>a, OpenedEffect DEF At
  <2>7. \A h \in Gen : writer'[h] = writer[h] \/ writer'[h].at \in {"done", "ready"}
    BY <1>4, <1>a, OpenedEffect DEF At
  <2>1. Reads'
    BY <2>0, <2>6, <1>o
  <2>2. Takes'
    BY <2>7, <1>c
  <2>3. Ready'
    BY <2>0
  <2>4. Silent'
    BY <2>0
  <2>q. QED
    BY <2>1, <2>2, <2>3, <2>4 DEF Owners
<1>5. CASE LostIsClosed
  <2>0. ~up /\ ~up'
    BY <1>5, <1>b DEF LostIsClosed, Alone
  <2>5. \A h \in Gen : /\ reader'[h] = reader[h] \/ reader'[h].at = "connect"
                       /\ writer'[h] = writer[h] \/ writer'[h].at = "connect"
    BY <1>5, <1>a DEF LostIsClosed, At
  <2>6. \A h \in Gen : link'[h] = link[h] \/ link'[h] = "closed"
    BY <1>5, <1>a DEF LostIsClosed
  <2>1. Reads'
    BY <2>5, <2>6, <1>o
  <2>2. Takes'
    BY <2>5, <1>c
  <2>3. Ready'
    BY <2>0
  <2>4. Silent'
    BY <2>0
  <2>q. QED
    BY <2>1, <2>2, <2>3, <2>4 DEF Owners
<1>6. CASE Stop
  <2>0. CloseLink \/ UNCHANGED <<up, link>>
    BY <1>6 DEF Stop
  <2>5. /\ up' => up
        /\ \A h \in Gen : link[h] # "none" => link'[h] # "none"
    BY <2>0, <1>a, CloseTypes
  <2>1. Reads'
    BY <1>6, <2>5, <1>o DEF Stop
  <2>2. Takes'
    BY <1>6, <1>c DEF Stop
  <2>3. Ready'
    BY <1>6, <2>5, <1>o DEF Stop
  <2>4. Silent'
    BY <1>6, <2>5, <1>o DEF Stop
  <2>q. QED
    BY <2>1, <2>2, <2>3, <2>4 DEF Owners
<1>7. CASE StopIsClosed
  <2>0. ~up /\ ~up'
    BY <1>7, <1>b DEF StopIsClosed, Phases
  <2>1. Reads'
    BY <1>7, <1>a, <1>o DEF StopIsClosed
  <2>2. Takes'
    BY <1>7, <1>c DEF StopIsClosed
  <2>3. Ready'
    BY <2>0
  <2>4. Silent'
    BY <2>0
  <2>q. QED
    BY <2>1, <2>2, <2>3, <2>4 DEF Owners
<1>8. CASE BusCloses
  <2>1. Reads'
    BY <1>8, <1>a, <1>c, <1>o DEF BusCloses
  <2>2. Takes'
    BY <1>8, <1>c DEF BusCloses
  <2>3. Ready'
    BY <1>8, <1>o DEF BusCloses
  <2>4. Silent'
    BY <1>8, <1>o DEF BusCloses
  <2>q. QED
    BY <2>1, <2>2, <2>3, <2>4 DEF Owners
<1>9. ASSUME NEW g \in Gen, ReaderStarts(g) PROVE Owners'
  <2>0. ReadsOn.at \in {"read", "done"} /\ (ReadsOn.at = "read" => up /\ ReadsOn.on = gen)
    BY DEF ReadsOn, At, Connected
  <2>5. up => link[gen] # "none"
    BY <1>a DEF WriterHasLink
  <2>1. Reads'
    BY <1>9, <2>0, <2>5, <1>a, <1>o DEF ReaderStarts
  <2>2. Takes'
    BY <1>9, <1>c DEF ReaderStarts
  <2>3. Ready'
    BY <1>9, <2>0, <1>a, <1>o DEF ReaderStarts
  <2>4. Silent'
    BY <1>9, <1>o DEF ReaderStarts
  <2>q. QED
    BY <2>1, <2>2, <2>3, <2>4 DEF Owners
<1>10. ASSUME NEW g \in Gen, ReaderGets(g) PROVE Owners'
  <2>0. ReadsOn.at \in {"read", "done"} /\ (ReadsOn.at = "read" => ReadsOn.on = gen)
    BY DEF ReadsOn, At
  <2>5. g = gen /\ link[gen] # "none"
    BY <1>10, <1>a, <1>b, <1>o DEF ReaderGets, Over, Links
  <2>1. Reads'
    BY <1>10, <2>0, <2>5, <1>a, <1>o DEF ReaderGets
  <2>2. Takes'
    BY <1>10, <1>c DEF ReaderGets
  <2>3. Ready'
    BY <1>10, <2>0, <1>a, <1>o DEF ReaderGets
  <2>4. Silent'
    BY <1>10, <1>o DEF ReaderGets
  <2>q. QED
    BY <2>1, <2>2, <2>3, <2>4 DEF Owners
<1>11. ASSUME NEW g \in Gen, ReaderEof(g) PROVE Owners'
  <2>0. OnException.at \in {"close", "done"} /\ (CloseLink \/ UNCHANGED <<up, link>>)
    BY <1>11, <1>a, ExceptionCases DEF OnException, At
  <2>5. /\ up' => up
        /\ \A h \in Gen : link[h] # "none" => link'[h] # "none"
    BY <2>0, <1>a, CloseTypes DEF Phases
  <2>1. Reads'
    BY <1>11, <2>0, <2>5, <1>a, <1>o DEF ReaderEof
  <2>2. Takes'
    BY <1>11, <1>c DEF ReaderEof
  <2>3. Ready'
    BY <1>11, <2>0, <2>5, <1>a, <1>o DEF ReaderEof
  <2>4. Silent'
    BY <1>11, <2>5, <1>o DEF ReaderEof
  <2>q. QED
    BY <2>1, <2>2, <2>3, <2>4 DEF Owners
<1>12. ASSUME NEW g \in Gen, WriterStarts(g) PROVE Owners'
  <2>0. GetsOn.at \in {"get", "done"} /\ (GetsOn.at = "get" => up /\ GetsOn.on = gen)
    BY DEF GetsOn, At, Connected
  <2>1. Reads'
    BY <1>12, <1>o DEF WriterStarts
  <2>2. Takes'
    BY <1>12, <2>0, <1>a, <1>c, <1>o DEF WriterStarts
  <2>3. Ready'
    BY <1>12, <2>0, <1>a, <1>o DEF WriterStarts
  <2>4. Silent'
    BY <1>12, <2>0, <1>a, <1>o DEF WriterStarts
  <2>q. QED
    BY <2>1, <2>2, <2>3, <2>4 DEF Owners
<1>13. ASSUME NEW g \in Gen, WriterExits(g) PROVE Owners'
  <2>0. \A h \in Gen \ {g} : queue'[h] = queue[h] /\ writer'[h] = writer[h]
    BY <1>13, <1>a, <1>c, PopTypes DEF WriterExits
  <2>5. writer'[g].at = "done" /\ reader' = reader /\ gen' = gen
    BY <1>13, <1>a DEF WriterExits, At
  <2>6. /\ up' => up
        /\ \A h \in Gen : link[h] # "none" => link'[h] # "none"
    BY <1>13, <1>a DEF WriterExits
  <2>1. Reads'
    BY <2>5, <2>6, <1>o
  <2>2. Takes'
    BY <2>0, <2>5, <1>c
  <2>3. Ready'
    BY <2>0, <2>5, <2>6, <1>o
  <2>4. Silent'
    BY <2>0, <2>5, <2>6, <1>o
  <2>q. QED
    BY <2>1, <2>2, <2>3, <2>4 DEF Owners
<1>14. ASSUME NEW g \in Gen, WriterWrites(g) PROVE Owners'
  <2>0. \A h \in Gen \ {g} : queue'[h] = queue[h] /\ writer'[h] = writer[h]
    BY <1>14, <1>a, <1>c, PopTypes DEF WriterWrites
  <2>5. reader' = reader /\ gen' = gen /\ up' = up /\ link' = link /\ up
    BY <1>14 DEF WriterWrites
  <2>6. g = gen
    BY <1>14, <2>5, <1>a, <1>c, <1>o, PopTypes DEF WriterWrites
  <2>7. writer'[g].at \in {"get", "drain", "done"} /\ (writer'[g].at \in {"get", "drain"} => writer'[g].on = gen)
    BY <1>14, <1>a DEF WriterWrites, GetsOn, At
  <2>1. Reads'
    BY <2>5, <1>o
  <2>2. Takes'
    BY <2>0, <2>5, <2>6, <2>7, <1>c
  <2>3. Ready'
    BY <2>0, <2>5, <2>7, <1>o
  <2>4. Silent'
    BY <2>0, <2>5, <2>6, <1>o
  <2>q. QED
    BY <2>1, <2>2, <2>3, <2>4 DEF Owners
<1>15. ASSUME NEW g \in Gen, WriterFails(g) PROVE Owners'
  <2>0. \A h \in Gen \ {g} : queue'[h] = queue[h] /\ writer'[h] = writer[h]
    BY <1>15, <1>a, <1>c, PopTypes DEF WriterFails
  <2>5. reader' = reader /\ gen' = gen /\ (CloseLink \/ UNCHANGED <<up, link>>)
    BY <1>15, <1>a, ExceptionCases DEF WriterFails
  <2>6. /\ up' => up
        /\ \A h \in Gen : link[h] # "none" => link'[h] # "none"
    BY <2>5, <1>a, CloseTypes
  <2>7. up => g = gen
    BY <1>15, <1>a, <1>c, <1>o, PopTypes DEF WriterFails
  <2>8. \/ writer'[g].at \in {"close", "done"}
        \/ up /\ writer'[g].at \in {"get", "done"} /\ (writer'[g].at = "get" => writer'[g].on = gen)
    BY <1>15, <1>a DEF WriterFails, OnException, GetsOn, At
  <2>1. Reads'
    BY <2>5, <2>6, <1>o
  <2>2. Takes'
    BY <2>0, <2>7, <2>8, <1>c
  <2>3. Ready'
    BY <2>0, <2>5, <2>6, <2>8, <1>o
  <2>4. Silent'
    BY <2>0, <2>5, <2>6, <2>7, <2>8, <1>o
  <2>q. QED
    BY <2>1, <2>2, <2>3, <2>4 DEF Owners
<1>16. ASSUME NEW g \in Gen, Drained(g) PROVE Owners'
  <2>0. GetsOn.at \in {"get", "done"} /\ (GetsOn.at = "get" => GetsOn.on = gen)
    BY DEF GetsOn, At
  <2>5. g = gen
    BY <1>16, <1>b, <1>c DEF Drained, Links
  <2>1. Reads'
    BY <1>16, <1>o DEF Drained
  <2>2. Takes'
    BY <1>16, <2>0, <2>5, <1>a, <1>c DEF Drained
  <2>3. Ready'
    BY <1>16, <2>0, <1>a, <1>o DEF Drained
  <2>4. Silent'
    BY <1>16, <2>5, <1>a, <1>o DEF Drained
  <2>q. QED
    BY <2>1, <2>2, <2>3, <2>4 DEF Owners
<1>17. ASSUME NEW g \in Gen, DrainFails(g) PROVE Owners'
  <2>0. OnException.at \in {"close", "done"} /\ (CloseLink \/ UNCHANGED <<up, link>>)
    BY <1>17, <1>a, ExceptionCases DEF OnException, At
  <2>5. /\ up' => up
        /\ \A h \in Gen : link[h] # "none" => link'[h] # "none"
    BY <2>0, <1>a, CloseTypes DEF Phases
  <2>1. Reads'
    BY <1>17, <2>5, <1>o DEF DrainFails
  <2>2. Takes'
    BY <1>17, <2>0, <1>a, <1>c DEF DrainFails
  <2>3. Ready'
    BY <1>17, <2>0, <2>5, <1>a, <1>o DEF DrainFails
  <2>4. Silent'
    BY <1>17, <2>0, <2>5, <1>a, <1>o DEF DrainFails
  <2>q. QED
    BY <2>1, <2>2, <2>3, <2>4 DEF Owners
<1>18. ASSUME NEW m \in Msg, Send(m) PROVE Owners'
  <2>0. UNCHANGED <<up, gen, link, reader, writer>> /\ \A h \in Gen \ {gen} : queue'[h] = queue[h]
    BY <1>18, <1>a DEF Send
  <2>1. Reads'
    BY <2>0, <1>o
  <2>2. Takes'
    BY <2>0, <1>c
  <2>3. Ready'
    BY <2>0, <1>o
  <2>4. Silent'
    BY <2>0, <1>o
  <2>q. QED
    BY <2>1, <2>2, <2>3, <2>4 DEF Owners
<1>q. QED
  BY <1>1, <1>2, <1>3, <1>4, <1>5, <1>6, <1>7, <1>8, <1>9, <1>10, <1>11, <1>12, <1>13, <1>14, <1>15, <1>16, <1>17, <1>18 DEF Next, Connecting, Closing, ReaderStep, WriterStep

\* The exit message is for a writer whose link is closed.
LEMMA NoExitStep ==
  ASSUME Base, [Next]_vars
  PROVE  NoExit'
<1> USE GenTypes
<1>a. /\ gen \in Gen /\ WriterHasLink /\ NothingAhead /\ TypeOK
      /\ link \in [Gen -> {"none", "open", "lost", "closing", "closed"}]
      /\ queue \in [Gen -> Seq(Msg \cup {"init", "subscribe", "exit"})]
      /\ reader \in [Gen -> ReaderState] /\ writer \in [Gen -> WriterState]
  BY DEF Base, TypeOK, LinkTypes
<1>b. Phases /\ Alone /\ Links /\ Owners /\ NoExit
  BY DEF Base
<1>c. \A h \in Gen : writer[h].at \in {"get", "drain"} => writer[h].on = h
  BY <1>b DEF Owners
<1>1. CASE UNCHANGED vars
  BY <1>1, <1>a, <1>b DEF vars, NoExit
<1>2. CASE Refused \/ SleepEnds \/ BusCloses
  BY <1>2, <1>a, <1>b DEF Refused, SleepEnds, BusCloses, NoExit
<1>3. CASE Opened
  <2>1. queue'[gen'] = <<"init", "subscribe">>
    BY <1>3, <1>a, <1>b, Greeted DEF Opened, Phases
  <2>q. QED
    BY <2>1 DEF NoExit
<1>4. CASE GivesUp
  <2>1. ~up'
    BY <1>4, <1>b DEF GivesUp, Phases
  <2>q. QED
    BY <2>1 DEF NoExit
<1>5. CASE LostIsClosed
  <2>1. ~up'
    BY <1>5, <1>b DEF LostIsClosed, Alone
  <2>q. QED
    BY <2>1 DEF NoExit
<1>6. CASE Stop
  BY <1>6, <1>a, <1>b DEF Stop, CloseLink, NoExit
<1>7. CASE StopIsClosed
  <2>1. ~up'
    BY <1>7, <1>b DEF StopIsClosed, Phases
  <2>q. QED
    BY <2>1 DEF NoExit
<1>8. ASSUME NEW g \in Gen, ReaderStarts(g) \/ ReaderGets(g) \/ WriterStarts(g) \/ Drained(g)
     PROVE  NoExit'
  BY <1>8, <1>a, <1>b DEF ReaderStarts, ReaderGets, WriterStarts, Drained, NoExit
<1>9. ASSUME NEW g \in Gen, ReaderEof(g) PROVE NoExit'
  <2>1. gen' = gen /\ queue' = queue /\ (up' => up)
    BY <1>9, <1>a, ExceptionCases, CloseTypes DEF ReaderEof
  <2>q. QED
    BY <2>1, <1>b DEF NoExit
<1>10. ASSUME NEW g \in Gen, WriterExits(g) PROVE NoExit'
  <2>1. gen' = gen /\ (up' => up) /\ WriterPops(g)
    BY <1>10 DEF WriterExits
  <2>2. \A i \in DOMAIN queue'[gen] : \E j \in DOMAIN queue[gen] : queue'[gen][i] = queue[gen][j]
    BY <2>1, <1>a, <1>c, PopElements
  <2>q. QED
    BY <2>1, <2>2, <1>b DEF NoExit
<1>11. ASSUME NEW g \in Gen, WriterWrites(g) PROVE NoExit'
  <2>1. gen' = gen /\ (up' => up) /\ WriterPops(g)
    BY <1>11 DEF WriterWrites
  <2>2. \A i \in DOMAIN queue'[gen] : \E j \in DOMAIN queue[gen] : queue'[gen][i] = queue[gen][j]
    BY <2>1, <1>a, <1>c, PopElements
  <2>q. QED
    BY <2>1, <2>2, <1>b DEF NoExit
<1>12. ASSUME NEW g \in Gen, WriterFails(g) PROVE NoExit'
  <2>1. gen' = gen /\ WriterPops(g)
    BY <1>12 DEF WriterFails
  <2>3. up' => up
    BY <1>12, <1>a, ExceptionCases, CloseTypes
  <2>2. \A i \in DOMAIN queue'[gen] : \E j \in DOMAIN queue[gen] : queue'[gen][i] = queue[gen][j]
    BY <2>1, <1>a, <1>c, PopElements
  <2>q. QED
    BY <2>1, <2>2, <2>3, <1>b DEF NoExit
<1>13. ASSUME NEW g \in Gen, DrainFails(g) PROVE NoExit'
  <2>1. gen' = gen /\ queue' = queue /\ (up' => up)
    BY <1>13, <1>a, ExceptionCases, CloseTypes DEF DrainFails
  <2>q. QED
    BY <2>1, <1>b DEF NoExit
<1>14. ASSUME NEW m \in Msg, Send(m) PROVE NoExit'
  <2>1. queue[gen] \in Seq(Msg \cup {"init", "subscribe", "exit"}) /\ m # "exit"
    BY <1>a, MsgAssumption
  <2>2. \A i \in DOMAIN Append(queue[gen], m) :
          \/ i \in DOMAIN queue[gen] /\ Append(queue[gen], m)[i] = queue[gen][i]
          \/ Append(queue[gen], m)[i] = m
    BY <2>1, AppendElements
  <2>3. up' = up /\ gen' = gen /\ queue'[gen] \in {queue[gen], Append(queue[gen], m)}
    BY <1>14, <1>a DEF Send
  <2>q. QED
    BY <2>1, <2>2, <2>3, <1>b DEF NoExit
<1>q. QED
  BY <1>1, <1>2, <1>3, <1>4, <1>5, <1>6, <1>7, <1>8, <1>9, <1>10, <1>11, <1>12, <1>13, <1>14 DEF Next, Connecting, Closing, ReaderStep, WriterStep

\* All of it together.
LEMMA BaseStep ==
  ASSUME Base, [Next]_vars
  PROVE  Base'
  BY TypeStep, PhasesStep, AloneStep, LinksStep, OwnersStep, NoExitStep DEF Base

\* A message is put on the queue of the link that is up, and stays there.
LEMMA QueuedStep ==
  ASSUME Base, Queued, [Next]_vars
  PROVE  Queued'
<1> USE GenTypes
<1>a. /\ gen \in Gen /\ WriterHasLink /\ NothingAhead /\ TypeOK
      /\ link \in [Gen -> {"none", "open", "lost", "closing", "closed"}]
      /\ queue \in [Gen -> Seq(Msg \cup {"init", "subscribe", "exit"})]
      /\ reader \in [Gen -> ReaderState] /\ writer \in [Gen -> WriterState]
  BY DEF Base, TypeOK, LinkTypes
<1>b. Phases /\ Alone /\ Links /\ Owners /\ NoExit
  BY DEF Base
<1>c. \A h \in Gen : writer[h].at \in {"get", "drain"} => writer[h].on = h
  BY <1>b DEF Owners
<1>e. Queued /\ sentOn \in [Msg -> 0 .. MaxLinks]
      /\ wire \in [Gen -> Seq(Msg \cup {"init", "subscribe"})]
  BY DEF TypeOK, LinkTypes, Base
<1>1. CASE UNCHANGED vars
  BY <1>1, <1>a, <1>b, <1>e DEF vars, Queued
<1>2. CASE Refused \/ SleepEnds \/ GivesUp \/ Stop \/ BusCloses
  BY <1>2, <1>a, <1>e DEF Refused, SleepEnds, GivesUp, Stop, BusCloses, Queued
<1>3. CASE Opened
  <2>1. queue' = [queue EXCEPT ![gen] = <<"init", "subscribe">>] /\ sentOn' = sentOn
    BY <1>3, <1>a, <1>b, Greeted DEF Opened, Phases
  <2>2. "init" \notin Msg /\ "subscribe" \notin Msg
    BY MsgAssumption
  <2>3. \A i \in DOMAIN <<"init", "subscribe">> : <<"init", "subscribe">>[i] \notin Msg
    BY <2>2
  <2>q. QED
    BY <2>1, <2>3, <1>a, <1>e DEF Queued
<1>4. CASE LostIsClosed
  <2>1. UnblockWriter /\ sentOn' = sentOn
    BY <1>4 DEF LostIsClosed
  <2>2. queue[gen] \in Seq(Msg \cup {"init", "subscribe", "exit"}) /\ "exit" \notin Msg
    BY <1>a, MsgAssumption
  <2>3. \A i \in DOMAIN Append(queue[gen], "exit") :
          \/ i \in DOMAIN queue[gen] /\ Append(queue[gen], "exit")[i] = queue[gen][i]
          \/ Append(queue[gen], "exit")[i] = "exit"
    BY <2>2, AppendElements
  <2>4. queue'[gen] = Append(queue[gen], "exit") /\ \A h \in Gen \ {gen} : queue'[h] = queue[h]
    BY <2>1, <1>a, UnblockTypes
  <2>q. QED
    <3>1. \A i \in DOMAIN queue'[gen] : queue'[gen][i] \in Msg => sentOn[queue'[gen][i]] = gen
      BY <2>2, <2>3, <2>4, <1>a, <1>e DEF Queued
    <3>2. \A h \in Gen \ {gen} : \A i \in DOMAIN queue'[h] : queue'[h][i] \in Msg => sentOn[queue'[h][i]] = h
      BY <2>4, <1>e DEF Queued
    <3>q. QED
      BY <2>1, <3>1, <3>2 DEF Queued
<1>5. CASE StopIsClosed
  <2>1. UnblockWriter /\ sentOn' = sentOn
    BY <1>5 DEF StopIsClosed
  <2>2. queue[gen] \in Seq(Msg \cup {"init", "subscribe", "exit"}) /\ "exit" \notin Msg
    BY <1>a, MsgAssumption
  <2>3. \A i \in DOMAIN Append(queue[gen], "exit") :
          \/ i \in DOMAIN queue[gen] /\ Append(queue[gen], "exit")[i] = queue[gen][i]
          \/ Append(queue[gen], "exit")[i] = "exit"
    BY <2>2, AppendElements
  <2>4. queue'[gen] = Append(queue[gen], "exit") /\ \A h \in Gen \ {gen} : queue'[h] = queue[h]
    BY <2>1, <1>a, UnblockTypes
  <2>q. QED
    <3>1. \A i \in DOMAIN queue'[gen] : queue'[gen][i] \in Msg => sentOn[queue'[gen][i]] = gen
      BY <2>2, <2>3, <2>4, <1>a, <1>e DEF Queued
    <3>2. \A h \in Gen \ {gen} : \A i \in DOMAIN queue'[h] : queue'[h][i] \in Msg => sentOn[queue'[h][i]] = h
      BY <2>4, <1>e DEF Queued
    <3>q. QED
      BY <2>1, <3>1, <3>2 DEF Queued
<1>6. ASSUME NEW g \in Gen, ReaderStarts(g) \/ ReaderGets(g) \/ ReaderEof(g) \/ WriterStarts(g)
     PROVE  Queued'
  BY <1>6, <1>a, <1>e DEF ReaderStarts, ReaderGets, ReaderEof, WriterStarts, Queued
<1>7. ASSUME NEW g \in Gen, Drained(g) \/ DrainFails(g)
     PROVE  Queued'
  BY <1>7, <1>a, <1>e DEF Drained, DrainFails, Queued
<1>8. ASSUME NEW g \in Gen, WriterExits(g) PROVE Queued'
  <2>1. sentOn' = sentOn /\ WriterPops(g)
    BY <1>8 DEF WriterExits
  <2>2. \A h \in Gen : \A i \in DOMAIN queue'[h] : \E j \in DOMAIN queue[h] : queue'[h][i] = queue[h][j]
    BY <2>1, <1>a, <1>c, PopElements
  <2>q. QED
    <3>1. SUFFICES ASSUME NEW h \in Gen, NEW i \in DOMAIN queue'[h], queue'[h][i] \in Msg
                   PROVE  sentOn'[queue'[h][i]] = h
      BY DEF Queued
    <3>2. PICK j \in DOMAIN queue[h] : queue'[h][i] = queue[h][j]
      BY <2>2
    <3>q. QED
      BY <2>1, <3>1, <3>2, <1>e DEF Queued
<1>9. ASSUME NEW g \in Gen, WriterWrites(g) PROVE Queued'
  <2>1. sentOn' = sentOn /\ WriterPops(g)
    BY <1>9 DEF WriterWrites
  <2>2. \A h \in Gen : \A i \in DOMAIN queue'[h] : \E j \in DOMAIN queue[h] : queue'[h][i] = queue[h][j]
    BY <2>1, <1>a, <1>c, PopElements
  <2>q. QED
    <3>1. SUFFICES ASSUME NEW h \in Gen, NEW i \in DOMAIN queue'[h], queue'[h][i] \in Msg
                   PROVE  sentOn'[queue'[h][i]] = h
      BY DEF Queued
    <3>2. PICK j \in DOMAIN queue[h] : queue'[h][i] = queue[h][j]
      BY <2>2
    <3>q. QED
      BY <2>1, <3>1, <3>2, <1>e DEF Queued
<1>10. ASSUME NEW g \in Gen, WriterFails(g) PROVE Queued'
  <2>1. sentOn' = sentOn /\ WriterPops(g)
    BY <1>10 DEF WriterFails
  <2>2. \A h \in Gen : \A i \in DOMAIN queue'[h] : \E j \in DOMAIN queue[h] : queue'[h][i] = queue[h][j]
    BY <2>1, <1>a, <1>c, PopElements
  <2>q. QED
    <3>1. SUFFICES ASSUME NEW h \in Gen, NEW i \in DOMAIN queue'[h], queue'[h][i] \in Msg
                   PROVE  sentOn'[queue'[h][i]] = h
      BY DEF Queued
    <3>2. PICK j \in DOMAIN queue[h] : queue'[h][i] = queue[h][j]
      BY <2>2
    <3>q. QED
      BY <2>1, <3>1, <3>2, <1>e DEF Queued
<1>11. ASSUME NEW m \in Msg, Send(m) PROVE Queued'
  <2>1. sentOn[m] = 0 /\ \A h \in Gen : h # 0
    BY <1>11, <1>a DEF Send
  <2>2. CASE ~Accepts
    BY <1>11, <2>2, <1>e DEF Send, Queued
  <2>3. CASE Accepts
    <3>1. queue' = [queue EXCEPT ![gen] = Append(queue[gen], m)] /\ sentOn' = [sentOn EXCEPT ![m] = gen]
      BY <1>11, <2>3 DEF Send
    <3>2. queue[gen] \in Seq(Msg \cup {"init", "subscribe", "exit"})
      BY <1>a
    <3>3. \A i \in DOMAIN Append(queue[gen], m) :
            \/ i \in DOMAIN queue[gen] /\ Append(queue[gen], m)[i] = queue[gen][i]
            \/ Append(queue[gen], m)[i] = m
      BY <3>2, AppendElements
    <3>4. \A h \in Gen : \A i \in DOMAIN queue[h] : queue[h][i] \in Msg =>
            queue[h][i] # m /\ sentOn'[queue[h][i]] = h
      BY <2>1, <3>1, <1>e DEF Queued
    <3>5. sentOn'[m] = gen
      BY <3>1, <1>e
    <3>6. \A h \in Gen \ {gen} : queue'[h] = queue[h]
      BY <3>1, <1>a
    <3>7. queue'[gen] = Append(queue[gen], m)
      BY <3>1, <1>a
    <3>8. \A i \in DOMAIN queue'[gen] : queue'[gen][i] \in Msg => sentOn'[queue'[gen][i]] = gen
      BY <3>3, <3>4, <3>5, <3>7, <1>a
    <3>q. QED
      BY <3>4, <3>6, <3>8 DEF Queued
  <2>q. QED
    BY <2>2, <2>3
<1>q. QED
  BY <1>1, <1>2, <1>3, <1>4, <1>5, <1>6, <1>7, <1>8, <1>9, <1>10, <1>11 DEF Next, Connecting, Closing, ReaderStep, WriterStep

\* What is written was waiting in the queue of the link it is written to.
LEMMA ResentStep ==
  ASSUME Base, Queued, NeverResent, [Next]_vars
  PROVE  NeverResent'
<1> USE GenTypes
<1>a. /\ gen \in Gen /\ WriterHasLink /\ NothingAhead /\ TypeOK
      /\ link \in [Gen -> {"none", "open", "lost", "closing", "closed"}]
      /\ queue \in [Gen -> Seq(Msg \cup {"init", "subscribe", "exit"})]
      /\ reader \in [Gen -> ReaderState] /\ writer \in [Gen -> WriterState]
  BY DEF Base, TypeOK, LinkTypes
<1>b. Phases /\ Alone /\ Links /\ Owners /\ NoExit
  BY DEF Base
<1>c. \A h \in Gen : writer[h].at \in {"get", "drain"} => writer[h].on = h
  BY <1>b DEF Owners
<1>e. Queued /\ sentOn \in [Msg -> 0 .. MaxLinks]
      /\ wire \in [Gen -> Seq(Msg \cup {"init", "subscribe"})]
  BY DEF TypeOK, LinkTypes, Base
<1>1. CASE UNCHANGED vars
  BY <1>1, <1>a, <1>b, <1>e DEF vars, NeverResent
<1>2. CASE Opened \/ Refused \/ SleepEnds \/ GivesUp \/ LostIsClosed \/ Stop \/ StopIsClosed \/ BusCloses
  BY <1>2, <1>a, <1>e DEF Opened, Refused, SleepEnds, GivesUp, LostIsClosed, Stop, StopIsClosed, BusCloses, NeverResent
<1>3. ASSUME NEW g \in Gen, ReaderStarts(g) \/ ReaderGets(g) \/ ReaderEof(g) \/ WriterStarts(g)
     PROVE  NeverResent'
  BY <1>3, <1>a, <1>e DEF ReaderStarts, ReaderGets, ReaderEof, WriterStarts, NeverResent
<1>4. ASSUME NEW g \in Gen, WriterExits(g) \/ WriterFails(g) \/ Drained(g) \/ DrainFails(g)
     PROVE  NeverResent'
  BY <1>4, <1>a, <1>e DEF WriterExits, WriterFails, Drained, DrainFails, NeverResent
<1>5. ASSUME NEW g \in Gen, WriterWrites(g) PROVE NeverResent'
  <2>1. wire' = [wire EXCEPT ![gen] = Append(wire[gen], Head(queue[g]))] /\ sentOn' = sentOn
    BY <1>5, <1>a, <1>c, PopTypes DEF WriterWrites
  <2>2. g = gen
    BY <1>5, <1>a, <1>b, <1>c, PopTypes DEF WriterWrites, Owners
  <2>3. Head(queue[g]) \in Msg \cup {"init", "subscribe"}
    BY <1>5, <1>a, <1>c, PopTypes DEF WriterWrites
  <2>4. Head(queue[g]) \in Msg => sentOn[Head(queue[g])] = gen
    <3>1. queue[g] # <<>> /\ queue[g] \in Seq(Msg \cup {"init", "subscribe", "exit"})
      BY <1>5, <1>a, <1>c, PopTypes DEF WriterWrites
    <3>2. 1 \in DOMAIN queue[g] /\ Head(queue[g]) = queue[g][1]
      BY <3>1, Popped
    <3>q. QED
      BY <2>2, <3>2, <1>e DEF Queued
  <2>5. \A i \in DOMAIN Append(wire[gen], Head(queue[g])) :
          \/ i \in DOMAIN wire[gen] /\ Append(wire[gen], Head(queue[g]))[i] = wire[gen][i]
          \/ Append(wire[gen], Head(queue[g]))[i] = Head(queue[g])
    <3>1. wire[gen] \in Seq(Msg \cup {"init", "subscribe"})
      BY <1>a, <1>e
    <3>q. QED
      BY <2>3, <3>1, AppendElements
  <2>6. wire'[gen] = Append(wire[gen], Head(queue[g])) /\ \A h \in Gen \ {gen} : wire'[h] = wire[h]
    BY <2>1, <1>a, <1>e
  <2>q. QED
    BY <2>1, <2>4, <2>5, <2>6, <1>a, <1>e DEF NeverResent
<1>6. ASSUME NEW m \in Msg, Send(m) PROVE NeverResent'
  <2>1. sentOn[m] = 0 /\ wire' = wire /\ sentOn' \in {sentOn, [sentOn EXCEPT ![m] = gen]}
    BY <1>6 DEF Send
  <2>2. \A h \in Gen : h # 0
    BY <1>a
  <2>3. \A n \in Msg \ {m} : sentOn'[n] = sentOn[n]
    BY <2>1, <1>e
  <2>4. \A h \in Gen : \A i \in DOMAIN wire[h] : wire[h][i] \in Msg => wire[h][i] # m
    BY <2>1, <2>2 DEF NeverResent
  <2>q. QED
    BY <2>1, <2>3, <2>4 DEF NeverResent
<1>q. QED
  BY <1>1, <1>2, <1>3, <1>4, <1>5, <1>6 DEF Next, Connecting, Closing, ReaderStep, WriterStep

\* A link never goes back to not being there.
LEMMA UnwrittenStep ==
  ASSUME Base, Unwritten, [Next]_vars
  PROVE  Unwritten'
<1> USE GenTypes
<1>a. /\ gen \in Gen /\ WriterHasLink /\ NothingAhead /\ TypeOK
      /\ link \in [Gen -> {"none", "open", "lost", "closing", "closed"}]
      /\ queue \in [Gen -> Seq(Msg \cup {"init", "subscribe", "exit"})]
      /\ reader \in [Gen -> ReaderState] /\ writer \in [Gen -> WriterState]
  BY DEF Base, TypeOK, LinkTypes
<1>b. Phases /\ Alone /\ Links /\ Owners /\ NoExit
  BY DEF Base
<1>e. Unwritten /\ wire \in [Gen -> Seq(Msg \cup {"init", "subscribe"})]
  BY DEF TypeOK, LinkTypes, Base
<1>1. CASE UNCHANGED vars
  BY <1>1, <1>a, <1>b, <1>e DEF vars, Unwritten
<1>2. CASE Opened \/ Refused \/ SleepEnds \/ GivesUp \/ LostIsClosed \/ StopIsClosed \/ BusCloses
  BY <1>2, <1>a, <1>e DEF Opened, Refused, SleepEnds, GivesUp, LostIsClosed, StopIsClosed, BusCloses, Unwritten
<1>3. CASE Stop
  BY <1>3, <1>a, <1>e, CloseTypes DEF Stop, Unwritten
<1>4. ASSUME NEW g \in Gen, ReaderStarts(g) \/ ReaderGets(g) \/ WriterStarts(g) \/ WriterExits(g)
     PROVE  Unwritten'
  BY <1>4, <1>a, <1>e DEF ReaderStarts, ReaderGets, WriterStarts, WriterExits, Unwritten
<1>5. ASSUME NEW g \in Gen, WriterWrites(g) \/ Drained(g)
     PROVE  Unwritten'
  BY <1>5, <1>a, <1>e DEF WriterWrites, Drained, Unwritten
<1>6. ASSUME NEW g \in Gen, ReaderEof(g) PROVE Unwritten'
  <2>1. wire' = wire /\ \A h \in Gen : link'[h] = "none" => link[h] = "none"
    BY <1>6, <1>a, ExceptionCases, CloseTypes DEF ReaderEof
  <2>q. QED
    BY <2>1, <1>e DEF Unwritten
<1>7. ASSUME NEW g \in Gen, WriterFails(g) PROVE Unwritten'
  <2>1. wire' = wire /\ \A h \in Gen : link'[h] = "none" => link[h] = "none"
    BY <1>7, <1>a, ExceptionCases, CloseTypes DEF WriterFails
  <2>q. QED
    BY <2>1, <1>e DEF Unwritten
<1>8. ASSUME NEW g \in Gen, DrainFails(g) PROVE Unwritten'
  <2>1. wire' = wire /\ \A h \in Gen : link'[h] = "none" => link[h] = "none"
    BY <1>8, <1>a, ExceptionCases, CloseTypes DEF DrainFails
  <2>q. QED
    BY <2>1, <1>e DEF Unwritten
<1>9. ASSUME NEW m \in Msg, Send(m) PROVE Unwritten'
  BY <1>9, <1>a, <1>e DEF Send, Unwritten
<1>q. QED
  BY <1>1, <1>2, <1>3, <1>4, <1>5, <1>6, <1>7, <1>8, <1>9 DEF Next, Connecting, Closing, ReaderStep, WriterStep

\* The writer of a new link takes the greeting off the queue in its order.
LEMMA GreetsStep ==
  ASSUME Base, Unwritten, Greets, [Next]_vars
  PROVE  Greets'
<1> USE GenTypes
<1>a. /\ gen \in Gen /\ WriterHasLink /\ NothingAhead /\ TypeOK
      /\ link \in [Gen -> {"none", "open", "lost", "closing", "closed"}]
      /\ queue \in [Gen -> Seq(Msg \cup {"init", "subscribe", "exit"})]
      /\ reader \in [Gen -> ReaderState] /\ writer \in [Gen -> WriterState]
  BY DEF Base, TypeOK, LinkTypes
<1>b. Phases /\ Alone /\ Links /\ Owners /\ NoExit
  BY DEF Base
<1>c. \A h \in Gen : writer[h].at \in {"get", "drain"} => writer[h].on = h
  BY <1>b DEF Owners
<1>e. Unwritten /\ Greets /\ wire \in [Gen -> Seq(Msg \cup {"init", "subscribe"})]
  BY DEF TypeOK, LinkTypes, Base
<1>1. CASE UNCHANGED vars
  BY <1>1, <1>a, <1>b, <1>e DEF vars, Greets
<1>2. CASE Refused \/ SleepEnds \/ GivesUp
  BY <1>2, <1>a, <1>e DEF Refused, SleepEnds, GivesUp, Greets
<1>3. CASE Opened
  <2>1. queue'[gen'] = <<"init", "subscribe">> /\ wire'[gen'] = <<>>
    BY <1>3, <1>a, <1>b, <1>e, Greeted DEF Opened, Phases, Unwritten
  <2>2. queue'[gen'][1] = "init" /\ queue'[gen'][2] = "subscribe" /\ Len(queue'[gen']) >= 2
    BY <2>1
  <2>q. QED
    BY <2>1, <2>2 DEF Greets
<1>4. CASE LostIsClosed
  <2>1. gen' = gen + 1 /\ link' = [link EXCEPT ![gen] = "closed"]
    BY <1>4 DEF LostIsClosed, Reconnect
  <2>2. gen + 1 \in Gen /\ gen + 1 > gen
    BY <1>4, <1>a DEF LostIsClosed
  <2>3. link'[gen'] = "none"
    BY <2>1, <2>2, <1>a DEF NothingAhead
  <2>q. QED
    BY <2>3 DEF Greets
<1>5. CASE Stop
  <2>1. UNCHANGED <<gen, wire, queue>> /\ (link'[gen] = "open" => link[gen] = "open")
    BY <1>5, <1>a, CloseTypes DEF Stop
  <2>q. QED
    BY <2>1, <1>e DEF Greets
<1>6. CASE StopIsClosed
  <2>1. link'[gen'] # "open"
    BY <1>6, <1>a, <1>b DEF StopIsClosed
  <2>q. QED
    BY <2>1 DEF Greets
<1>7. CASE BusCloses
  <2>1. link'[gen'] # "open"
    BY <1>7, <1>a, <1>b DEF BusCloses
  <2>q. QED
    BY <2>1 DEF Greets
<1>8. ASSUME NEW g \in Gen, ReaderStarts(g) \/ ReaderGets(g) \/ WriterStarts(g) \/ Drained(g)
     PROVE  Greets'
  BY <1>8, <1>a, <1>e DEF ReaderStarts, ReaderGets, WriterStarts, Drained, Greets
<1>9. ASSUME NEW g \in Gen, ReaderEof(g) PROVE Greets'
  <2>1. gen' = gen /\ wire' = wire /\ (link'[gen] = "open" => link[gen] = "open")
    BY <1>9, <1>a, ExceptionCases, CloseTypes DEF ReaderEof
  <2>2. queue' = queue
    BY <1>9 DEF ReaderEof
  <2>q. QED
    BY <2>1, <2>2, <1>e DEF Greets
<1>10. ASSUME NEW g \in Gen, WriterExits(g) PROVE Greets'
  <2>1. CASE ~up
    <3>1. link'[gen'] # "open"
      BY <1>10, <2>1, <1>a, <1>b DEF WriterExits, Phases, Connected
    <3>q. QED
      BY <3>1 DEF Greets
  <2>2. CASE up
    <3>1. queue[g] # <<>> /\ writer[g].at = "get" /\ Head(queue[g]) = "exit"
      BY <1>10, <1>a, <1>c, PopTypes DEF WriterExits
    <3>2. g = gen
      BY <2>2, <3>1, <1>b DEF Owners
    <3>3. 1 \in DOMAIN queue[g] /\ queue[g][1] = "exit"
      BY <3>1, <1>a, Popped
    <3>q. QED
      BY <2>2, <3>2, <3>3, <1>b DEF NoExit
  <2>q. QED
    BY <2>1, <2>2
<1>11. ASSUME NEW g \in Gen, WriterWrites(g) PROVE Greets'
  <2>0. g = gen
    BY <1>11, <1>a, <1>b, <1>c, PopTypes DEF WriterWrites, Owners
  <2> DEFINE q == queue[gen]
             w == wire[gen]
  <2>1. q \in Seq(Msg \cup {"init", "subscribe", "exit"}) /\ q # <<>>
    BY <1>11, <2>0, <1>a, <1>c, PopTypes DEF WriterWrites
  <2>2. w \in Seq(Msg \cup {"init", "subscribe"}) /\ Head(q) \in Msg \cup {"init", "subscribe"}
    BY <1>11, <2>0, <1>a, <1>c, <1>e, PopTypes DEF WriterWrites
  <2>3. gen' = gen /\ link[gen] = "open" /\ queue'[gen] = Tail(q) /\ wire'[gen] = Append(w, Head(q))
    BY <1>11, <2>0, <1>a, <1>c, <1>e, PopTypes DEF WriterWrites
  <2>4. /\ Head(q) = q[1] /\ Len(q) \in Nat \ {0} /\ Len(Tail(q)) = Len(q) - 1
        /\ \A i \in 1 .. Len(q) - 1 : Tail(q)[i] = q[i + 1]
    BY <2>1, Popped
  <2>5. /\ Len(w) \in Nat /\ Len(Append(w, Head(q))) = Len(w) + 1
        /\ \A i \in 1 .. Len(w) : Append(w, Head(q))[i] = w[i]
        /\ Append(w, Head(q))[Len(w) + 1] = Head(q)
    BY <2>2, Appended
  <2>6. CASE w = <<>> /\ Len(q) >= 2 /\ q[1] = "init" /\ q[2] = "subscribe"
    <3>1. Len(w) = 0
      BY <2>6
    <3>2. Len(Append(w, Head(q))) = 1 /\ Append(w, Head(q))[1] = "init"
      BY <2>4, <2>5, <2>6, <3>1
    <3>3. Len(Tail(q)) >= 1 /\ Tail(q)[1] = "subscribe"
      BY <2>4, <2>6
    <3>q. QED
      BY <2>3, <3>2, <3>3 DEF Greets
  <2>7. CASE Len(w) = 1 /\ w[1] = "init" /\ Len(q) >= 1 /\ q[1] = "subscribe"
    <3>1. /\ Len(Append(w, Head(q))) >= 2
          /\ Append(w, Head(q))[1] = "init" /\ Append(w, Head(q))[2] = "subscribe"
      BY <2>4, <2>5, <2>7
    <3>q. QED
      BY <2>3, <3>1 DEF Greets
  <2>8. CASE Len(w) >= 2 /\ w[1] = "init" /\ w[2] = "subscribe"
    <3>1. /\ Len(Append(w, Head(q))) >= 2
          /\ Append(w, Head(q))[1] = "init" /\ Append(w, Head(q))[2] = "subscribe"
      BY <2>5, <2>8
    <3>q. QED
      BY <2>3, <3>1 DEF Greets
  <2>q. QED
    BY <2>3, <2>6, <2>7, <2>8, <1>e DEF Greets
<1>12. ASSUME NEW g \in Gen, WriterFails(g) PROVE Greets'
  <2>1. gen' = gen /\ wire' = wire /\ (link'[gen] = "open" => link[gen] = "open")
    BY <1>12, <1>a, ExceptionCases, CloseTypes DEF WriterFails
  <2>2. link[gen] = "open" => queue'[gen] = queue[gen]
    <3>1. WriterPops(g) /\ (up => link[gen] # "open")
      BY <1>12 DEF WriterFails
    <3>2. link[gen] # "open"
      BY <3>1, <1>b DEF Phases
    <3>q. QED
      BY <3>2
  <2>q. QED
    BY <2>1, <2>2, <1>e DEF Greets
<1>13. ASSUME NEW g \in Gen, DrainFails(g) PROVE Greets'
  <2>1. gen' = gen /\ wire' = wire /\ (link'[gen] = "open" => link[gen] = "open")
    BY <1>13, <1>a, ExceptionCases, CloseTypes DEF DrainFails
  <2>2. queue' = queue
    BY <1>13 DEF DrainFails
  <2>q. QED
    BY <2>1, <2>2, <1>e DEF Greets
<1>14. ASSUME NEW m \in Msg, Send(m) PROVE Greets'
  <2>1. /\ UNCHANGED <<gen, link, wire>>
        /\ queue'[gen] \in {queue[gen], Append(queue[gen], m)}
    BY <1>14, <1>a DEF Send
  <2>2. CASE queue'[gen] = queue[gen]
    BY <2>1, <2>2, <1>e DEF Greets
  <2>3. CASE queue'[gen] = Append(queue[gen], m)
    <3>1. queue[gen] \in Seq(Msg \cup {"init", "subscribe", "exit"})
      BY <1>a
    <3>2. /\ Len(queue'[gen]) = Len(queue[gen]) + 1 /\ Len(queue[gen]) \in Nat
          /\ \A i \in 1 .. Len(queue[gen]) : queue'[gen][i] = queue[gen][i]
      BY <2>3, <3>1, Appended
    <3>3. /\ Len(queue[gen]) >= 1 => Len(queue'[gen]) >= 1 /\ queue'[gen][1] = queue[gen][1]
          /\ Len(queue[gen]) >= 2 => Len(queue'[gen]) >= 2 /\ queue'[gen][2] = queue[gen][2]
      BY <3>2
    <3>4. Len(queue[gen]) >= 2 => Len(queue[gen]) >= 1
      BY <3>2
    <3>q. QED
      BY <2>1, <3>3, <3>4, <1>e DEF Greets
  <2>q. QED
    BY <2>1, <2>2, <2>3
<1>q. QED
  BY <1>1, <1>2, <1>3, <1>4, <1>5, <1>6, <1>7, <1>8, <1>9, <1>10, <1>11, <1>12, <1>13, <1>14 DEF Next, Connecting, Closing, ReaderStep, WriterStep

\* So the bus reads the greeting first.
LEMMA FirstStep ==
  ASSUME Base, Greets, InitFirst, [Next]_vars
  PROVE  InitFirst'
<1> USE GenTypes
<1>a. /\ gen \in Gen /\ WriterHasLink /\ NothingAhead /\ TypeOK
      /\ link \in [Gen -> {"none", "open", "lost", "closing", "closed"}]
      /\ queue \in [Gen -> Seq(Msg \cup {"init", "subscribe", "exit"})]
      /\ reader \in [Gen -> ReaderState] /\ writer \in [Gen -> WriterState]
  BY DEF Base, TypeOK, LinkTypes
<1>b. Phases /\ Alone /\ Links /\ Owners /\ NoExit
  BY DEF Base
<1>c. \A h \in Gen : writer[h].at \in {"get", "drain"} => writer[h].on = h
  BY <1>b DEF Owners
<1>e. Greets /\ wire \in [Gen -> Seq(Msg \cup {"init", "subscribe"})]
  BY DEF TypeOK, LinkTypes, Base
<1>1. CASE UNCHANGED vars
  BY <1>1, <1>a, <1>b, <1>e DEF vars, InitFirst
<1>2. CASE Opened \/ Refused \/ SleepEnds \/ GivesUp \/ LostIsClosed \/ Stop \/ StopIsClosed \/ BusCloses
  BY <1>2, <1>a, <1>e DEF Opened, Refused, SleepEnds, GivesUp, LostIsClosed, Stop, StopIsClosed, BusCloses, InitFirst
<1>3. ASSUME NEW g \in Gen, ReaderStarts(g) \/ ReaderGets(g) \/ ReaderEof(g) \/ WriterStarts(g)
     PROVE  InitFirst'
  BY <1>3, <1>a, <1>e DEF ReaderStarts, ReaderGets, ReaderEof, WriterStarts, InitFirst
<1>4. ASSUME NEW g \in Gen, WriterExits(g) \/ WriterFails(g) \/ Drained(g) \/ DrainFails(g)
     PROVE  InitFirst'
  BY <1>4, <1>a, <1>e DEF WriterExits, WriterFails, Drained, DrainFails, InitFirst
<1>5. ASSUME NEW g \in Gen, WriterWrites(g) PROVE InitFirst'
  <2>1. wire' = [wire EXCEPT ![gen] = Append(wire[gen], Head(queue[g]))] /\ link[gen] = "open" /\ g = gen
    BY <1>5, <1>a, <1>b, <1>c, PopTypes DEF WriterWrites, Owners
  <2> DEFINE w == wire[gen]
             e == Head(queue[g])
  <2>2. w \in Seq(Msg \cup {"init", "subscribe"}) /\ e \in Msg \cup {"init", "subscribe"}
    BY <1>5, <1>a, <1>c, <1>e, PopTypes DEF WriterWrites
  <2>3. queue[gen] # <<>> /\ queue[gen] \in Seq(Msg \cup {"init", "subscribe", "exit"})
    BY <1>5, <2>1, <1>a, <1>c, PopTypes DEF WriterWrites
  <2>4. e = queue[gen][1]
    BY <2>1, <2>3, Popped
  <2>5. Len(Greeting) = 2 /\ Greeting[1] = "init" /\ Greeting[2] = "subscribe"
    BY DEF Greeting
  <2>6. /\ Len(w) = 0 => e = "init"
        /\ Len(w) = 1 => e = "subscribe"
    BY <2>1, <2>2, <2>4, <1>e DEF Greets
  <2>7. \A i \in DOMAIN Append(w, e) :
          \/ i \in DOMAIN w /\ Append(w, e)[i] = w[i]
          \/ i = Len(w) + 1 /\ Append(w, e)[i] = e
    BY <2>2, AppendElements
  <2>8. \A i \in DOMAIN w : i <= Len(Greeting) => w[i] = Greeting[i]
    BY <1>a DEF InitFirst
  <2>9. Len(w) \in Nat
    BY <2>2
  <2>10. \A i \in DOMAIN Append(w, e) : i <= Len(Greeting) => Append(w, e)[i] = Greeting[i]
    <3>1. SUFFICES ASSUME NEW i \in DOMAIN Append(w, e), i <= Len(Greeting)
                   PROVE  Append(w, e)[i] = Greeting[i]
      OBVIOUS
    <3>2. CASE i \in DOMAIN w /\ Append(w, e)[i] = w[i]
      BY <2>8, <3>1, <3>2
    <3>3. CASE i = Len(w) + 1 /\ Append(w, e)[i] = e
      <4>1. (Len(w) = 0 /\ i = 1) \/ (Len(w) = 1 /\ i = 2)
        <5>1. i <= 2 /\ i = Len(w) + 1
          BY <2>5, <3>1, <3>3
        <5>2. \A n \in Nat : n + 1 <= 2 => n \in {0, 1}
          OBVIOUS
        <5>3. Len(w) \in {0, 1}
          BY <2>9, <5>1, <5>2
        <5>q. QED
          BY <5>1, <5>3
      <4>q. QED
        BY <2>5, <2>6, <3>3, <4>1
    <3>q. QED
      BY <2>7, <3>2, <3>3
  <2>11. wire'[gen] = Append(w, e) /\ \A h \in Gen \ {gen} : wire'[h] = wire[h]
    BY <2>1, <1>a, <1>e
  <2>q. QED
    <3>1. \A h \in Gen \ {gen} : \A i \in DOMAIN wire'[h] : i <= Len(Greeting) => wire'[h][i] = Greeting[i]
      BY <2>11 DEF InitFirst
    <3>2. \A i \in DOMAIN wire'[gen] : i <= Len(Greeting) => wire'[gen][i] = Greeting[i]
      BY <2>10, <2>11
    <3>q. QED
      BY <3>1, <3>2 DEF InitFirst, Greeting
<1>6. ASSUME NEW m \in Msg, Send(m) PROVE InitFirst'
  BY <1>6, <1>a, <1>e DEF Send, InitFirst
<1>q. QED
  BY <1>1, <1>2, <1>3, <1>4, <1>5, <1>6 DEF Next, Connecting, Closing, ReaderStep, WriterStep

-----------------------------------------------------------------------------
(* The invariant and what it gives                                            *)

LEMMA InitIInv == Init => IInv
<1> SUFFICES ASSUME Init PROVE IInv
  OBVIOUS
<1>1. TypeOK
  BY InitTypes
<1>2. /\ gen \in Gen /\ ~up /\ ~stopped /\ opening = "open" /\ stopping = "no"
      /\ \A g \in Gen : /\ link[g] = "none" /\ queue[g] = <<>> /\ wire[g] = <<>>
                       /\ reader[g].at = "none" /\ writer[g].at = "none"
  BY <1>1, GenTypes DEF Init, At
<1>3. Phases /\ Alone /\ Links /\ Owners /\ NoExit
  BY <1>2 DEF Phases, Alone, Links, Owners, NoExit
<1>4. Queued /\ NeverResent /\ Unwritten /\ Greets /\ InitFirst
  BY <1>2 DEF Queued, NeverResent, Unwritten, Greets, InitFirst
<1>q. QED
  BY <1>1, <1>3, <1>4 DEF IInv, Base

LEMMA IInvStep ==
  ASSUME IInv, [Next]_vars
  PROVE  IInv'
  BY BaseStep, QueuedStep, ResentStep, UnwrittenStep, GreetsStep, FirstStep DEF IInv

LEMMA Inductive == Spec => []IInv
  BY InitIInv, IInvStep, PTL DEF Spec

\* The types: what a coroutine holds is a link or a queue of some call of
\* connect(), and self.writer is there only with a socket behind it.
THEOREM ConnectionTypes == Spec => []TypeOK
<1>1. IInv => TypeOK
  BY DEF IInv, Base
<1>q. QED
  BY <1>1, Inductive, PTL

\* Two coroutines never wait on the same stream or the same queue, however late
\* the ones of an ended link are resumed.
THEOREM NobodyTakesOver == Spec => []OneOfEach
<1>1. IInv => OneOfEach
  BY DEF IInv, Base, Owners, OneOfEach
<1>q. QED
  BY <1>1, Inductive, PTL

\* A service that stops stays disconnected.
THEOREM StopIsFinal == Spec => []StaysDown
<1>1. IInv => StaysDown
  BY DEF IInv, Base, Phases, StaysDown
<1>q. QED
  BY <1>1, Inductive, PTL

\* No message outlives its link.
THEOREM LostIsLost == Spec => []NeverResent
<1>1. IInv => NeverResent
  BY DEF IInv
<1>q. QED
  BY <1>1, Inductive, PTL

\* The first two messages on every link are the init and the subscription.
THEOREM GreetingComesFirst == Spec => []InitFirst
<1>1. IInv => InitFirst
  BY DEF IInv
<1>q. QED
  BY <1>1, Inductive, PTL

=============================================================================
