--------------------------- MODULE EventBusProofs ---------------------------
(* Proofs about EventBus for any number of clients, channels and messages: the *)
(* queue of the lock orders stores and deliveries so that no message is        *)
(* stranded; then where each message is, and how often it was received.        *)
EXTENDS EventBus, SequenceTheorems, FiniteSetTheorems, WellFoundedInduction, TLAPS

USE BusConstants

-----------------------------------------------------------------------------
(* The queue of the lock                                                     *)

QueueType == /\ lockQueue \in Seq(Client \cup {Cleaner})
             /\ \A i, j \in DOMAIN lockQueue : lockQueue[i] = lockQueue[j] => i = j

\* A newcomer is behind everybody.
LEMMA EnqueueQueue ==
  ASSUME QueueType, NEW p \in Client \cup {Cleaner}, ~Queued(p), Enqueue(p)
  PROVE  /\ QueueType'
         /\ \A q : Queued(q)' <=> (q = p \/ Queued(q))
         /\ \A q : Queued(q) => Before(q, p)'
         /\ \A q, r : Before(q, r) => Before(q, r)'
<1>1. /\ lockQueue' \in Seq(Client \cup {Cleaner})
      /\ Len(lockQueue') = Len(lockQueue) + 1
      /\ \A i \in 1..Len(lockQueue) : lockQueue'[i] = lockQueue[i]
      /\ lockQueue'[Len(lockQueue) + 1] = p
  BY AppendProperties DEF QueueType, Enqueue
<1>2. /\ DOMAIN lockQueue = 1..Len(lockQueue) /\ DOMAIN lockQueue' = 1..(Len(lockQueue) + 1)
      /\ Len(lockQueue) \in Nat
  BY <1>1, LenProperties DEF QueueType
<1>3. QueueType'
  BY <1>1, <1>2 DEF QueueType, Queued
<1>4. \A q : Queued(q)' <=> (q = p \/ Queued(q))
  BY <1>1, <1>2 DEF Queued
<1>5. \A q : Queued(q) => Before(q, p)'
  BY <1>1, <1>2 DEF Queued, Before
<1>6. \A q, r : Before(q, r) => Before(q, r)'
  BY <1>1, <1>2 DEF Before
<1> QED BY <1>3, <1>4, <1>5, <1>6

\* The holder leaves; the others keep their order.
LEMMA ReleaseQueue ==
  ASSUME QueueType, NEW p, Holds(p), Release
  PROVE  /\ QueueType'
         /\ \A q : Queued(q)' <=> (q # p /\ Queued(q))
         /\ \A q, r : q # p /\ Before(q, r) => Before(q, r)'
<1>1. /\ lockQueue # <<>> /\ lockQueue[1] = p
      /\ DOMAIN lockQueue = 1..Len(lockQueue) /\ Len(lockQueue) \in Nat /\ Len(lockQueue) > 0
  BY LenProperties, EmptySeq DEF QueueType, Holds
<1>2. /\ lockQueue' \in Seq(Client \cup {Cleaner})
      /\ Len(lockQueue') = Len(lockQueue) - 1
      /\ \A i \in 1..(Len(lockQueue) - 1) : lockQueue'[i] = lockQueue[i + 1]
  BY <1>1, HeadTailProperties DEF QueueType, Release
<1>3. DOMAIN lockQueue' = 1..(Len(lockQueue) - 1)
  BY <1>2, LenProperties
<1>4. QueueType'
  BY <1>1, <1>2, <1>3 DEF QueueType
<1>5. \A q : Queued(q)' <=> (q # p /\ Queued(q))
  <2>1. ASSUME NEW q, Queued(q)' PROVE q # p /\ Queued(q)
    BY <2>1, <1>1, <1>2, <1>3 DEF Queued, QueueType
  <2>2. ASSUME NEW q, q # p, Queued(q) PROVE Queued(q)'
    <3>1. PICK i \in 1..Len(lockQueue) : lockQueue[i] = q
      BY <2>2, <1>1 DEF Queued
    <3>2. i > 1 /\ i - 1 \in 1..(Len(lockQueue) - 1) /\ lockQueue'[i - 1] = q
      BY <3>1, <2>2, <1>1, <1>2
    <3> QED BY <3>2, <1>3 DEF Queued
  <2> QED BY <2>1, <2>2
<1>6. \A q, r : q # p /\ Before(q, r) => Before(q, r)'
  <2> SUFFICES ASSUME NEW q, NEW r, q # p, Before(q, r) PROVE Before(q, r)'
    OBVIOUS
  <2>1. PICK i, j \in 1..Len(lockQueue) : i < j /\ lockQueue[i] = q /\ lockQueue[j] = r
    BY <1>1 DEF Before
  <2>2. /\ i - 1 \in 1..(Len(lockQueue) - 1) /\ j - 1 \in 1..(Len(lockQueue) - 1)
        /\ i - 1 < j - 1 /\ lockQueue'[i - 1] = q /\ lockQueue'[j - 1] = r
    BY <2>1, <1>1, <1>2
  <2> QED BY <2>2, <1>3 DEF Before
<1> QED BY <1>4, <1>5, <1>6

\* Nobody is in front of the holder.
LEMMA HeadIsFirst ==
  ASSUME QueueType, NEW p, Holds(p)
  PROVE  \A q : ~Before(q, p)
<1>1. /\ lockQueue # <<>> /\ lockQueue[1] = p
      /\ DOMAIN lockQueue = 1..Len(lockQueue) /\ Len(lockQueue) \in Nat /\ Len(lockQueue) > 0
  BY LenProperties, EmptySeq DEF QueueType, Holds
<1> QED BY <1>1 DEF QueueType, Before

-----------------------------------------------------------------------------
(* What the cleaner keeps                                                    *)

\* f maps 1, ..., n to ever greater numbers.
Rising(f, n) == \A j, k \in 1 .. n : j < k => f[j] < f[k]

\* A set of natural numbers that is not empty has a least element.
LEMMA Least ==
  ASSUME NEW T, T \subseteq Nat, T # {}
  PROVE  \E n \in T : \A m \in T : n <= m
<1>1. PICK n \in T : \A m \in T : ~(<<m, n>> \in OpToRel(<, Nat))
  BY NatLessThanWellFounded, WFMin
<1>2. \A m \in T : <<m, n>> \in OpToRel(<, Nat) <=> m < n
  BY DEF OpToRel
<1>3. \A m \in T : ~(m < n)
  BY <1>1, <1>2, Zenon
<1>q. QED
  BY <1>3

\* The numbers of a finite set can be counted in their order.
LEMMA Counted ==
  ASSUME NEW N \in Nat, NEW P \in SUBSET (1 .. N)
  PROVE  \E f \in [1 .. Cardinality(P) -> P] : Rising(f, Cardinality(P))
<1> DEFINE Part(n) == {i \in P : i <= n}
           Ok(n) == \E f \in [1 .. Cardinality(Part(n)) -> Part(n)] : Rising(f, Cardinality(Part(n)))
           Bad == {n \in 0 .. N : ~Ok(n)}
<1>0. \A i \in P : i \in 1 .. N /\ i \in Int
  OBVIOUS
<1>1. IsFiniteSet(1 .. N)
  BY FS_Interval
<1>2. \A n \in 0 .. N : IsFiniteSet(Part(n)) /\ Cardinality(Part(n)) \in Nat
  <2>1. \A n \in 0 .. N : Part(n) \subseteq 1 .. N
    OBVIOUS
  <2>q. QED
    BY <1>1, <2>1, FS_Subset, FS_CardinalityType
<1>3. Ok(0)
  <2>0. Part(0) = {}
    <3>1. \A i \in P : ~(i <= 0)
      BY <1>0
    <3>q. QED
      BY <3>1
  <2>1. Part(0) = {} /\ Cardinality(Part(0)) = 0
    BY <2>0, FS_EmptySet
  <2>2. [i \in 1 .. 0 |-> 0] \in [1 .. Cardinality(Part(0)) -> Part(0)]
    <3>1. 1 .. 0 = {}
      OBVIOUS
    <3>q. QED
      BY <2>1, <3>1
  <2>q. QED
    BY <2>1, <2>2 DEF Rising
<1>4. ASSUME NEW n \in 1 .. N, Ok(n - 1) PROVE Ok(n)
  <2>1. PICK f \in [1 .. Cardinality(Part(n - 1)) -> Part(n - 1)] : Rising(f, Cardinality(Part(n - 1)))
    BY <1>4
  <2>2. CASE n \notin P
    <3>1. Part(n) = Part(n - 1)
      <4>1. \A i \in P : i <= n <=> i <= n - 1
        BY <1>0, <2>2
      <4>q. QED
        BY <4>1
    <3>q. QED
      BY <2>1, <3>1
  <2>3. CASE n \in P
    <3>1. Part(n) = Part(n - 1) \cup {n} /\ n \notin Part(n - 1)
      <4>1. \A i \in P : i <= n <=> i <= n - 1 \/ i = n
        BY <1>0
      <4>2. ~(n <= n - 1)
        OBVIOUS
      <4>q. QED
        BY <2>3, <4>1, <4>2
    <3>2. n - 1 \in 0 .. N
      OBVIOUS
    <3>3. PICK c \in Nat : c = Cardinality(Part(n - 1))
      BY <1>2, <3>2
    <3>4. Cardinality(Part(n)) = c + 1
      BY <1>2, <3>1, <3>2, <3>3, FS_AddElement
    <3> DEFINE g == [i \in 1 .. c + 1 |-> IF i = c + 1 THEN n ELSE f[i]]
    <3>5. \A i \in 1 .. c : f[i] \in Part(n - 1) /\ f[i] < n
      <4>1. \A i \in 1 .. c : f[i] \in Part(n - 1)
        BY <2>1, <3>3
      <4>2. \A i \in Part(n - 1) : i < n
        BY <1>0
      <4>q. QED
        BY <4>1, <4>2
    <3>6. g \in [1 .. c + 1 -> Part(n)]
      BY <3>1, <3>5
    <3>7. Rising(g, c + 1)
      BY <2>1, <3>3, <3>5 DEF Rising
    <3>q. QED
      BY <3>4, <3>6, <3>7
  <2>q. QED
    BY <2>2, <2>3
<1>5. Bad = {}
  <2>1. SUFFICES ASSUME Bad # {} PROVE FALSE
    OBVIOUS
  <2>2. PICK n \in Bad : \A m \in Bad : n <= m
    <3>1. Bad \subseteq Nat
      OBVIOUS
    <3> HIDE DEF Bad
    <3>q. QED
      BY <2>1, <3>1, Least
  <2>3. n # 0
    BY <1>3, <2>2
  <2>4. n \in 1 .. N /\ n - 1 \in 0 .. N /\ ~(n <= n - 1)
    BY <2>2, <2>3
  <2>5. Ok(n - 1)
    BY <2>2, <2>4
  <2>6. Ok(n)
    BY <2>4, <2>5, <1>4
  <2>q. QED
    BY <2>2, <2>6
<1>6. Ok(N)
  <2>1. N \in 0 .. N
    OBVIOUS
  <2> HIDE DEF Ok
  <2>q. QED
    BY <1>5, <2>1
<1>7. Part(N) = P
  <2>1. \A i \in P : i <= N
    BY <1>0
  <2>q. QED
    BY <2>1
<1>q. QED
  BY <1>6, <1>7

\* Kept takes fresh messages of the list, no place of it twice.
LEMMA KeptFacts ==
  ASSUME NEW list \in Seq(Stored)
  PROVE  /\ Kept(list) \in Seq(Stored)
         /\ \E f \in [DOMAIN Kept(list) -> DOMAIN list] :
              /\ \A k \in DOMAIN f : Kept(list)[k] = list[f[k]] /\ Fresh(list[f[k]])
              /\ \A j, k \in DOMAIN f : f[j] = f[k] => j = k
         /\ list = <<>> => Kept(list) = <<>>
<1> DEFINE at == {i \in DOMAIN list : Fresh(list[i])}
           n == Cardinality(at)
<1>1. Len(list) \in Nat /\ DOMAIN list = 1 .. Len(list) /\ \A i \in 1 .. Len(list) : list[i] \in Stored
  OBVIOUS
<1>2. at \in SUBSET (1 .. Len(list))
  BY <1>1
<1>3. n \in Nat
  <2>1. IsFiniteSet(1 .. Len(list))
    BY <1>1, FS_Interval
  <2>2. IsFiniteSet(at)
    BY <1>2, <2>1, FS_Subset
  <2>q. QED
    BY <2>2, FS_CardinalityType
<1>4. FreshAt(list) \in [1 .. n -> at] /\ \A j, k \in 1 .. n : j < k => FreshAt(list)[j] < FreshAt(list)[k]
  <2>1. \E f \in [1 .. n -> at] : \A j, k \in 1 .. n : j < k => f[j] < f[k]
    BY <1>1, <1>2, Counted DEF Rising
  <2>q. QED
    BY <2>1 DEF FreshAt
<1> DEFINE f == FreshAt(list)
<1> HIDE DEF f, n
<1>5. DOMAIN f = 1 .. n /\ \A k \in 1 .. n : f[k] \in at /\ f[k] \in 1 .. Len(list) /\ Fresh(list[f[k]])
  BY <1>1, <1>4 DEF f
<1>6. Kept(list) = [k \in 1 .. n |-> list[f[k]]]
  BY <1>5 DEF Kept, f
<1>7. Kept(list) \in Seq(Stored)
  <2>1. Kept(list) \in [1 .. n -> Stored]
    BY <1>1, <1>5, <1>6
  <2>q. QED
    BY <1>3, <2>1, SeqDef
<1>8. \A j, k \in 1 .. n : f[j] = f[k] => j = k
  <2>1. ASSUME NEW j \in 1 .. n, NEW k \in 1 .. n, f[j] = f[k] PROVE j = k
    <3>1. ~(j < k) /\ ~(k < j)
      BY <1>1, <1>3, <1>4, <1>5, <2>1 DEF f
    <3>q. QED
      BY <1>3, <3>1
  <2>q. QED
    BY <2>1
<1>9. list = <<>> => Kept(list) = <<>>
  <2>1. SUFFICES ASSUME list = <<>> PROVE Kept(list) = <<>>
    OBVIOUS
  <2>2. 1 .. Len(list) = {}
    BY <2>1
  <2>3. 1 .. n = {}
    BY <1>5, <2>2
  <2>4. n = 0
    BY <1>3, <2>3
  <2>5. Len(Kept(list)) = 0
    BY <1>6, <1>7, <2>4
  <2>q. QED
    BY <1>7, <2>5, EmptySeq
<1>10. f \in [DOMAIN Kept(list) -> DOMAIN list] /\ DOMAIN f = DOMAIN Kept(list)
  BY <1>1, <1>4, <1>5, <1>6 DEF f
<1>q. QED
  BY <1>5, <1>6, <1>7, <1>8, <1>9, <1>10

-----------------------------------------------------------------------------
(* The shape of the state                                                    *)

Shape == /\ conn \in [Client -> {"absent", "open", "gone", "lost"}]
         /\ channels \in [Client -> SUBSET Channel]
         /\ handler \in [Client -> Handlers]
         /\ waiting = [ch \in Channel |-> waiting[ch]]
         /\ QueueType

\* A client that is not connected has no subscription.
Absent == \A c \in Client : ~Present(c) => channels[c] = {}

IInv == Shape /\ Absent /\ QueueOrder /\ NoStranded

LEMMA HandlerShapes ==
  /\ Idle \in Handlers
  /\ \A chans \in SUBSET Channel : [Idle EXCEPT !.pc = "deliver", !.todo = chans] \in Handlers
  /\ \A m \in Msg, ch \in Channel :
        [Idle EXCEPT !.pc = "store", !.msg = m, !.chan = ch] \in Handlers
  /\ \A m \in Msg, S \in SUBSET Client :
        [Idle EXCEPT !.pc = "fanout", !.msg = m, !.todo = S] \in Handlers
<1>1. 0 \in 0..Lasting
  BY DEF BusConstants, Lasting
<1> QED BY <1>1 DEF Idle, Handlers, Channel

\* Steps that touch neither the subscriptions nor the queue, nor move a task in or
\* out of a section, and add nothing to the waiting list.
LEMMA QuietStep ==
  ASSUME IInv, Shape', Absent', UNCHANGED <<channels, lockQueue>>,
         \A c \in Client : Present(c)' => Present(c) \/ channels[c] = {},
         \A c \in Client : /\ handler'[c].pc \in {"store", "deliver"} <=>
                                handler[c].pc \in {"store", "deliver"}
                           /\ handler'[c].pc \in {"store", "deliver"} =>
                                /\ handler'[c].pc = handler[c].pc
                                /\ handler'[c].chan = handler[c].chan
                                /\ handler'[c].todo = handler[c].todo,
         \A ch \in Channel : waiting'[ch] # <<>> => waiting[ch] # <<>>
  PROVE  IInv'
<1>1. /\ \A c : Queued(c)' <=> Queued(c)
      /\ \A p, q : Before(p, q) => Before(p, q)'
  BY DEF Queued, Before
<1>2. QueueOrder'
  <2>1. \A c \in Client : handler'[c].pc \in {"store", "deliver"} <=> Queued(c)'
    BY <1>1 DEF IInv, QueueOrder
  <2>2. ASSUME NEW c \in Client, NEW s \in Client, handler'[s].pc = "store", Present(c)',
               handler'[s].chan \in channels'[c]
        PROVE  \E d \in Client : /\ handler'[d].pc = "deliver"
                                 /\ handler'[s].chan \in handler'[d].todo
                                 /\ Before(s, d)'
    <3>1. handler[s].pc = "store" /\ handler[s].chan = handler'[s].chan /\ Present(c)
      BY <2>2
    <3>2. PICK d \in Client : /\ handler[d].pc = "deliver" /\ handler[s].chan \in handler[d].todo
                             /\ Before(s, d)
      BY <2>2, <3>1 DEF IInv, QueueOrder
    <3> QED BY <3>1, <3>2, <1>1
  <2> QED BY <2>1, <2>2 DEF QueueOrder
<1>3. NoStranded'
  <2> SUFFICES ASSUME NEW c \in Client, NEW ch \in Channel, waiting'[ch] # <<>>, Present(c)',
                      ch \in channels'[c]
               PROVE  \E d \in Client : handler'[d].pc = "deliver" /\ ch \in handler'[d].todo
    BY DEF NoStranded
  <2>1. PICK d \in Client : handler[d].pc = "deliver" /\ ch \in handler[d].todo
    BY DEF IInv, NoStranded
  <2> QED BY <2>1
<1> QED BY <1>2, <1>3 DEF IInv

LEMMA PeerSteps ==
  ASSUME IInv, NEW c \in Client, Connect(c) \/ PeerLeaves(c) \/ LossNoticed(c)
  PROVE  IInv'
<1>1. /\ UNCHANGED <<channels, lockQueue, handler, waiting>>
      /\ \E st \in {"open", "gone", "lost"} : conn' = [conn EXCEPT ![c] = st]
  BY DEF Connect, PeerLeaves, LossNoticed
<1>2. Shape'
  BY <1>1 DEF IInv, Shape, QueueType
<1>3. \A d \in Client : Present(d)' => Present(d) \/ channels[d] = {}
  BY <1>1 DEF Present, IInv, Absent
<1>4. Absent'
  BY <1>1 DEF Present, IInv, Absent, Shape
<1> QED BY <1>1, <1>2, <1>3, <1>4, QuietStep

LEMMA UnsubscribeStep ==
  ASSUME IInv, NEW c \in Client, NEW chans \in SUBSET Topic, ReadUnsubscribe(c, chans)
  PROVE  IInv'
<1>1. /\ UNCHANGED <<conn, lockQueue, handler, waiting>>
      /\ channels' = [channels EXCEPT ![c] = @ \ chans]
  BY DEF ReadUnsubscribe
<1>2. Shape'
  BY <1>1 DEF IInv, Shape, QueueType
<1>3. \A d \in Client : channels'[d] \subseteq channels[d]
  BY <1>1 DEF IInv, Shape
<1>4. Absent'
  BY <1>1, <1>3 DEF Present, IInv, Absent
<1>5. QueueOrder'
  BY <1>1, <1>3 DEF IInv, QueueOrder, Queued, Before, Present
<1>6. NoStranded'
  BY <1>1, <1>3 DEF IInv, NoStranded, Present
<1> QED BY <1>2, <1>4, <1>5, <1>6 DEF IInv

\* A client's task ends; it was not in a section.
LEMMA LeaveStep ==
  ASSUME IInv, NEW c \in Client, handler[c].pc \in {"read", "fanout"}, Leave(c),
         UNCHANGED <<waiting, lockQueue>>
  PROVE  IInv'
<1>1. /\ conn' = [conn EXCEPT ![c] = "absent"] /\ channels' = [channels EXCEPT ![c] = {}]
      /\ handler' = [handler EXCEPT ![c] = Idle]
  BY DEF Leave, Become
<1>2. Shape'
  BY <1>1, HandlerShapes DEF IInv, Shape, QueueType
<1>3. /\ \A d \in Client : channels'[d] \subseteq channels[d] /\ (Present(d)' => Present(d))
      /\ ~Present(c)'
  BY <1>1 DEF IInv, Shape, Present
<1>4. Absent'
  BY <1>1, <1>3 DEF Present, IInv, Absent, Shape
<1>5. /\ handler'[c].pc = "read"
      /\ \A d \in Client \ {c} : handler'[d] = handler[d]
  BY <1>1 DEF Idle, IInv, Shape
<1>6. /\ \A d : Queued(d)' <=> Queued(d)
      /\ \A p, q : Before(p, q) => Before(p, q)'
  BY DEF Queued, Before
<1>7. QueueOrder'
  <2>1. \A d \in Client : handler'[d].pc \in {"store", "deliver"} <=> Queued(d)'
    BY <1>5, <1>6 DEF IInv, QueueOrder
  <2>2. ASSUME NEW d \in Client, NEW s \in Client, handler'[s].pc = "store", Present(d)',
               handler'[s].chan \in channels'[d]
        PROVE  \E e \in Client : /\ handler'[e].pc = "deliver"
                                 /\ handler'[s].chan \in handler'[e].todo
                                 /\ Before(s, e)'
    <3>1. s # c /\ handler'[s] = handler[s] /\ Present(d) /\ handler[s].chan \in channels[d]
      BY <2>2, <1>5, <1>3
    <3>2. PICK e \in Client : /\ handler[e].pc = "deliver" /\ handler[s].chan \in handler[e].todo
                             /\ Before(s, e)
      BY <3>1, <2>2 DEF IInv, QueueOrder
    <3>3. e # c
      BY <3>2
    <3> QED BY <3>1, <3>2, <3>3, <1>5, <1>6
  <2> QED BY <2>1, <2>2 DEF QueueOrder
<1>8. NoStranded'
  <2> SUFFICES ASSUME NEW d \in Client, NEW ch \in Channel, waiting'[ch] # <<>>, Present(d)',
                      ch \in channels'[d]
               PROVE  \E e \in Client : handler'[e].pc = "deliver" /\ ch \in handler'[e].todo
    BY DEF NoStranded
  <2>1. PICK e \in Client : handler[e].pc = "deliver" /\ ch \in handler[e].todo
    BY <1>3 DEF IInv, NoStranded
  <2> QED BY <2>1, <1>5
<1> QED BY <1>2, <1>4, <1>7, <1>8 DEF IInv

\* A client subscribes and queues for the lock, behind every store.
LEMMA SubscribeStep ==
  ASSUME IInv, NEW c \in Client, NEW chans \in SUBSET Channel, Present(c),
         handler[c].pc = "read", StartDelivery(c, chans),
         UNCHANGED <<conn, waiting>>,
         channels' \in [Client -> SUBSET Channel],
         \A d \in Client \ {c} : channels'[d] = channels[d],
         \A ch \in channels'[c] : ch \in chans \/ ch \in channels[c]
  PROVE  IInv'
<1>1. handler' = [handler EXCEPT ![c] = [Idle EXCEPT !.pc = "deliver", !.todo = chans]]
      /\ Enqueue(c)
  BY DEF StartDelivery, Become
<1>2. ~Queued(c)
  BY DEF IInv, QueueOrder
<1>3. /\ QueueType'
      /\ \A q : Queued(q)' <=> (q = c \/ Queued(q))
      /\ \A q : Queued(q) => Before(q, c)'
      /\ \A q, r : Before(q, r) => Before(q, r)'
  BY <1>1, <1>2, EnqueueQueue DEF IInv, Shape
<1>4. /\ handler'[c].pc = "deliver" /\ handler'[c].todo = chans
      /\ \A d \in Client \ {c} : handler'[d] = handler[d]
  BY <1>1 DEF Idle, IInv, Shape
<1>5. Shape'
  BY <1>1, <1>3, HandlerShapes DEF IInv, Shape
<1>6. Absent'
  BY DEF IInv, Absent, Present
<1>7. QueueOrder'
  <2>1. \A d \in Client : handler'[d].pc \in {"store", "deliver"} <=> Queued(d)'
    BY <1>3, <1>4 DEF IInv, QueueOrder
  <2>2. ASSUME NEW d \in Client, NEW s \in Client, handler'[s].pc = "store", Present(d)',
               handler'[s].chan \in channels'[d]
        PROVE  \E e \in Client : /\ handler'[e].pc = "deliver"
                                 /\ handler'[s].chan \in handler'[e].todo
                                 /\ Before(s, e)'
    <3>1. s # c /\ handler'[s] = handler[s] /\ Queued(s)
      BY <2>2, <1>4 DEF IInv, QueueOrder
    <3>2. CASE handler[s].chan \in chans
      BY <3>1, <3>2, <1>3, <1>4
    <3>3. CASE handler[s].chan \notin chans
      <4>1. Present(d) /\ handler[s].chan \in channels[d]
        BY <2>2, <3>1, <3>3 DEF Present
      <4>2. PICK e \in Client : /\ handler[e].pc = "deliver"
                               /\ handler[s].chan \in handler[e].todo /\ Before(s, e)
        BY <4>1, <3>1, <2>2 DEF IInv, QueueOrder
      <4>3. e # c
        BY <4>2
      <4> QED BY <4>2, <4>3, <3>1, <1>3, <1>4
    <3> QED BY <3>2, <3>3
  <2> QED BY <2>1, <2>2 DEF QueueOrder
<1>8. NoStranded'
  <2> SUFFICES ASSUME NEW d \in Client, NEW ch \in Channel, waiting'[ch] # <<>>, Present(d)',
                      ch \in channels'[d]
               PROVE  \E e \in Client : handler'[e].pc = "deliver" /\ ch \in handler'[e].todo
    BY DEF NoStranded
  <2>1. CASE ch \in chans
    BY <2>1, <1>4
  <2>2. CASE ch \notin chans
    <3>1. Present(d) /\ ch \in channels[d]
      BY <2>2 DEF Present
    <3>2. PICK e \in Client : handler[e].pc = "deliver" /\ ch \in handler[e].todo
      BY <3>1 DEF IInv, NoStranded
    <3> QED BY <3>2, <1>4
  <2> QED BY <2>1, <2>2
<1> QED BY <1>5, <1>6, <1>7, <1>8 DEF IInv

\* A message nobody is subscribed to queues for the lock; the others are fanned out.
LEMMA DataStep ==
  ASSUME IInv, NEW c \in Client, NEW ch \in Channel, NEW m \in Msg, ReadData(c, ch, m)
  PROVE  IInv'
<1>1. /\ Reading(c) /\ UNCHANGED <<conn, channels, waiting>>
  BY DEF ReadData
<1>2. CASE Recipients(ch) = {}
  <2>1. /\ handler' = [handler EXCEPT ![c] = [Idle EXCEPT !.pc = "store", !.msg = m, !.chan = ch]]
        /\ Enqueue(c)
    BY <1>2 DEF ReadData, Become
  <2>2. ~Queued(c)
    BY <1>1 DEF IInv, QueueOrder, Reading
  <2>3. /\ QueueType'
        /\ \A q : Queued(q)' <=> (q = c \/ Queued(q))
        /\ \A q, r : Before(q, r) => Before(q, r)'
    BY <2>1, <2>2, EnqueueQueue DEF IInv, Shape
  <2>4. /\ handler'[c].pc = "store" /\ handler'[c].chan = ch
        /\ \A d \in Client \ {c} : handler'[d] = handler[d]
    BY <2>1 DEF Idle, IInv, Shape
  <2>5. Shape' /\ Absent'
    BY <1>1, <2>1, <2>3, HandlerShapes DEF IInv, Shape, Absent, Present
  <2>6. QueueOrder'
    <3>1. \A d \in Client : handler'[d].pc \in {"store", "deliver"} <=> Queued(d)'
      BY <2>3, <2>4 DEF IInv, QueueOrder
    <3>2. ASSUME NEW d \in Client, NEW s \in Client, handler'[s].pc = "store", Present(d)',
                 handler'[s].chan \in channels'[d]
          PROVE  \E e \in Client : /\ handler'[e].pc = "deliver"
                                   /\ handler'[s].chan \in handler'[e].todo
                                   /\ Before(s, e)'
      <4>1. s # c
        BY <1>1, <1>2, <2>4, <3>2 DEF Recipients, Subscribers, Present
      <4>2. PICK e \in Client : /\ handler[e].pc = "deliver" /\ handler[s].chan \in handler[e].todo
                               /\ Before(s, e)
        BY <4>1, <3>2, <2>4, <1>1 DEF IInv, QueueOrder, Present
      <4>3. e # c
        BY <4>2, <1>1 DEF Reading
      <4> QED BY <4>1, <4>2, <4>3, <2>3, <2>4
    <3> QED BY <3>1, <3>2 DEF QueueOrder
  <2>7. NoStranded'
    <3> SUFFICES ASSUME NEW d \in Client, NEW k \in Channel, waiting'[k] # <<>>, Present(d)',
                        k \in channels'[d]
                 PROVE  \E e \in Client : handler'[e].pc = "deliver" /\ k \in handler'[e].todo
      BY DEF NoStranded
    <3>1. PICK e \in Client : handler[e].pc = "deliver" /\ k \in handler[e].todo
      BY <1>1 DEF IInv, NoStranded, Present
    <3>2. e # c
      BY <3>1, <1>1 DEF Reading
    <3> QED BY <3>1, <3>2, <2>4
  <2> QED BY <2>5, <2>6, <2>7 DEF IInv
<1>3. CASE Recipients(ch) # {}
  <2>1. /\ handler' = [handler EXCEPT ![c] =
                         [Idle EXCEPT !.pc = "fanout", !.msg = m, !.todo = Recipients(ch)]]
        /\ UNCHANGED lockQueue
    BY <1>3 DEF ReadData, Become
  <2>2. Recipients(ch) \in SUBSET Client
    BY DEF Recipients, Subscribers
  <2>3. Shape' /\ Absent'
    BY <1>1, <2>1, <2>2, HandlerShapes DEF IInv, Shape, QueueType, Absent, Present
  <2>4. /\ handler[c].pc = "read" /\ handler'[c].pc = "fanout"
        /\ \A d \in Client \ {c} : handler'[d] = handler[d]
    BY <1>1, <2>1 DEF Idle, IInv, Shape, Reading
  <2>5. \A d \in Client : /\ handler'[d].pc \in {"store", "deliver"} <=>
                               handler[d].pc \in {"store", "deliver"}
                          /\ handler'[d].pc \in {"store", "deliver"} => handler'[d] = handler[d]
    BY <2>4
  <2>6. \A d \in Client : Present(d)' => Present(d)
    BY <1>1 DEF Present
  <2> QED BY <1>1, <2>1, <2>3, <2>5, <2>6, QuietStep
<1> QED BY <1>2, <1>3

\* The holder stores its message: a delivery is behind it if the channel has a
\* subscriber by now.
LEMMA StoreStep ==
  ASSUME IInv, NEW c \in Client, Store(c)
  PROVE  IInv'
<1>1. /\ handler[c].pc = "store" /\ Holds(c) /\ Release
      /\ handler' = [handler EXCEPT ![c] = Idle]
      /\ waiting' = [waiting EXCEPT ![handler[c].chan] =
                        Append(@, [msg |-> handler[c].msg, age |-> handler[c].age])]
      /\ UNCHANGED <<conn, channels>>
  BY DEF Store, Become
<1>2. /\ QueueType'
      /\ \A q : Queued(q)' <=> (q # c /\ Queued(q))
      /\ \A q, r : q # c /\ Before(q, r) => Before(q, r)'
  BY <1>1, ReleaseQueue DEF IInv, Shape
<1>3. handler'[c].pc = "read" /\ \A d \in Client \ {c} : handler'[d] = handler[d]
  BY <1>1 DEF Idle, IInv, Shape
<1>4. Shape' /\ Absent'
  BY <1>1, <1>2, HandlerShapes DEF IInv, Shape, Absent, Present
<1>5. QueueOrder'
  <2>1. \A d \in Client : handler'[d].pc \in {"store", "deliver"} <=> Queued(d)'
    BY <1>2, <1>3 DEF IInv, QueueOrder
  <2>2. ASSUME NEW d \in Client, NEW s \in Client, handler'[s].pc = "store", Present(d)',
               handler'[s].chan \in channels'[d]
        PROVE  \E e \in Client : /\ handler'[e].pc = "deliver"
                                 /\ handler'[s].chan \in handler'[e].todo
                                 /\ Before(s, e)'
    <3>1. s # c /\ handler'[s] = handler[s]
      BY <2>2, <1>3
    <3>2. PICK e \in Client : /\ handler[e].pc = "deliver" /\ handler[s].chan \in handler[e].todo
                             /\ Before(s, e)
      BY <3>1, <2>2, <1>1 DEF IInv, QueueOrder, Present
    <3>3. e # c
      BY <3>2, <1>1
    <3> QED BY <3>1, <3>2, <3>3, <1>2, <1>3
  <2> QED BY <2>1, <2>2 DEF QueueOrder
<1>6. NoStranded'
  <2> SUFFICES ASSUME NEW d \in Client, NEW k \in Channel, waiting'[k] # <<>>, Present(d)',
                      k \in channels'[d]
               PROVE  \E e \in Client : handler'[e].pc = "deliver" /\ k \in handler'[e].todo
    BY DEF NoStranded
  <2>1. Present(d) /\ k \in channels[d]
    BY <1>1 DEF Present
  <2>2. \E e \in Client : handler[e].pc = "deliver" /\ k \in handler[e].todo
    <3>1. CASE k = handler[c].chan
      BY <3>1, <2>1, <1>1 DEF IInv, QueueOrder
    <3>2. CASE k # handler[c].chan
      <4>1. waiting'[k] = waiting[k]
        BY <1>1, <3>2 DEF IInv, Shape
      <4> QED BY <4>1, <2>1 DEF IInv, NoStranded
    <3> QED BY <3>1, <3>2
  <2>3. PICK e \in Client : handler[e].pc = "deliver" /\ k \in handler[e].todo
    BY <2>2
  <2> QED BY <2>3, <1>1, <1>3
<1> QED BY <1>4, <1>5, <1>6 DEF IInv

\* The holder leaves its section with nothing left in the channels it delivered.
LEMMA DeliveryDoneStep ==
  ASSUME IInv, NEW c \in Client, DeliveryDone(c)
  PROVE  IInv'
<1>1. /\ handler[c].pc = "deliver" /\ Holds(c) /\ Release
      /\ \A ch \in handler[c].todo : waiting[ch] = <<>>
      /\ handler' = [handler EXCEPT ![c] = Idle]
      /\ UNCHANGED <<conn, channels, waiting>>
  BY DEF DeliveryDone, Become
<1>2. /\ QueueType'
      /\ \A q : Queued(q)' <=> (q # c /\ Queued(q))
      /\ \A q, r : q # c /\ Before(q, r) => Before(q, r)'
  BY <1>1, ReleaseQueue DEF IInv, Shape
<1>3. handler'[c].pc = "read" /\ \A d \in Client \ {c} : handler'[d] = handler[d]
  BY <1>1 DEF Idle, IInv, Shape
<1>4. Shape' /\ Absent'
  BY <1>1, <1>2, HandlerShapes DEF IInv, Shape, Absent, Present
<1>5. \A s : ~Before(s, c)
  BY <1>1, HeadIsFirst DEF IInv, Shape
<1>6. QueueOrder'
  <2>1. \A d \in Client : handler'[d].pc \in {"store", "deliver"} <=> Queued(d)'
    BY <1>2, <1>3 DEF IInv, QueueOrder
  <2>2. ASSUME NEW d \in Client, NEW s \in Client, handler'[s].pc = "store", Present(d)',
               handler'[s].chan \in channels'[d]
        PROVE  \E e \in Client : /\ handler'[e].pc = "deliver"
                                 /\ handler'[s].chan \in handler'[e].todo
                                 /\ Before(s, e)'
    <3>1. s # c /\ handler'[s] = handler[s]
      BY <2>2, <1>3
    <3>2. PICK e \in Client : /\ handler[e].pc = "deliver" /\ handler[s].chan \in handler[e].todo
                             /\ Before(s, e)
      BY <3>1, <2>2, <1>1 DEF IInv, QueueOrder, Present
    <3>3. e # c
      BY <3>2, <1>5
    <3> QED BY <3>1, <3>2, <3>3, <1>2, <1>3
  <2> QED BY <2>1, <2>2 DEF QueueOrder
<1>7. NoStranded'
  <2> SUFFICES ASSUME NEW d \in Client, NEW k \in Channel, waiting'[k] # <<>>, Present(d)',
                      k \in channels'[d]
               PROVE  \E e \in Client : handler'[e].pc = "deliver" /\ k \in handler'[e].todo
    BY DEF NoStranded
  <2>1. PICK e \in Client : handler[e].pc = "deliver" /\ k \in handler[e].todo
    BY <1>1 DEF IInv, NoStranded, Present
  <2>2. e # c
    BY <2>1, <1>1
  <2> QED BY <2>1, <2>2, <1>3
<1> QED BY <1>4, <1>6, <1>7 DEF IInv

\* The other steps keep the queue, or add the cleaner to it or take it out.
LEMMA OtherWork ==
  ASSUME IInv,
         \/ \E c \in Client, ch \in Channel : DeliverOne(c, ch)
         \/ \E c, d \in Client : FanoutWrite(c, d)
         \/ Tick
  PROVE  IInv'
<1>s. ASSUME Shape', UNCHANGED <<conn, channels, lockQueue>>,
             \A c \in Client : /\ handler'[c].pc \in {"store", "deliver"} <=>
                                    handler[c].pc \in {"store", "deliver"}
                               /\ handler'[c].pc \in {"store", "deliver"} =>
                                    /\ handler'[c].pc = handler[c].pc
                                    /\ handler'[c].chan = handler[c].chan
                                    /\ handler'[c].todo = handler[c].todo,
             \A ch \in Channel : waiting'[ch] # <<>> => waiting[ch] # <<>>
      PROVE  IInv'
  <2>1. Absent' /\ \A c \in Client : Present(c)' => Present(c)
    BY <1>s DEF IInv, Absent, Present
  <2> QED BY <1>s, <2>1, QuietStep
<1>1. ASSUME NEW c \in Client, NEW ch \in Channel, DeliverOne(c, ch) PROVE IInv'
  <2>1. /\ UNCHANGED <<conn, channels, handler, lockQueue>> /\ waiting[ch] # <<>>
        /\ waiting' = [waiting EXCEPT ![ch] = Popped(@)]
    BY <1>1 DEF DeliverOne
  <2>2. Shape'
    BY <2>1 DEF IInv, Shape, QueueType
  <2>3. \A k \in Channel : waiting'[k] # <<>> => waiting[k] # <<>>
    BY <2>1 DEF IInv, Shape
  <2> QED BY <2>1, <2>2, <2>3, <1>s
<1>2. ASSUME NEW c \in Client, NEW d \in Client, FanoutWrite(c, d) PROVE IInv'
  <2>1. /\ UNCHANGED <<conn, channels, waiting, lockQueue>> /\ handler[c].pc = "fanout"
        /\ \E h \in {Idle, [handler[c] EXCEPT !.todo = @ \ {d}]} :
              handler' = [handler EXCEPT ![c] = h]
    BY <1>2 DEF FanoutWrite, Become
  <2>2. \A h \in {Idle, [handler[c] EXCEPT !.todo = @ \ {d}]} :
           h \in Handlers /\ h.pc \notin {"store", "deliver"}
    <3>1. Idle \in Handlers /\ Idle.pc = "read"
      BY HandlerShapes DEF Idle
    <3>2. handler[c] \in Handlers /\ handler[c].todo \ {d} \in SUBSET Channel
      BY DEF IInv, Shape, Handlers
    <3>3. [handler[c] EXCEPT !.todo = @ \ {d}] \in Handlers
      BY <3>2 DEF Handlers
    <3>4. [handler[c] EXCEPT !.todo = @ \ {d}].pc = "fanout"
      BY <2>1, <3>2 DEF Handlers
    <3> QED BY <3>1, <3>3, <3>4
  <2>3. Shape'
    BY <2>1, <2>2 DEF IInv, Shape, QueueType
  <2>4. /\ handler'[c].pc \notin {"store", "deliver"}
        /\ \A e \in Client \ {c} : handler'[e] = handler[e]
    BY <2>1, <2>2 DEF IInv, Shape
  <2> QED BY <2>1, <2>3, <2>4, <1>s
<1>3. CASE Tick
  <2>1. /\ UNCHANGED <<conn, channels, lockQueue>>
        /\ waiting' = [ch \in Channel |->
                          [i \in DOMAIN waiting[ch] |-> [waiting[ch][i] EXCEPT !.age = Older(@)]]]
        /\ handler' = [c \in Client |-> IF handler[c].pc = "store"
                                        THEN [handler[c] EXCEPT !.age = Older(@)] ELSE handler[c]]
    BY <1>3 DEF Tick
  <2>2. \A n \in 0..Lasting : Older(n) \in 0..Lasting
    BY DEF Older, Lasting, BusConstants
  <2>3. \A c \in Client : /\ handler'[c] \in Handlers /\ handler'[c].pc = handler[c].pc
                          /\ handler'[c].chan = handler[c].chan
                          /\ handler'[c].todo = handler[c].todo
    BY <2>1, <2>2 DEF IInv, Shape, Handlers
  <2>4. Shape'
    BY <2>1, <2>3 DEF IInv, Shape, QueueType
  <2>5. \A ch \in Channel : waiting[ch] = <<>> => waiting'[ch] = <<>>
    BY <2>1
  <2> QED BY <2>1, <2>3, <2>4, <2>5, <1>s
<1> QED BY <1>1, <1>2, <1>3

LEMMA CleanerSteps ==
  ASSUME IInv, CleanerWakes \/ Clean
  PROVE  IInv'
<1>0. UNCHANGED <<conn, channels, handler>>
  BY DEF CleanerWakes, Clean
<1>n. Cleaner \notin Client
  BY DEF Cleaner, BusConstants, Channel
<1>1. /\ QueueType'
      /\ \A c \in Client : Queued(c)' <=> Queued(c)
      /\ \A p \in Client : \A q : Before(p, q) => Before(p, q)'
  <2>1. CASE CleanerWakes
    <3>1. ~Queued(Cleaner) /\ Enqueue(Cleaner)
      BY <2>1, LenProperties DEF CleanerWakes, Contains, Queued, IInv, Shape, QueueType
    <3> QED BY <3>1, <1>n, EnqueueQueue DEF IInv, Shape
  <2>2. CASE Clean
    <3>1. Holds(Cleaner) /\ Release
      BY <2>2 DEF Clean
    <3> QED BY <3>1, <1>n, ReleaseQueue DEF IInv, Shape
  <2> QED BY <2>1, <2>2
<1>2. /\ waiting' = [ch \in Channel |-> waiting'[ch]]
      /\ \A ch \in Channel : waiting[ch] = <<>> => waiting'[ch] = <<>>
  <2>1. CASE CleanerWakes
    BY <2>1 DEF CleanerWakes, IInv, Shape
  <2>2. CASE Clean
    <3>1. Kept(<<>>) = <<>>
      <4>1. <<>> \in Seq(Stored)
        OBVIOUS
      <4>q. QED
        BY <4>1, KeptFacts
    <3> QED BY <2>2, <3>1 DEF Clean
  <2> QED BY <2>1, <2>2
<1>3. Shape' /\ Absent'
  BY <1>0, <1>1, <1>2 DEF IInv, Shape, Absent, Present
<1>4. QueueOrder'
  <2>1. \A c \in Client : handler'[c].pc \in {"store", "deliver"} <=> Queued(c)'
    BY <1>0, <1>1 DEF IInv, QueueOrder
  <2>2. ASSUME NEW c \in Client, NEW s \in Client, handler'[s].pc = "store", Present(c)',
               handler'[s].chan \in channels'[c]
        PROVE  \E d \in Client : /\ handler'[d].pc = "deliver"
                                 /\ handler'[s].chan \in handler'[d].todo
                                 /\ Before(s, d)'
    <3>1. PICK d \in Client : /\ handler[d].pc = "deliver" /\ handler[s].chan \in handler[d].todo
                             /\ Before(s, d)
      BY <2>2, <1>0 DEF IInv, QueueOrder, Present
    <3> QED BY <3>1, <1>0, <1>1
  <2> QED BY <2>1, <2>2 DEF QueueOrder
<1>5. NoStranded'
  BY <1>0, <1>2 DEF IInv, NoStranded, Present
<1> QED BY <1>3, <1>4, <1>5 DEF IInv

-----------------------------------------------------------------------------
(* The theorems                                                              *)

LEMMA InitIInv == Init => IInv
<1> SUFFICES ASSUME Init PROVE IInv
  OBVIOUS
<1>1. /\ \A c \in Client : conn[c] = "absent" /\ channels[c] = {} /\ handler[c] = Idle
      /\ lockQueue = <<>>
      /\ \A ch \in Channel : waiting[ch] = <<>>
  BY DEF Init
<1>2. Idle.pc = "read"
  BY DEF Idle
<1>3. QueueType /\ \A c : ~Queued(c)
  BY <1>1 DEF QueueType, Queued
<1>4. Shape
  BY <1>3, HandlerShapes DEF Init, Shape
<1> QED BY <1>1, <1>2, <1>3, <1>4 DEF IInv, Absent, QueueOrder, NoStranded

LEMMA ReadSteps == ASSUME IInv, NEW c \in Client, Read(c) PROVE IInv'
<1>1. CASE ReadInit(c)
  <2>1. /\ Present(c) /\ handler[c].pc = "read" /\ StartDelivery(c, {c})
        /\ UNCHANGED <<conn, waiting>> /\ channels' = [channels EXCEPT ![c] = {c}]
    BY <1>1 DEF ReadInit, Reading
  <2>2. {c} \in SUBSET Channel
    BY DEF Channel
  <2>3. channels' \in [Client -> SUBSET Channel] /\ channels'[c] = {c}
        /\ \A d \in Client \ {c} : channels'[d] = channels[d]
    BY <2>1, <2>2 DEF IInv, Shape
  <2> QED BY <2>1, <2>2, <2>3, SubscribeStep
<1>2. ASSUME NEW chans \in SUBSET Topic, ReadSubscribe(c, chans) PROVE IInv'
  <2>1. /\ Present(c) /\ handler[c].pc = "read" /\ StartDelivery(c, NewChannels(c, chans))
        /\ UNCHANGED <<conn, waiting>> /\ channels' = [channels EXCEPT ![c] = @ \cup chans]
    BY <1>2 DEF ReadSubscribe, Reading
  <2>2. NewChannels(c, chans) \in SUBSET Channel
    BY DEF NewChannels, Channel
  <2>3. channels' \in [Client -> SUBSET Channel] /\ channels'[c] = channels[c] \cup chans
        /\ \A d \in Client \ {c} : channels'[d] = channels[d]
    BY <2>1 DEF IInv, Shape, Channel
  <2>4. \A ch \in channels'[c] : ch \in NewChannels(c, chans) \/ ch \in channels[c]
    BY <2>3 DEF NewChannels
  <2> QED BY <2>1, <2>2, <2>3, <2>4, SubscribeStep
<1>3. ASSUME NEW chans \in SUBSET Topic, ReadUnsubscribe(c, chans) PROVE IInv'
  BY <1>3, UnsubscribeStep
<1>4. ASSUME NEW ch \in Channel, NEW m \in Msg, ReadData(c, ch, m) PROVE IInv'
  BY <1>4, DataStep
<1> QED BY <1>1, <1>2, <1>3, <1>4 DEF Read

LEMMA NextIInv == IInv /\ [Next]_vars => IInv'
<1> SUFFICES ASSUME IInv, [Next]_vars PROVE IInv'
  OBVIOUS
<1>1. ASSUME NEW c \in Client, Work(c) PROVE IInv'
  <2>1. ASSUME NEW d \in Client, FanoutFails(c, d) PROVE IInv'
    <3>1. handler[c].pc \in {"read", "fanout"} /\ Leave(c) /\ UNCHANGED <<waiting, lockQueue>>
      BY <2>1 DEF FanoutFails
    <3> QED BY <3>1, LeaveStep
  <2> QED BY <1>1, <2>1, StoreStep, DeliveryDoneStep, OtherWork DEF Work
<1>2. ASSUME NEW c \in Client, Peer(c) PROVE IInv'
  <2>1. CASE ReadEof(c)
    <3>1. handler[c].pc \in {"read", "fanout"} /\ Leave(c) /\ UNCHANGED <<waiting, lockQueue>>
      BY <2>1 DEF ReadEof, Reading
    <3> QED BY <3>1, LeaveStep
  <2> QED BY <1>2, <2>1, PeerSteps DEF Peer
<1>3. CASE Tick
  BY <1>3, OtherWork
<1>4. CASE UNCHANGED vars
  BY <1>4 DEF IInv, Shape, Absent, QueueOrder, NoStranded, QueueType, Queued, Before, Present, vars
<1> QED BY <1>1, <1>2, <1>3, <1>4, ReadSteps, CleanerSteps DEF Next

\* No message is stranded: the look-up of the sender and the look-up of the
\* subscriber cannot both miss, however the tasks of the bus interleave.
THEOREM NothingIsStranded == Spec => []NoStranded
<1>1. IInv => NoStranded
  BY DEF IInv
<1> QED BY <1>1, InitIInv, NextIInv, PTL DEF Spec

\* Stores and deliveries are served in the order in which they queued.
THEOREM StoresPrecedeDeliveries == Spec => []QueueOrder
<1>1. IInv => QueueOrder
  BY DEF IInv
<1> QED BY <1>1, InitIInv, NextIInv, PTL DEF Spec

-----------------------------------------------------------------------------
(* The invariant                                                              *)

\* The types, those of the lock's queue aside.
Typed ==
  /\ named \subseteq Client
  /\ waiting \in [Channel -> Seq(Stored)]
  /\ cleaner \in 0..Period
  /\ got \in [Client -> [Msg -> {0, 1}]]
  /\ fate \in [Msg -> {"new", "fanned", "stored", "taken", "expired", "dropped"}]
  /\ due \in [Msg -> SUBSET Client]
  /\ breaks \in 0..MaxBreaks

\* What a task of the bus works at.
Tasked ==
  \A c \in Client :
    /\ handler[c].pc \in {"read", "deliver"} => handler[c].msg = Nobody
    /\ handler[c].pc \in {"store", "fanout"} => handler[c].msg \in Msg
    /\ handler[c].pc = "store" => handler[c].chan \in Channel
    /\ handler[c].pc = "fanout" => handler[c].todo \subseteq Client
    /\ handler[c].pc # "read" => Present(c)

\* A message is at one place of one list.
Listed(m) == \E ch \in Channel : \E i \in DOMAIN waiting[ch] : waiting[ch][i].msg = m

ListedOnce ==
  \A ch, k \in Channel : \A i \in DOMAIN waiting[ch], j \in DOMAIN waiting[k] :
    waiting[ch][i].msg = waiting[k][j].msg => ch = k /\ i = j

\* It is with one task, or in a list, and its fate tells which.
OnePlace ==
  /\ \A c, d \in Client : handler[c].msg = handler[d].msg /\ handler[c].msg \in Msg => c = d
  /\ \A c \in Client, m \in Msg :
       handler[c].msg = m => fate[m] = (IF handler[c].pc = "store" THEN "stored" ELSE "fanned") /\ ~Listed(m)
  /\ \A m \in Msg : Listed(m) => fate[m] = "stored"

\* How often it was received, by its fate.
Copies ==
  \A m \in Msg :
    /\ fate[m] \in {"new", "stored", "expired", "dropped"} => \A c \in Client : got[c][m] = 0
    /\ fate[m] = "taken" => \E d \in Client : got[d][m] = 1 /\ \A c \in Client \ {d} : got[c][m] = 0
    /\ \A c \in Client : handler[c].pc = "fanout" /\ handler[c].msg = m =>
         \A d \in handler[c].todo : got[d][m] = 0

\* As long as no peer went away.
Unbroken ==
  breaks = MaxBreaks =>
    /\ \A c \in Client : conn[c] \in {"absent", "open"}
    /\ \A c \in Client : handler[c].pc = "fanout" => \A d \in handler[c].todo : conn[d] = "open"
    /\ \A m \in Msg : fate[m] # "dropped"
    /\ \A m \in Msg : fate[m] = "fanned" =>
         \A d \in due[m] : \/ got[d][m] = 1
                           \/ \E c \in Client : /\ handler[c].pc = "fanout" /\ handler[c].msg = m
                                                /\ d \in handler[c].todo

DInv == Typed /\ Tasked /\ ListedOnce /\ OnePlace /\ Copies /\ Unbroken

-----------------------------------------------------------------------------
(* Steps that move no message                                                 *)

\* A step that moves no message, and ends work on one only where a peer went away.
LEMMA Frame ==
  ASSUME DInv, UNCHANGED <<waiting, got, fate>>, Typed', Tasked',
         \A c \in Client : handler'[c].msg \in Msg => handler'[c] = handler[c],
         \A m \in Msg : due'[m] \subseteq due[m],
         breaks' = MaxBreaks =>
           /\ breaks = MaxBreaks
           /\ \A c \in Client : conn'[c] \in {"absent", "open"}
           /\ \A c \in Client : conn[c] = "open" => conn'[c] = "open"
           /\ \A c \in Client : handler[c].msg \in Msg => handler'[c] = handler[c]
  PROVE  DInv'
<1>1. ListedOnce' /\ \A m : Listed(m)' <=> Listed(m)
  BY DEF DInv, ListedOnce, Listed
<1>2. OnePlace'
  <2>1. \A c \in Client, m \in Msg :
          handler'[c].msg = m => /\ fate'[m] = (IF handler'[c].pc = "store" THEN "stored" ELSE "fanned")
                                 /\ ~Listed(m)'
    BY <1>1 DEF DInv, OnePlace
  <2>2. \A c, d \in Client : handler'[c].msg = handler'[d].msg /\ handler'[c].msg \in Msg => c = d
    BY DEF DInv, OnePlace
  <2>3. \A m \in Msg : Listed(m)' => fate'[m] = "stored"
    BY <1>1 DEF DInv, OnePlace
  <2>q. QED
    BY <2>1, <2>2, <2>3 DEF OnePlace
<1>3. Copies'
  BY DEF DInv, Copies
<1>4. Unbroken'
  <2>1. SUFFICES ASSUME breaks' = MaxBreaks PROVE Unbroken'
    BY DEF Unbroken
  <2>2. /\ breaks = MaxBreaks
        /\ \A c \in Client : handler[c].msg \in Msg => handler'[c] = handler[c]
    BY <2>1
  <2>3. ASSUME NEW c \in Client, handler'[c].pc = "fanout", NEW d \in handler'[c].todo
        PROVE  conn'[d] = "open"
    <3>1. handler'[c].msg \in Msg /\ d \in Client
      BY <2>3 DEF Tasked
    <3>2. handler'[c] = handler[c]
      BY <3>1
    <3>3. conn[d] = "open"
      BY <2>2, <2>3, <3>2 DEF DInv, Unbroken
    <3>q. QED
      BY <2>1, <3>1, <3>3
  <2>4. ASSUME NEW m \in Msg, fate'[m] = "fanned", NEW d \in due'[m]
        PROVE  \/ got'[d][m] = 1
               \/ \E c \in Client : /\ handler'[c].pc = "fanout" /\ handler'[c].msg = m
                                    /\ d \in handler'[c].todo
    BY <2>2, <2>4 DEF DInv, Unbroken
  <2>q. QED
    BY <2>1, <2>2, <2>3, <2>4 DEF DInv, Unbroken
<1>q. QED
  BY <1>1, <1>2, <1>3, <1>4 DEF DInv

LEMMA ConnSteps ==
  ASSUME Shape, DInv, NEW c \in Client, Connect(c) \/ PeerLeaves(c) \/ LossNoticed(c)
  PROVE  DInv'
<1>1. UNCHANGED <<named, handler, waiting, cleaner, got, fate, due>>
  BY DEF Connect, PeerLeaves, LossNoticed
<1>2. breaks' \in 0..MaxBreaks
  BY DEF Connect, PeerLeaves, LossNoticed, DInv, Typed
<1>3. \E st \in {"open", "gone", "lost"} : conn' = [conn EXCEPT ![c] = st]
  BY DEF Connect, PeerLeaves, LossNoticed
<1>4. Typed'
  BY <1>1, <1>2 DEF DInv, Typed
<1>5. \A d \in Client : Present(d) => Present(d)'
  BY <1>3 DEF Shape, Present
<1>6. Tasked'
  BY <1>1, <1>5 DEF DInv, Tasked
<1>7. ASSUME breaks' = MaxBreaks
      PROVE  /\ breaks = MaxBreaks
             /\ \A d \in Client : conn'[d] \in {"absent", "open"}
             /\ \A d \in Client : conn[d] = "open" => conn'[d] = "open"
  <2>1. CASE Connect(c)
    <3>1. UNCHANGED breaks /\ conn' = [conn EXCEPT ![c] = "open"]
      BY <2>1 DEF Connect
    <3>q. QED
      BY <1>7, <3>1 DEF DInv, Unbroken, Shape
  <2>2. CASE PeerLeaves(c)
    <3>1. breaks > 0 /\ breaks' = breaks - 1 /\ breaks <= MaxBreaks /\ breaks \in Nat /\ MaxBreaks \in Nat
      BY <2>2 DEF PeerLeaves, DInv, Typed
    <3>q. QED
      BY <1>7, <3>1
  <2>3. CASE LossNoticed(c)
    <3>1. UNCHANGED breaks /\ conn[c] = "gone"
      BY <2>3 DEF LossNoticed
    <3>q. QED
      BY <1>7, <3>1 DEF DInv, Unbroken
  <2>q. QED
    BY <2>1, <2>2, <2>3
<1>q. QED
  BY <1>1, <1>4, <1>6, <1>7, Frame

\* The task of a client ends: a peer went away before.
LEMMA LeaveSteps ==
  ASSUME Shape, DInv, NEW c \in Client, ReadEof(c) \/ \E d \in Client : FanoutFails(c, d)
  PROVE  DInv'
<1>1. /\ Leave(c) /\ UNCHANGED <<waiting, cleaner, got, fate, breaks>>
  BY DEF ReadEof, FanoutFails
<1>2. /\ conn' = [conn EXCEPT ![c] = "absent"] /\ named' = named \ {c}
      /\ due' = [m \in Msg |-> due[m] \ {c}] /\ handler' = [handler EXCEPT ![c] = Idle]
  BY <1>1 DEF Leave, Become
<1>3. /\ Idle.msg = Nobody /\ Idle.pc = "read"
      /\ handler'[c] = Idle /\ \A d \in Client \ {c} : handler'[d] = handler[d] /\ conn'[d] = conn[d]
  BY <1>2 DEF Idle, Shape
<1>4. Typed'
  BY <1>1, <1>2 DEF DInv, Typed
<1>5. Tasked'
  BY <1>3 DEF DInv, Tasked, Present
<1>6. \A d \in Client : handler'[d].msg \in Msg => handler'[d] = handler[d]
  BY <1>3
<1>7. \A m \in Msg : due'[m] \subseteq due[m]
  BY <1>2
<1>8. breaks # MaxBreaks
  <2>1. CASE ReadEof(c)
    BY <2>1 DEF ReadEof, DInv, Unbroken
  <2>2. ASSUME NEW d \in Client, FanoutFails(c, d) PROVE breaks # MaxBreaks
    BY <2>2 DEF FanoutFails, Raises, DInv, Unbroken
  <2>q. QED
    BY <2>1, <2>2
<1>q. QED
  BY <1>1, <1>4, <1>5, <1>6, <1>7, <1>8, Frame

\* Asking for the lock for a delivery, and being done with one.
LEMMA SectionSteps ==
  ASSUME Shape, DInv,
         \/ \E c \in Client : ReadInit(c) \/ DeliveryDone(c)
         \/ \E c \in Client, chans \in SUBSET Topic : ReadSubscribe(c, chans) \/ ReadUnsubscribe(c, chans)
         \/ CleanerWakes
  PROVE  DInv'
<1>1. /\ UNCHANGED <<conn, waiting, cleaner, got, fate, due, breaks>>
      /\ named' \subseteq named \cup Client
  BY DEF ReadInit, DeliveryDone, ReadSubscribe, ReadUnsubscribe, CleanerWakes
<1>2. Typed'
  BY <1>1 DEF DInv, Typed
<1>3. \A c \in Client : Present(c)' <=> Present(c)
  BY <1>1 DEF Present
<1>4. ASSUME UNCHANGED handler PROVE DInv'
  <2>1. Tasked'
    BY <1>3, <1>4 DEF DInv, Tasked
  <2>q. QED
    BY <1>1, <1>2, <1>4, <2>1, Frame DEF DInv, Unbroken
<1>5. ASSUME NEW c \in Client, handler[c].pc \in {"read", "deliver"}, Present(c), NEW h,
             handler' = [handler EXCEPT ![c] = h], h.pc \in {"read", "deliver"}, h.msg = Nobody
      PROVE  DInv'
  <2>1. handler'[c] = h /\ \A d \in Client \ {c} : handler'[d] = handler[d]
    BY <1>5 DEF Shape
  <2>2. Tasked'
    BY <1>3, <1>5, <2>1 DEF DInv, Tasked
  <2>3. \A d \in Client : handler'[d].msg \in Msg => handler'[d] = handler[d]
    BY <1>5, <2>1
  <2>4. \A d \in Client : handler[d].msg \in Msg => handler'[d] = handler[d]
    BY <1>5, <2>1 DEF DInv, Tasked
  <2>q. QED
    BY <1>1, <1>2, <2>2, <2>3, <2>4, Frame DEF DInv, Unbroken
<1>6. Idle.pc = "read" /\ Idle.msg = Nobody
  BY DEF Idle
<1>7. \A chans : /\ [Idle EXCEPT !.pc = "deliver", !.todo = chans].pc = "deliver"
                 /\ [Idle EXCEPT !.pc = "deliver", !.todo = chans].msg = Nobody
  BY DEF Idle
<1>8. ASSUME NEW c \in Client, Reading(c), NEW chans, StartDelivery(c, chans) PROVE DInv'
  BY <1>5, <1>7, <1>8 DEF StartDelivery, Become, Reading
<1>9. ASSUME NEW c \in Client, DeliveryDone(c) PROVE DInv'
  BY <1>5, <1>6, <1>9 DEF DeliveryDone, Become, DInv, Tasked
<1>10. ASSUME NEW c \in Client, ReadInit(c) PROVE DInv'
  BY <1>8, <1>10 DEF ReadInit
<1>11. ASSUME NEW c \in Client, NEW chans \in SUBSET Topic, ReadSubscribe(c, chans) PROVE DInv'
  BY <1>8, <1>11 DEF ReadSubscribe
<1>12. ASSUME NEW c \in Client, NEW chans \in SUBSET Topic, ReadUnsubscribe(c, chans) PROVE DInv'
  BY <1>4, <1>12 DEF ReadUnsubscribe
<1>13. CASE CleanerWakes
  BY <1>4, <1>13 DEF CleanerWakes
<1>q. QED
  BY <1>9, <1>10, <1>11, <1>12, <1>13

-----------------------------------------------------------------------------
(* Steps that move a message                                                  *)

\* A new message goes to its subscribers, or on its way to the waiting list.
LEMMA ReadDataStep ==
  ASSUME Shape, DInv, NEW c \in Client, NEW ch \in Channel, NEW m \in Msg, ReadData(c, ch, m)
  PROVE  DInv'
<1>1. /\ Reading(c) /\ fate[m] = "new"
      /\ UNCHANGED <<conn, named, channels, waiting, cleaner, got, breaks>>
  BY DEF ReadData
<1>2. PICK h, new :
        /\ handler' = [handler EXCEPT ![c] = h] /\ fate' = [fate EXCEPT ![m] = new]
        /\ h.msg = m
        /\ \/ /\ h.pc = "store" /\ h.chan = ch /\ new = "stored" /\ UNCHANGED due
           \/ /\ h.pc = "fanout" /\ h.todo = Subscribers(ch) /\ new = "fanned"
              /\ due' = [due EXCEPT ![m] = Subscribers(ch)]
  <2>1. CASE Recipients(ch) = {}
    <3>1. /\ handler' = [handler EXCEPT ![c] = [Idle EXCEPT !.pc = "store", !.msg = m, !.chan = ch]]
          /\ fate' = [fate EXCEPT ![m] = "stored"] /\ UNCHANGED due
      BY <2>1 DEF ReadData, Become
    <3>2. /\ [Idle EXCEPT !.pc = "store", !.msg = m, !.chan = ch].pc = "store"
          /\ [Idle EXCEPT !.pc = "store", !.msg = m, !.chan = ch].msg = m
          /\ [Idle EXCEPT !.pc = "store", !.msg = m, !.chan = ch].chan = ch
      BY DEF Idle
    <3>q. QED
      BY <3>1, <3>2
  <2>2. CASE Recipients(ch) # {}
    <3>1. /\ handler' = [handler EXCEPT ![c] =
                           [Idle EXCEPT !.pc = "fanout", !.msg = m, !.todo = Subscribers(ch)]]
          /\ fate' = [fate EXCEPT ![m] = "fanned"]
          /\ due' = [due EXCEPT ![m] = Subscribers(ch)]
      BY <2>2 DEF ReadData, Become, Recipients
    <3>2. /\ [Idle EXCEPT !.pc = "fanout", !.msg = m, !.todo = Subscribers(ch)].pc = "fanout"
          /\ [Idle EXCEPT !.pc = "fanout", !.msg = m, !.todo = Subscribers(ch)].msg = m
          /\ [Idle EXCEPT !.pc = "fanout", !.msg = m, !.todo = Subscribers(ch)].todo = Subscribers(ch)
      BY DEF Idle
    <3>q. QED
      BY <3>1, <3>2
  <2>q. QED
    BY <2>1, <2>2
<1>3. Subscribers(ch) \subseteq Client /\ \A d \in Subscribers(ch) : Present(d)
  BY DEF Subscribers
<1>4. /\ handler'[c] = h /\ \A d \in Client \ {c} : handler'[d] = handler[d]
      /\ fate'[m] = new /\ \A n \in Msg \ {m} : fate'[n] = fate[n]
  BY <1>2 DEF Shape, DInv, Typed
<1>5. Typed'
  <2>1. new \in {"stored", "fanned"}
    BY <1>2
  <2>2. due' \in [Msg -> SUBSET Client]
    BY <1>2, <1>3 DEF DInv, Typed
  <2>q. QED
    BY <1>1, <1>2, <2>1, <2>2 DEF DInv, Typed
<1>6. Tasked'
  BY <1>1, <1>2, <1>3, <1>4 DEF DInv, Tasked, Present, Reading
<1>7. ListedOnce' /\ \A n : Listed(n)' <=> Listed(n)
  BY <1>1 DEF DInv, ListedOnce, Listed
<1>8. ~Listed(m) /\ \A d \in Client : handler[d].msg # m
  BY <1>1 DEF DInv, OnePlace
<1>9. OnePlace'
  <2>1. \A d, e \in Client : handler'[d].msg = handler'[e].msg /\ handler'[d].msg \in Msg => d = e
    BY <1>2, <1>4, <1>8 DEF DInv, OnePlace
  <2>2. ASSUME NEW d \in Client, NEW n \in Msg, handler'[d].msg = n
        PROVE  /\ fate'[n] = (IF handler'[d].pc = "store" THEN "stored" ELSE "fanned")
               /\ ~Listed(n)'
    <3>1. CASE d = c
      BY <1>2, <1>4, <1>7, <1>8, <2>2, <3>1
    <3>2. CASE d # c
      <4>1. handler[d].msg = n /\ n # m /\ handler'[d] = handler[d] /\ fate'[n] = fate[n]
        BY <1>4, <1>8, <2>2, <3>2
      <4>q. QED
        BY <1>7, <4>1 DEF DInv, OnePlace
    <3>q. QED
      BY <3>1, <3>2
  <2>3. \A n \in Msg : Listed(n)' => fate'[n] = "stored"
    BY <1>4, <1>7, <1>8 DEF DInv, OnePlace
  <2>q. QED
    BY <2>1, <2>2, <2>3 DEF OnePlace
<1>10. Copies'
  <2>1. ASSUME NEW n \in Msg, n # m
        PROVE  /\ fate'[n] = fate[n]
               /\ \A d \in Client : handler'[d].msg = n => handler'[d] = handler[d]
    BY <1>2, <1>4, <2>1
  <2>2. \A d \in Client : got'[d][m] = 0
    BY <1>1 DEF DInv, Copies
  <2>3. ASSUME NEW n \in Msg
        PROVE  /\ fate'[n] \in {"new", "stored", "expired", "dropped"} =>
                    \A e \in Client : got'[e][n] = 0
               /\ fate'[n] = "taken" =>
                    \E d \in Client : got'[d][n] = 1 /\ \A e \in Client \ {d} : got'[e][n] = 0
               /\ \A d \in Client : handler'[d].pc = "fanout" /\ handler'[d].msg = n =>
                    \A e \in handler'[d].todo : got'[e][n] = 0
    <3>1. CASE n # m
      BY <1>1, <2>1, <3>1 DEF DInv, Copies
    <3>2. CASE n = m
      BY <1>2, <1>4, <1>6, <2>2, <3>2 DEF Tasked
    <3>q. QED
      BY <3>1, <3>2
  <2>q. QED
    BY <2>3 DEF Copies
<1>11. Unbroken'
  <2>1. SUFFICES ASSUME breaks' = MaxBreaks PROVE Unbroken'
    BY DEF Unbroken
  <2>2. breaks = MaxBreaks /\ \A d \in Client : conn'[d] \in {"absent", "open"}
    BY <1>1, <2>1 DEF DInv, Unbroken
  <2>3. ASSUME NEW d \in Client, handler'[d].pc = "fanout", NEW e \in handler'[d].todo
        PROVE  conn'[e] = "open"
    <3>1. CASE d = c
      <4>1. e \in Subscribers(ch)
        BY <1>2, <1>4, <2>3, <3>1
      <4>q. QED
        BY <1>1, <1>3, <2>2, <4>1 DEF Present
    <3>2. CASE d # c
      BY <1>1, <1>4, <2>2, <2>3, <3>2 DEF DInv, Unbroken
    <3>q. QED
      BY <3>1, <3>2
  <2>4. \A n \in Msg : fate'[n] # "dropped"
    BY <1>2, <1>4, <2>2 DEF DInv, Unbroken
  <2>5. ASSUME NEW n \in Msg, fate'[n] = "fanned", NEW e \in due'[n]
        PROVE  \/ got'[e][n] = 1
               \/ \E d \in Client : /\ handler'[d].pc = "fanout" /\ handler'[d].msg = n
                                    /\ e \in handler'[d].todo
    <3>1. CASE n = m
      <4>1. h.pc = "fanout" /\ h.todo = Subscribers(ch) /\ due'[m] = Subscribers(ch)
        BY <1>2, <1>4, <2>5, <3>1 DEF DInv, Typed
      <4>q. QED
        BY <1>2, <1>4, <2>5, <3>1, <4>1
    <3>2. CASE n # m
      <4>1. fate[n] = "fanned" /\ e \in due[n]
        BY <1>2, <1>4, <2>5, <3>2 DEF DInv, Typed
      <4>2. CASE got[e][n] = 1
        BY <1>1, <4>2
      <4>3. ASSUME NEW d \in Client, handler[d].pc = "fanout", handler[d].msg = n, e \in handler[d].todo
            PROVE  handler'[d] = handler[d]
        BY <1>1, <1>4, <4>3 DEF Reading
      <4>q. QED
        BY <2>2, <4>1, <4>2, <4>3 DEF DInv, Unbroken
    <3>q. QED
      BY <3>1, <3>2
  <2>q. QED
    BY <2>2, <2>3, <2>4, <2>5 DEF Unbroken
<1>q. QED
  BY <1>5, <1>6, <1>7, <1>9, <1>10, <1>11 DEF DInv

\* The message of a task is put into its list.
LEMMA StoreMove ==
  ASSUME Shape, DInv, NEW c \in Client, Store(c)
  PROVE  DInv'
<1>1. /\ handler[c].pc = "store" /\ handler' = [handler EXCEPT ![c] = Idle]
      /\ UNCHANGED <<conn, named, channels, cleaner, got, fate, due, breaks>>
  BY DEF Store, Become
<1>2. PICK ch \in Channel, m \in Msg : ch = handler[c].chan /\ m = handler[c].msg
  BY <1>1 DEF DInv, Tasked
<1>3. PICK s \in Stored : s = [msg |-> m, age |-> handler[c].age]
  BY DEF Shape, Handlers, Stored
<1>4. waiting' = [waiting EXCEPT ![ch] = Append(@, s)] /\ s.msg = m
  BY <1>2, <1>3 DEF Store
<1>5. /\ waiting[ch] \in Seq(Stored) /\ waiting'[ch] = Append(waiting[ch], s)
      /\ \A k \in Channel \ {ch} : waiting'[k] = waiting[k]
  BY <1>4 DEF DInv, Typed
<1>6. /\ Len(waiting[ch]) \in Nat /\ DOMAIN waiting[ch] = 1..Len(waiting[ch])
      /\ DOMAIN waiting'[ch] = 1..(Len(waiting[ch]) + 1) /\ waiting'[ch] \in Seq(Stored)
      /\ \A i \in 1..Len(waiting[ch]) : waiting'[ch][i] = waiting[ch][i]
      /\ waiting'[ch][Len(waiting[ch]) + 1] = s
  BY <1>5
<1>7. ~Listed(m) /\ fate[m] = "stored" /\ \A d \in Client \ {c} : handler[d].msg # m
  BY <1>1, <1>2 DEF DInv, OnePlace
<1>8. \A n : Listed(n)' <=> Listed(n) \/ n = m
  <2>1. ASSUME NEW n, Listed(n)' PROVE Listed(n) \/ n = m
    <3>1. PICK k \in Channel : \E i \in DOMAIN waiting'[k] : waiting'[k][i].msg = n
      BY <2>1 DEF Listed
    <3>2. CASE k # ch
      BY <1>5, <3>1, <3>2 DEF Listed
    <3>3. CASE k = ch
      BY <1>4, <1>6, <3>1, <3>3 DEF Listed
    <3>q. QED
      BY <3>2, <3>3
  <2>2. ASSUME NEW n, Listed(n) PROVE Listed(n)'
    <3>1. PICK k \in Channel : \E i \in DOMAIN waiting[k] : waiting[k][i].msg = n
      BY <2>2 DEF Listed
    <3>2. CASE k # ch
      BY <1>5, <3>1, <3>2 DEF Listed
    <3>3. CASE k = ch
      BY <1>6, <3>1, <3>3 DEF Listed
    <3>q. QED
      BY <3>2, <3>3
  <2>3. Listed(m)'
    BY <1>4, <1>6 DEF Listed
  <2>q. QED
    BY <2>1, <2>2, <2>3
<1>9. ListedOnce'
  <2>1. ASSUME NEW k \in Channel, NEW i \in DOMAIN waiting'[k]
        PROVE  \/ i \in DOMAIN waiting[k] /\ waiting'[k][i] = waiting[k][i] /\ waiting'[k][i].msg # m
               \/ k = ch /\ i = Len(waiting[ch]) + 1 /\ waiting'[k][i].msg = m
    <3>1. CASE k # ch
      BY <1>5, <1>7, <2>1, <3>1 DEF Listed
    <3>2. CASE k = ch
      BY <1>4, <1>6, <1>7, <2>1, <3>2 DEF Listed
    <3>q. QED
      BY <3>1, <3>2
  <2>q. QED
    BY <2>1 DEF DInv, ListedOnce
<1>10. /\ Idle.msg = Nobody /\ Idle.pc = "read"
       /\ handler'[c] = Idle /\ \A d \in Client \ {c} : handler'[d] = handler[d]
  BY <1>1 DEF Idle, Shape
<1>11. Typed'
  <2>1. waiting' \in [Channel -> Seq(Stored)]
    BY <1>4, <1>5, <1>6 DEF DInv, Typed
  <2>q. QED
    BY <1>1, <2>1 DEF DInv, Typed
<1>12. Tasked'
  BY <1>1, <1>10 DEF DInv, Tasked, Present
<1>13. OnePlace'
  <2>1. \A d, e \in Client : handler'[d].msg = handler'[e].msg /\ handler'[d].msg \in Msg => d = e
    BY <1>10 DEF DInv, OnePlace
  <2>2. ASSUME NEW d \in Client, NEW n \in Msg, handler'[d].msg = n
        PROVE  /\ fate'[n] = (IF handler'[d].pc = "store" THEN "stored" ELSE "fanned")
               /\ ~Listed(n)'
    <3>1. d # c /\ handler'[d] = handler[d] /\ n # m
      BY <1>7, <1>10, <2>2
    <3>q. QED
      BY <1>1, <1>8, <2>2, <3>1 DEF DInv, OnePlace
  <2>3. \A n \in Msg : Listed(n)' => fate'[n] = "stored"
    BY <1>1, <1>7, <1>8 DEF DInv, OnePlace
  <2>q. QED
    BY <2>1, <2>2, <2>3 DEF OnePlace
<1>14. Copies'
  BY <1>1, <1>10 DEF DInv, Copies
<1>15. Unbroken'
  <2>1. \A d \in Client : handler'[d].pc = "fanout" <=> handler[d].pc = "fanout"
    BY <1>1, <1>10
  <2>2. \A d \in Client : handler[d].pc = "fanout" => handler'[d] = handler[d]
    BY <1>1, <1>10
  <2>q. QED
    BY <1>1, <2>1, <2>2 DEF DInv, Unbroken
<1>q. QED
  BY <1>9, <1>11, <1>12, <1>13, <1>14, <1>15 DEF DInv

\* Lists that only lose messages.
LEMMA Fewer ==
  ASSUME ListedOnce,
         \A k \in Channel :
           \E f \in [DOMAIN waiting'[k] -> DOMAIN waiting[k]] :
             /\ \A i \in DOMAIN waiting'[k] : waiting'[k][i].msg = waiting[k][f[i]].msg
             /\ \A i, j \in DOMAIN waiting'[k] : f[i] = f[j] => i = j
  PROVE  ListedOnce' /\ \A m : Listed(m)' => Listed(m)
<1>1. ASSUME NEW m, Listed(m)' PROVE Listed(m)
  <2>1. PICK k \in Channel : \E i \in DOMAIN waiting'[k] : waiting'[k][i].msg = m
    BY <1>1 DEF Listed
  <2>q. QED
    BY <2>1 DEF Listed
<1>2. ASSUME NEW k \in Channel, NEW l \in Channel, NEW i \in DOMAIN waiting'[k],
             NEW j \in DOMAIN waiting'[l], waiting'[k][i].msg = waiting'[l][j].msg
      PROVE  k = l /\ i = j
  <2>1. PICK f \in [DOMAIN waiting'[k] -> DOMAIN waiting[k]] :
             /\ \A x \in DOMAIN waiting'[k] : waiting'[k][x].msg = waiting[k][f[x]].msg
             /\ \A x, y \in DOMAIN waiting'[k] : f[x] = f[y] => x = y
    OBVIOUS
  <2>2. PICK g \in [DOMAIN waiting'[l] -> DOMAIN waiting[l]] :
             \A x \in DOMAIN waiting'[l] : waiting'[l][x].msg = waiting[l][g[x]].msg
    OBVIOUS
  <2>3. waiting[k][f[i]].msg = waiting[l][g[j]].msg /\ f[i] \in DOMAIN waiting[k] /\ g[j] \in DOMAIN waiting[l]
    BY <1>2, <2>1, <2>2
  <2>4. k = l /\ f[i] = g[j]
    BY <2>3 DEF ListedOnce
  <2>5. j \in DOMAIN waiting'[k] /\ waiting'[k][j].msg = waiting[k][f[j]].msg /\ f[j] \in DOMAIN waiting[k]
    BY <2>1, <2>4
  <2>6. f[j] = f[i]
    BY <1>2, <2>1, <2>3, <2>5 DEF ListedOnce
  <2>q. QED
    BY <2>1, <2>4, <2>5, <2>6
<1>q. QED
  BY <1>1, <1>2 DEF ListedOnce

\* The holder of the lock takes the newest message of a list.
LEMMA DeliverOneStep ==
  ASSUME Shape, DInv, NEW c \in Client, NEW ch \in Channel, DeliverOne(c, ch)
  PROVE  DInv'
<1>1. /\ waiting[ch] # <<>> /\ waiting' = [waiting EXCEPT ![ch] = Front(@)]
      /\ UNCHANGED <<conn, named, channels, handler, lockQueue, cleaner, due, breaks>>
      /\ handler[c].pc = "deliver"
  BY DEF DeliverOne, Popped
<1>2. /\ Len(waiting[ch]) \in Nat \ {0} /\ DOMAIN waiting[ch] = 1..Len(waiting[ch])
      /\ waiting[ch] \in Seq(Stored)
      /\ \A i \in 1..Len(waiting[ch]) : waiting[ch][i] \in Stored
  BY <1>1, EmptySeq, LenProperties DEF DInv, Typed
<1>3. /\ waiting'[ch] \in Seq(Stored) /\ DOMAIN waiting'[ch] = 1..(Len(waiting[ch]) - 1)
      /\ \A i \in 1..(Len(waiting[ch]) - 1) : waiting'[ch][i] = waiting[ch][i]
      /\ \A k \in Channel \ {ch} : waiting'[k] = waiting[k]
  <2>1. waiting'[ch] = SubSeq(waiting[ch], 1, Len(waiting[ch]) - 1)
    BY <1>1 DEF Front, DInv, Typed
  <2>2. \A k \in Channel \ {ch} : waiting'[k] = waiting[k]
    BY <1>1 DEF DInv, Typed
  <2>q. QED
    BY <1>2, <2>1, <2>2
<1>4. PICK m \in Msg : m = waiting[ch][Len(waiting[ch])].msg
  BY <1>2 DEF Stored
<1>5. Last(waiting[ch]).msg = m /\ Listed(m)
  BY <1>2, <1>4 DEF Last, Listed
<1>6. /\ got' = (IF conn[c] = "open" THEN [got EXCEPT ![c][m] = @ + 1] ELSE got)
      /\ fate' = [fate EXCEPT ![m] = IF conn[c] = "open" THEN "taken" ELSE "dropped"]
  BY <1>5 DEF DeliverOne, Write
<1>7. fate[m] = "stored" /\ (\A d \in Client : got[d][m] = 0) /\ \A d \in Client : handler[d].msg # m
  BY <1>5 DEF DInv, OnePlace, Copies
<1>8. \A n \in Msg \ {m} : fate'[n] = fate[n] /\ \A d \in Client : got'[d][n] = got[d][n]
  BY <1>6 DEF DInv, Typed
<1>9. \/ /\ conn[c] = "open" /\ fate'[m] = "taken" /\ got'[c][m] = 1
         /\ \A d \in Client \ {c} : got'[d][m] = 0
      \/ conn[c] # "open" /\ fate'[m] = "dropped" /\ \A d \in Client : got'[d][m] = 0
  BY <1>6, <1>7 DEF DInv, Typed
<1>10. Typed'
  <2>1. waiting' \in [Channel -> Seq(Stored)]
    BY <1>1, <1>3 DEF DInv, Typed
  <2>2. got' \in [Client -> [Msg -> {0, 1}]]
    BY <1>6, <1>7 DEF DInv, Typed
  <2>3. fate' \in [Msg -> {"new", "fanned", "stored", "taken", "expired", "dropped"}]
    BY <1>6 DEF DInv, Typed
  <2>q. QED
    BY <1>1, <2>1, <2>2, <2>3 DEF DInv, Typed
<1>11. Tasked'
  BY <1>1 DEF DInv, Tasked, Present
<1>12. ListedOnce' /\ \A n : Listed(n)' => Listed(n)
  <2>1. ASSUME NEW k \in Channel
        PROVE  \E f \in [DOMAIN waiting'[k] -> DOMAIN waiting[k]] :
                 /\ \A i \in DOMAIN waiting'[k] : waiting'[k][i].msg = waiting[k][f[i]].msg
                 /\ \A i, j \in DOMAIN waiting'[k] : f[i] = f[j] => i = j
    <3>1. /\ DOMAIN waiting'[k] \subseteq DOMAIN waiting[k]
          /\ \A i \in DOMAIN waiting'[k] : waiting'[k][i] = waiting[k][i]
      BY <1>2, <1>3
    <3>2. [i \in DOMAIN waiting'[k] |-> i] \in [DOMAIN waiting'[k] -> DOMAIN waiting[k]]
      BY <3>1
    <3>q. QED
      BY <3>1, <3>2
  <2>q. QED
    BY <2>1, Fewer DEF DInv
<1>13. ~Listed(m)'
  <2>1. SUFFICES ASSUME NEW k \in Channel, NEW i \in DOMAIN waiting'[k], waiting'[k][i].msg = m
                 PROVE  FALSE
    BY DEF Listed
  <2>2. i \in DOMAIN waiting[k] /\ waiting[k][i].msg = m
    <3>1. CASE k = ch
      <4>1. i \in 1..Len(waiting[ch]) /\ waiting'[ch][i] = waiting[ch][i]
        BY <1>2, <1>3, <2>1, <3>1
      <4>q. QED
        BY <1>2, <2>1, <3>1, <4>1
    <3>2. CASE k # ch
      BY <1>3, <2>1, <3>2
    <3>q. QED
      BY <3>1, <3>2
  <2>3. Len(waiting[ch]) \in DOMAIN waiting[ch] /\ waiting[ch][Len(waiting[ch])].msg = m
    BY <1>2, <1>4
  <2>4. k = ch /\ i = Len(waiting[ch])
    BY <2>2, <2>3 DEF DInv, ListedOnce
  <2>q. QED
    BY <1>2, <1>3, <2>1, <2>4
<1>14. OnePlace'
  <2>1. \A d, e \in Client : handler'[d].msg = handler'[e].msg /\ handler'[d].msg \in Msg => d = e
    BY <1>1 DEF DInv, OnePlace
  <2>2. ASSUME NEW d \in Client, NEW n \in Msg, handler'[d].msg = n
        PROVE  /\ fate'[n] = (IF handler'[d].pc = "store" THEN "stored" ELSE "fanned")
               /\ ~Listed(n)'
    <3>1. n # m /\ fate'[n] = fate[n]
      BY <1>1, <1>7, <1>8, <2>2
    <3>q. QED
      BY <1>1, <1>12, <2>2, <3>1 DEF DInv, OnePlace
  <2>3. \A n \in Msg : Listed(n)' => fate'[n] = "stored"
    BY <1>8, <1>12, <1>13 DEF DInv, OnePlace
  <2>q. QED
    BY <2>1, <2>2, <2>3 DEF OnePlace
<1>15. Copies'
  <2>1. ASSUME NEW n \in Msg
        PROVE  /\ fate'[n] \in {"new", "stored", "expired", "dropped"} =>
                    \A e \in Client : got'[e][n] = 0
               /\ fate'[n] = "taken" =>
                    \E d \in Client : got'[d][n] = 1 /\ \A e \in Client \ {d} : got'[e][n] = 0
               /\ \A d \in Client : handler'[d].pc = "fanout" /\ handler'[d].msg = n =>
                    \A e \in handler'[d].todo : got'[e][n] = 0
    <3>1. CASE n = m
      BY <1>1, <1>7, <1>9, <3>1
    <3>2. CASE n # m
      <4>1. fate'[n] = fate[n] /\ \A d \in Client : got'[d][n] = got[d][n]
        BY <1>8, <3>2
      <4>2. \A d \in Client : handler[d].pc = "fanout" => handler[d].todo \subseteq Client
        BY DEF DInv, Tasked
      <4>q. QED
        BY <1>1, <4>1, <4>2 DEF DInv, Copies
    <3>q. QED
      BY <3>1, <3>2
  <2>q. QED
    BY <2>1 DEF Copies
<1>16. Unbroken'
  <2>1. SUFFICES ASSUME breaks = MaxBreaks PROVE Unbroken'
    BY <1>1 DEF Unbroken
  <2>2. conn[c] = "open"
    BY <1>1, <2>1 DEF DInv, Unbroken, Tasked, Present
  <2>3. \A n \in Msg : fate'[n] # "dropped"
    BY <1>8, <1>9, <2>1, <2>2 DEF DInv, Unbroken
  <2>4. ASSUME NEW n \in Msg, fate'[n] = "fanned", NEW d \in due'[n]
        PROVE  \/ got'[d][n] = 1
               \/ \E e \in Client : /\ handler'[e].pc = "fanout" /\ handler'[e].msg = n
                                    /\ d \in handler'[e].todo
    <3>1. n # m /\ fate[n] = "fanned" /\ d \in due[n] /\ d \in Client
      BY <1>1, <1>8, <1>9, <2>4 DEF DInv, Typed
    <3>q. QED
      BY <1>1, <1>8, <2>1, <3>1 DEF DInv, Unbroken
  <2>q. QED
    BY <1>1, <2>1, <2>3, <2>4 DEF DInv, Unbroken
<1>q. QED
  BY <1>10, <1>11, <1>12, <1>14, <1>15, <1>16 DEF DInv

\* One subscriber of a message gets it.
LEMMA FanoutWriteStep ==
  ASSUME Shape, DInv, NEW c \in Client, NEW d \in Client, FanoutWrite(c, d)
  PROVE  DInv'
<1>1. /\ handler[c].pc = "fanout" /\ d \in handler[c].todo
      /\ UNCHANGED <<conn, named, channels, waiting, cleaner, fate, due, breaks>>
  BY DEF FanoutWrite
<1>2. PICK m \in Msg : m = handler[c].msg
  BY <1>1 DEF DInv, Tasked
<1>3. /\ got' = (IF conn[d] = "open" THEN [got EXCEPT ![d][m] = @ + 1] ELSE got)
  BY <1>2 DEF FanoutWrite, Write
<1>4. /\ got[d][m] = 0 /\ fate[m] = "fanned"
      /\ \A e \in Client \ {c} : handler[e].msg # m
  BY <1>1, <1>2 DEF DInv, Copies, OnePlace
<1>5. PICK h \in Handlers :
        /\ handler' = [handler EXCEPT ![c] = h]
        /\ \/ h = Idle /\ handler[c].todo = {d}
           \/ h.pc = "fanout" /\ h.msg = m /\ h.todo = handler[c].todo \ {d}
  <2>1. CASE handler[c].todo = {d}
    BY <2>1, HandlerShapes DEF FanoutWrite, Become
  <2>2. CASE handler[c].todo # {d}
    <3>1. handler' = [handler EXCEPT ![c] = [handler[c] EXCEPT !.todo = @ \ {d}]]
      BY <2>2 DEF FanoutWrite, Become
    <3>2. handler[c] \in Handlers
      BY DEF Shape
    <3>3. [handler[c] EXCEPT !.todo = @ \ {d}] \in Handlers
      BY <3>2 DEF Handlers
    <3>4. /\ [handler[c] EXCEPT !.todo = @ \ {d}].pc = "fanout"
          /\ [handler[c] EXCEPT !.todo = @ \ {d}].msg = m
          /\ [handler[c] EXCEPT !.todo = @ \ {d}].todo = handler[c].todo \ {d}
      BY <1>1, <1>2, <3>2 DEF Handlers
    <3>q. QED
      BY <3>1, <3>3, <3>4
  <2>q. QED
    BY <2>1, <2>2
<1>6. /\ handler'[c] = h /\ \A e \in Client \ {c} : handler'[e] = handler[e]
      /\ Idle.pc = "read" /\ Idle.msg = Nobody
  BY <1>5 DEF Shape, Idle
<1>7. /\ \A n \in Msg \ {m} : \A e \in Client : got'[e][n] = got[e][n]
      /\ \A e \in Client \ {d} : got'[e][m] = got[e][m]
      /\ conn[d] = "open" => got'[d][m] = 1
  BY <1>3, <1>4 DEF DInv, Typed
<1>8. Typed'
  <2>1. got' \in [Client -> [Msg -> {0, 1}]]
    BY <1>3, <1>4 DEF DInv, Typed
  <2>q. QED
    BY <1>1, <2>1 DEF DInv, Typed
<1>9. Tasked'
  BY <1>1, <1>5, <1>6 DEF DInv, Tasked, Present
<1>10. ListedOnce' /\ \A n : Listed(n)' <=> Listed(n)
  BY <1>1 DEF DInv, ListedOnce, Listed
<1>11. OnePlace'
  <2>1. \A e \in Client : handler'[e].msg \in Msg =>
          handler'[e].msg = handler[e].msg /\ handler'[e].pc = handler[e].pc
    BY <1>1, <1>2, <1>5, <1>6
  <2>2. \A e, g \in Client : handler'[e].msg = handler'[g].msg /\ handler'[e].msg \in Msg => e = g
    BY <2>1 DEF DInv, OnePlace
  <2>3. \A e \in Client, n \in Msg :
          handler'[e].msg = n => /\ fate'[n] = (IF handler'[e].pc = "store" THEN "stored" ELSE "fanned")
                                 /\ ~Listed(n)'
    BY <1>1, <1>10, <2>1 DEF DInv, OnePlace
  <2>q. QED
    BY <1>1, <1>10, <2>2, <2>3 DEF DInv, OnePlace
<1>12. Copies'
  <2>1. ASSUME NEW n \in Msg
        PROVE  /\ fate'[n] \in {"new", "stored", "expired", "dropped"} =>
                    \A e \in Client : got'[e][n] = 0
               /\ fate'[n] = "taken" =>
                    \E g \in Client : got'[g][n] = 1 /\ \A e \in Client \ {g} : got'[e][n] = 0
               /\ \A g \in Client : handler'[g].pc = "fanout" /\ handler'[g].msg = n =>
                    \A e \in handler'[g].todo : got'[e][n] = 0
    <3>1. CASE n = m
      <4>1. fate'[n] = "fanned"
        BY <1>1, <1>4, <3>1
      <4>2. ASSUME NEW g \in Client, handler'[g].pc = "fanout", handler'[g].msg = m,
                   NEW e \in handler'[g].todo
            PROVE  got'[e][m] = 0
        <5>1. g = c
          BY <1>4, <1>6, <4>2
        <5>2. e \in handler[c].todo \ {d} /\ e \in Client
          BY <1>1, <1>5, <1>6, <4>2, <5>1 DEF DInv, Tasked
        <5>3. got[e][m] = 0
          BY <1>1, <1>2, <5>2 DEF DInv, Copies
        <5>q. QED
          BY <1>7, <5>2, <5>3
      <4>q. QED
        BY <3>1, <4>1, <4>2
    <3>2. CASE n # m
      <4>1. fate'[n] = fate[n] /\ \A e \in Client : got'[e][n] = got[e][n]
        BY <1>1, <1>7, <3>2
      <4>2. \A g \in Client : handler'[g].msg = n => handler'[g] = handler[g]
        BY <1>5, <1>6, <3>2
      <4>3. \A g \in Client : handler[g].pc = "fanout" => handler[g].todo \subseteq Client
        BY DEF DInv, Tasked
      <4>q. QED
        BY <4>1, <4>2, <4>3 DEF DInv, Copies
    <3>q. QED
      BY <3>1, <3>2
  <2>q. QED
    BY <2>1 DEF Copies
<1>13. Unbroken'
  <2>1. SUFFICES ASSUME breaks = MaxBreaks PROVE Unbroken'
    BY <1>1 DEF Unbroken
  <2>2. conn[d] = "open" /\ got'[d][m] = 1
    BY <1>1, <1>7, <2>1 DEF DInv, Unbroken
  <2>3. ASSUME NEW e \in Client, handler'[e].pc = "fanout", NEW g \in handler'[e].todo
        PROVE  conn'[g] = "open"
    <3>1. handler[e].pc = "fanout" /\ g \in handler[e].todo
      BY <1>1, <1>5, <1>6, <2>3
    <3>q. QED
      BY <1>1, <2>1, <3>1 DEF DInv, Unbroken
  <2>4. ASSUME NEW n \in Msg, fate'[n] = "fanned", NEW g \in due'[n]
        PROVE  \/ got'[g][n] = 1
               \/ \E e \in Client : /\ handler'[e].pc = "fanout" /\ handler'[e].msg = n
                                    /\ g \in handler'[e].todo
    <3>1. g \in due[n] /\ g \in Client /\ fate[n] = "fanned"
      BY <1>1, <2>4 DEF DInv, Typed
    <3>2. CASE g = d /\ n = m
      BY <2>2, <3>2
    <3>3. CASE ~(g = d /\ n = m)
      <4>1. got'[g][n] = got[g][n]
        BY <1>7, <3>1, <3>3
      <4>2. CASE got[g][n] = 1
        BY <4>1, <4>2
      <4>3. ASSUME NEW e \in Client, handler[e].pc = "fanout", handler[e].msg = n, g \in handler[e].todo
            PROVE  handler'[e].pc = "fanout" /\ handler'[e].msg = n /\ g \in handler'[e].todo
        <5>1. CASE e # c
          BY <1>6, <4>3, <5>1
        <5>2. CASE e = c
          <6>1. n = m /\ g # d /\ g \in handler[c].todo
            BY <1>2, <3>3, <4>3, <5>2
          <6>q. QED
            BY <1>5, <1>6, <5>2, <6>1
        <5>q. QED
          BY <5>1, <5>2
      <4>q. QED
        BY <2>1, <3>1, <4>2, <4>3 DEF DInv, Unbroken
    <3>q. QED
      BY <3>2, <3>3
  <2>q. QED
    BY <1>1, <2>1, <2>3, <2>4 DEF DInv, Unbroken
<1>q. QED
  BY <1>8, <1>9, <1>10, <1>11, <1>12, <1>13 DEF DInv

\* The cleaner drops the messages that are too old.
LEMMA CleanMove ==
  ASSUME Shape, DInv, Clean
  PROVE  DInv'
<1> DEFINE Stale(m) == \E ch \in Channel : \E i \in DOMAIN waiting[ch] :
                          waiting[ch][i].msg = m /\ ~Fresh(waiting[ch][i])
<1>1. /\ waiting' = [ch \in Channel |-> Kept(waiting[ch])]
      /\ fate' = [m \in Msg |-> IF Stale(m) THEN "expired" ELSE fate[m]]
      /\ cleaner' = Period
      /\ UNCHANGED <<conn, named, channels, handler, got, due, breaks>>
  BY DEF Clean
<1>2. ASSUME NEW k \in Channel
      PROVE  /\ waiting'[k] \in Seq(Stored)
             /\ \E f \in [DOMAIN waiting'[k] -> DOMAIN waiting[k]] :
                  /\ \A i \in DOMAIN waiting'[k] : waiting'[k][i] = waiting[k][f[i]]
                                                   /\ Fresh(waiting[k][f[i]])
                  /\ \A i, j \in DOMAIN waiting'[k] : f[i] = f[j] => i = j
  <2>1. waiting[k] \in Seq(Stored) /\ waiting'[k] = Kept(waiting[k])
    BY <1>1 DEF DInv, Typed
  <2>2. PICK f \in [DOMAIN Kept(waiting[k]) -> DOMAIN waiting[k]] :
          /\ \A i \in DOMAIN f : Kept(waiting[k])[i] = waiting[k][f[i]] /\ Fresh(waiting[k][f[i]])
          /\ \A i, j \in DOMAIN f : f[i] = f[j] => i = j
    BY <2>1, KeptFacts
  <2>3. Kept(waiting[k]) \in Seq(Stored)
    BY <2>1, KeptFacts
  <2>4. DOMAIN f = DOMAIN Kept(waiting[k])
    OBVIOUS
  <2>q. QED
    BY <2>1, <2>2, <2>3, <2>4
<1>3. ListedOnce' /\ \A m : Listed(m)' => Listed(m)
  <2>1. ASSUME NEW k \in Channel
        PROVE  \E f \in [DOMAIN waiting'[k] -> DOMAIN waiting[k]] :
                 /\ \A i \in DOMAIN waiting'[k] : waiting'[k][i].msg = waiting[k][f[i]].msg
                 /\ \A i, j \in DOMAIN waiting'[k] : f[i] = f[j] => i = j
    <3>1. PICK f \in [DOMAIN waiting'[k] -> DOMAIN waiting[k]] :
                  /\ \A i \in DOMAIN waiting'[k] : waiting'[k][i] = waiting[k][f[i]]
                  /\ \A i, j \in DOMAIN waiting'[k] : f[i] = f[j] => i = j
      BY <1>2
    <3>2. \A i \in DOMAIN waiting'[k] : waiting'[k][i].msg = waiting[k][f[i]].msg
      BY <3>1
    <3>q. QED
      BY <3>1, <3>2
  <2>q. QED
    BY <2>1, Fewer DEF DInv
<1>4. \A m : Stale(m) => Listed(m)
  BY DEF Listed
<1>5. ASSUME NEW m, Listed(m)' PROVE ~Stale(m)
  <2>1. PICK k \in Channel : \E i \in DOMAIN waiting'[k] : waiting'[k][i].msg = m
    BY <1>5 DEF Listed
  <2>2. PICK i \in DOMAIN waiting'[k] : waiting'[k][i].msg = m
    BY <2>1
  <2>3. PICK f \in [DOMAIN waiting'[k] -> DOMAIN waiting[k]] :
          \A j \in DOMAIN waiting'[k] : waiting'[k][j] = waiting[k][f[j]] /\ Fresh(waiting[k][f[j]])
    BY <1>2
  <2>4. PICK j \in DOMAIN waiting[k] : waiting[k][j].msg = m /\ Fresh(waiting[k][j])
    BY <2>2, <2>3
  <2>q. QED
    BY <2>4 DEF DInv, ListedOnce
<1>6. \A m \in Msg : fate'[m] = (IF Stale(m) THEN "expired" ELSE fate[m])
  BY <1>1
<1>7. \A m \in Msg : Stale(m) => /\ fate[m] = "stored"
                                 /\ \A c \in Client : handler[c].msg # m
  BY <1>4 DEF DInv, OnePlace
<1> HIDE DEF Stale
<1>8. Typed'
  <2>1. waiting' \in [Channel -> Seq(Stored)]
    BY <1>1, <1>2
  <2>2. fate' \in [Msg -> {"new", "fanned", "stored", "taken", "expired", "dropped"}]
    BY <1>1 DEF DInv, Typed
  <2>3. cleaner' \in 0..Period
    BY <1>1
  <2>q. QED
    BY <1>1, <2>1, <2>2, <2>3 DEF DInv, Typed
<1>9. Tasked'
  BY <1>1 DEF DInv, Tasked, Present
<1>10. OnePlace'
  <2>1. ASSUME NEW c \in Client, NEW m \in Msg, handler'[c].msg = m
        PROVE  /\ fate'[m] = (IF handler'[c].pc = "store" THEN "stored" ELSE "fanned")
               /\ ~Listed(m)'
    <3>1. fate'[m] = fate[m]
      BY <1>1, <1>6, <1>7, <2>1
    <3>q. QED
      BY <1>1, <1>3, <2>1, <3>1 DEF DInv, OnePlace
  <2>2. \A m \in Msg : Listed(m)' => fate'[m] = "stored"
    BY <1>3, <1>5, <1>6 DEF DInv, OnePlace
  <2>q. QED
    BY <1>1, <2>1, <2>2 DEF DInv, OnePlace
<1>11. Copies'
  BY <1>1, <1>6, <1>7 DEF DInv, Copies
<1>12. Unbroken'
  <2>1. \A m \in Msg : fate'[m] = "dropped" => fate[m] = "dropped"
    BY <1>6
  <2>2. \A m \in Msg : fate'[m] = "fanned" => fate[m] = "fanned"
    BY <1>6
  <2>q. QED
    BY <1>1, <2>1, <2>2 DEF DInv, Unbroken
<1>q. QED
  BY <1>3, <1>8, <1>9, <1>10, <1>11, <1>12 DEF DInv

\* Time changes ages only.
LEMMA TickMove ==
  ASSUME Shape, DInv, Tick
  PROVE  DInv'
<1>1. /\ waiting' = [ch \in Channel |->
                       [i \in DOMAIN waiting[ch] |-> [waiting[ch][i] EXCEPT !.age = Older(@)]]]
      /\ handler' = [c \in Client |-> IF handler[c].pc = "store"
                                      THEN [handler[c] EXCEPT !.age = Older(@)] ELSE handler[c]]
      /\ cleaner' = (IF cleaner > 0 THEN cleaner - 1 ELSE 0)
      /\ UNCHANGED <<conn, named, channels, lockQueue, got, fate, due, breaks>>
  BY DEF Tick
<1>2. \A n \in 0..Lasting : Older(n) \in 0..Lasting
  BY DEF Older, Lasting
<1>3. ASSUME NEW k \in Channel
      PROVE  /\ waiting'[k] \in Seq(Stored) /\ DOMAIN waiting'[k] = DOMAIN waiting[k]
             /\ \A i \in DOMAIN waiting[k] : waiting'[k][i].msg = waiting[k][i].msg
  <2>1. /\ waiting[k] \in Seq(Stored)
        /\ waiting'[k] = [i \in DOMAIN waiting[k] |-> [waiting[k][i] EXCEPT !.age = Older(@)]]
    BY <1>1 DEF DInv, Typed
  <2>2. /\ Len(waiting[k]) \in Nat /\ DOMAIN waiting[k] = 1..Len(waiting[k])
        /\ \A i \in 1..Len(waiting[k]) : waiting[k][i] \in Stored
    BY <2>1
  <2>3. \A s \in Stored : /\ [s EXCEPT !.age = Older(@)] \in Stored
                          /\ [s EXCEPT !.age = Older(@)].msg = s.msg
    BY <1>2 DEF Stored
  <2>4. \A i \in 1..Len(waiting[k]) : waiting'[k][i] \in Stored /\ waiting'[k][i].msg = waiting[k][i].msg
    BY <2>1, <2>2, <2>3
  <2>5. waiting'[k] = [i \in 1..Len(waiting[k]) |-> waiting'[k][i]]
    BY <2>1, <2>2
  <2>6. waiting'[k] \in Seq(Stored)
    BY <2>2, <2>4, <2>5
  <2>q. QED
    BY <2>1, <2>2, <2>4, <2>6
<1>4. ASSUME NEW c \in Client
      PROVE  /\ handler'[c].pc = handler[c].pc /\ handler'[c].msg = handler[c].msg
             /\ handler'[c].chan = handler[c].chan /\ handler'[c].todo = handler[c].todo
  <2>1. handler[c] \in Handlers
    BY DEF Shape
  <2>2. handler'[c] = (IF handler[c].pc = "store" THEN [handler[c] EXCEPT !.age = Older(@)] ELSE handler[c])
    BY <1>1
  <2>q. QED
    BY <2>1, <2>2 DEF Handlers
<1>5. ListedOnce' /\ \A m : Listed(m)' <=> Listed(m)
  BY <1>3 DEF DInv, ListedOnce, Listed
<1>6. Typed'
  <2>1. waiting' \in [Channel -> Seq(Stored)]
    BY <1>1, <1>3
  <2>2. cleaner' \in 0..Period
    BY <1>1 DEF DInv, Typed
  <2>q. QED
    BY <1>1, <2>1, <2>2 DEF DInv, Typed
<1>7. Tasked'
  BY <1>1, <1>4 DEF DInv, Tasked, Present
<1>8. OnePlace'
  BY <1>1, <1>4, <1>5 DEF DInv, OnePlace
<1>9. Copies'
  BY <1>1, <1>4 DEF DInv, Copies
<1>10. Unbroken'
  BY <1>1, <1>4 DEF DInv, Unbroken
<1>q. QED
  BY <1>5, <1>6, <1>7, <1>8, <1>9, <1>10 DEF DInv

-----------------------------------------------------------------------------
(* The theorems                                                               *)

LEMMA InitDInv == Init => DInv
<1> SUFFICES ASSUME Init PROVE DInv
  OBVIOUS
<1>1. /\ Idle.pc = "read" /\ Idle.msg = Nobody
      /\ \A c \in Client : handler[c] = Idle /\ conn[c] = "absent"
      /\ \A ch \in Channel : waiting[ch] = <<>>
      /\ \A m \in Msg : fate[m] = "new" /\ \A c \in Client : got[c][m] = 0
  BY DEF Init, Idle
<1>2. \A m : ~Listed(m)
  BY <1>1 DEF Listed
<1>3. Typed
  BY DEF Init, Typed
<1>4. Tasked /\ ListedOnce
  BY <1>1 DEF Tasked, ListedOnce
<1>5. OnePlace
  BY <1>1, <1>2 DEF OnePlace
<1>6. Copies /\ Unbroken
  BY <1>1 DEF Copies, Unbroken
<1>q. QED
  BY <1>3, <1>4, <1>5, <1>6 DEF DInv

LEMMA NextDInv == IInv /\ DInv /\ [Next]_vars => DInv'
<1> SUFFICES ASSUME IInv, DInv, [Next]_vars PROVE DInv'
  OBVIOUS
<1>1. Shape
  BY DEF IInv
<1>2. ASSUME NEW c \in Client, Work(c) PROVE DInv'
  <2>1. CASE Store(c)
    BY <1>1, <2>1, StoreMove
  <2>2. CASE DeliveryDone(c)
    BY <1>1, <2>2, SectionSteps
  <2>3. ASSUME NEW ch \in Channel, DeliverOne(c, ch) PROVE DInv'
    BY <1>1, <2>3, DeliverOneStep
  <2>4. ASSUME NEW d \in Client, FanoutWrite(c, d) PROVE DInv'
    BY <1>1, <2>4, FanoutWriteStep
  <2>5. ASSUME NEW d \in Client, FanoutFails(c, d) PROVE DInv'
    BY <1>1, <2>5, LeaveSteps
  <2>q. QED
    BY <1>2, <2>1, <2>2, <2>3, <2>4, <2>5 DEF Work
<1>3. ASSUME NEW c \in Client, Read(c) PROVE DInv'
  <2>1. CASE ReadInit(c)
    BY <1>1, <2>1, SectionSteps
  <2>2. ASSUME NEW chans \in (SUBSET Topic) \ {{}}, ReadSubscribe(c, chans) \/ ReadUnsubscribe(c, chans)
        PROVE  DInv'
    BY <1>1, <2>2, SectionSteps
  <2>3. ASSUME NEW ch \in Channel, NEW m \in Msg, ReadData(c, ch, m) PROVE DInv'
    BY <1>1, <2>3, ReadDataStep
  <2>q. QED
    BY <1>3, <2>1, <2>2, <2>3 DEF Read
<1>4. ASSUME NEW c \in Client, Peer(c) PROVE DInv'
  BY <1>1, <1>4, ConnSteps, LeaveSteps DEF Peer
<1>5. CASE CleanerWakes
  BY <1>1, <1>5, SectionSteps
<1>6. CASE Clean
  BY <1>1, <1>6, CleanMove
<1>7. CASE Tick
  BY <1>1, <1>7, TickMove
<1>8. CASE UNCHANGED vars
  BY <1>8 DEF DInv, Typed, Tasked, Present, ListedOnce, OnePlace, Listed, Copies, Unbroken, vars
<1>q. QED
  BY <1>2, <1>3, <1>4, <1>5, <1>6, <1>7, <1>8 DEF Next

LEMMA BothHold == Spec => [](IInv /\ DInv)
BY InitIInv, NextIInv, InitDInv, NextDInv, PTL DEF Spec

\* Every variable of the bus keeps its type; a task is in the queue of the lock once.
THEOREM Types == Spec => []TypeOK
<1>1. IInv /\ DInv => TypeOK
  <2>1. SUFFICES ASSUME IInv, DInv PROVE TypeOK
    OBVIOUS
  <2>2. IsInjective(lockQueue)
    BY <2>1 DEF IInv, Shape, QueueType, IsInjective
  <2>3. got \in [Client -> [Msg -> 0..2]]
    BY <2>1 DEF DInv, Typed
  <2>q. QED
    BY <2>1, <2>2, <2>3 DEF IInv, Shape, QueueType, DInv, Typed, TypeOK
<1>q. QED
  BY <1>1, BothHold, PTL

\* No client is written a message twice, neither by the fan-out of _handle_message
\* nor by _deliver_waiting, and what was on the waiting list goes to one client.
THEOREM NobodyGetsItTwice == Spec => []AtMostOnce
<1>1. IInv /\ DInv => AtMostOnce
  <2>1. SUFFICES ASSUME DInv, NEW m \in Msg, NEW c \in Client, NEW d \in Client
                 PROVE  /\ got[c][m] <= 1
                        /\ fate[m] \in {"stored", "taken", "expired", "dropped"} /\ c # d =>
                             got[c][m] + got[d][m] <= 1
    BY DEF AtMostOnce
  <2>2. got[c][m] \in {0, 1} /\ got[d][m] \in {0, 1}
    BY <2>1 DEF DInv, Typed
  <2>3. fate[m] \in {"stored", "expired", "dropped"} => got[c][m] = 0 /\ got[d][m] = 0
    BY <2>1 DEF DInv, Copies
  <2>4. fate[m] = "taken" /\ c # d => got[c][m] = 0 \/ got[d][m] = 0
    BY <2>1 DEF DInv, Copies
  <2>q. QED
    BY <2>2, <2>3, <2>4
<1>q. QED
  BY <1>1, BothHold, PTL

\* As long as every peer stays, no message is lost: it reached everybody it was
\* due to, or it waits, or one client took it, or it expired.
THEOREM NoMessageIsLost == Spec => []NothingLost
<1>1. IInv /\ DInv => NothingLost
  BY DEF DInv, Copies, Unbroken, NothingLost
<1>q. QED
  BY <1>1, BothHold, PTL

=============================================================================
