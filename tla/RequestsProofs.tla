--------------------------- MODULE RequestsProofs ---------------------------
(* Proofs about Requests, for any calls, any attempts of the command line      *)
(* client and any number of faults.                                           *)
EXTENDS Requests, SequenceTheorems, TLAPS

\* A message is in a sequence, and at most once.
Holds(s, m) == \E i \in DOMAIN s : s[i] = m
Lone(s, m) == \A i, j \in DOMAIN s : s[i] = m /\ s[j] = m => i = j

\* A request is on its way to the API server.
Asked(r) ==
  \/ Holds(out[Home(r)], Request(r))
  \/ Holds(stored["server"], Request(r))
  \/ Holds(in["server"], Request(r))

\* A message is on the links of the one who sends it or waits for the one it is
\* for; links that are down are empty, and what the bus keeps has a cause to be late.
Routes ==
  /\ \A c \in Client \ up : out[c] = <<>> /\ in[c] = <<>>
  /\ \A c \in Client, m \in Message :
       /\ Holds(out[c], m) => c = IF m.kind = "request" THEN Home(m.id) ELSE "server"
       /\ Holds(in[c], m) \/ Holds(stored[c], m) => c = To(m)
       /\ Holds(stored[c], m) => m.id \in cause

\* A request on its way is in one place, and has no task yet.
Requested ==
  \A r \in Req :
    /\ Asked(r) => task[r] = "none"
    /\ Lone(out[Home(r)], Request(r)) /\ Lone(stored["server"], Request(r))
    /\ Lone(in["server"], Request(r))
    /\ Holds(out[Home(r)], Request(r)) => ~Holds(stored["server"], Request(r))
    /\ Holds(out[Home(r)], Request(r)) => ~Holds(in["server"], Request(r))
    /\ Holds(stored["server"], Request(r)) => ~Holds(in["server"], Request(r))

\* How often a method ran, by what became of its task.
Ran ==
  \A r \in Req :
    /\ task[r] \in {"none", "new"} => runs[r] = 0
    /\ task[r] \in {"done", "answered"} => runs[r] = 1
    /\ task[r] = "gone" => runs[r] \in {0, 1}

\* A response is the answer of a task.
Replied ==
  \A r \in Req, c \in Client :
    Holds(out[c], Response(r)) \/ Holds(in[c], Response(r)) \/ Holds(stored[c], Response(r))
      => task[r] = "answered"

\* What a caller knows agrees with what the server did.
Calls ==
  \A r \in Req :
    /\ call[r] \in {"none", "ready"} => task[r] = "none" /\ ~Asked(r)
    /\ call[r] = "sent" => r \in waiting
    /\ call[r] \in {"answered", "ended"} => got[r] = r /\ task[r] = "answered"
    /\ call[r] \in {"cancelled", "late", "timeout"} => r \in cause

\* What a caller waits for is on its way, or was lost or delayed.
OnWay(r) ==
  \/ \E c \in Client, m \in {Request(r), Response(r)} : Holds(out[c], m) \/ Holds(in[c], m)
  \/ task[r] \in {"new", "done"}

Wanted == \A r \in Req : call[r] = "sent" /\ r \notin cause => OnWay(r)

IInv == TypeOK /\ Routes /\ Requested /\ Ran /\ Replied /\ Calls /\ Wanted

-----------------------------------------------------------------------------
(* Sequences                                                                  *)

\* What Append does to the elements.
LEMMA Appended ==
  ASSUME NEW S, NEW s \in Seq(S), NEW e \in S
  PROVE  /\ Append(s, e) \in Seq(S)
         /\ \A m : Holds(Append(s, e), m) <=> Holds(s, m) \/ m = e
         /\ \A m : Lone(s, m) /\ (m = e => ~Holds(s, m)) => Lone(Append(s, e), m)
<1>1. /\ Append(s, e) \in Seq(S) /\ Len(s) \in Nat
      /\ DOMAIN s = 1 .. Len(s) /\ DOMAIN Append(s, e) = 1 .. Len(s) + 1
      /\ \A i \in 1 .. Len(s) : Append(s, e)[i] = s[i]
      /\ Append(s, e)[Len(s) + 1] = e
  OBVIOUS
<1>2. \A m : Holds(Append(s, e), m) <=> Holds(s, m) \/ m = e
  BY <1>1 DEF Holds
<1>3. ASSUME NEW m, Lone(s, m), m = e => ~Holds(s, m)
      PROVE  Lone(Append(s, e), m)
  BY <1>1, <1>3 DEF Holds, Lone
<1>q. QED
  BY <1>1, <1>2, <1>3

\* What Head and Tail do to them.
LEMMA Popped ==
  ASSUME NEW S, NEW s \in Seq(S), s # <<>>
  PROVE  /\ Head(s) \in S /\ Tail(s) \in Seq(S) /\ Holds(s, Head(s))
         /\ \A m : Holds(s, m) <=> Holds(Tail(s), m) \/ m = Head(s)
         /\ \A m : Lone(s, m) => Lone(Tail(s), m)
         /\ Lone(s, Head(s)) => ~Holds(Tail(s), Head(s))
<1>1. /\ Head(s) \in S /\ Tail(s) \in Seq(S) /\ Head(s) = s[1] /\ Len(s) \in Nat \ {0}
      /\ DOMAIN s = 1 .. Len(s) /\ DOMAIN Tail(s) = 1 .. Len(s) - 1
      /\ \A i \in 1 .. Len(s) - 1 : Tail(s)[i] = s[i + 1]
  OBVIOUS
<1>2. Holds(s, Head(s))
  BY <1>1 DEF Holds
<1>3. ASSUME NEW m, Holds(s, m) PROVE Holds(Tail(s), m) \/ m = Head(s)
  <2>1. PICK i \in 1 .. Len(s) : s[i] = m
    BY <1>1, <1>3 DEF Holds
  <2>2. CASE i > 1
    <3>1. i - 1 \in 1 .. Len(s) - 1 /\ (i - 1) + 1 = i
      BY <1>1, <2>2
    <3>2. i - 1 \in DOMAIN Tail(s) /\ Tail(s)[i - 1] = m
      BY <1>1, <2>1, <3>1
    <3>q. QED
      BY <3>2 DEF Holds
  <2>q. QED
    BY <1>1, <2>1, <2>2
<1>4. ASSUME NEW m, Holds(Tail(s), m) PROVE Holds(s, m)
  BY <1>1, <1>4 DEF Holds
<1>5. ASSUME NEW m, Lone(s, m) PROVE Lone(Tail(s), m)
  BY <1>1, <1>5 DEF Lone
<1>6. ASSUME Lone(s, Head(s)) PROVE ~Holds(Tail(s), Head(s))
  BY <1>1, <1>6 DEF Lone, Holds
<1>q. QED
  BY <1>1, <1>2, <1>3, <1>4, <1>5, <1>6

\* What Reverse does to them.
LEMMA Reversed ==
  ASSUME NEW S, NEW s \in Seq(S)
  PROVE  /\ Reverse(s) \in Seq(S)
         /\ \A m : Holds(Reverse(s), m) <=> Holds(s, m)
         /\ \A m : Lone(s, m) => Lone(Reverse(s), m)
<1>1. Len(s) \in Nat /\ s \in [1 .. Len(s) -> S] /\ DOMAIN s = 1 .. Len(s)
  OBVIOUS
<1>2. /\ \A i \in 1 .. Len(s) : Len(s) - i + 1 \in 1 .. Len(s) /\ Len(s) - (Len(s) - i + 1) + 1 = i
      /\ \A i, j \in 1 .. Len(s) : Len(s) - i + 1 = Len(s) - j + 1 => i = j
  BY <1>1
<1>3. /\ DOMAIN Reverse(s) = 1 .. Len(s)
      /\ \A i \in 1 .. Len(s) : Reverse(s)[i] = s[Len(s) - i + 1]
  BY <1>1 DEF Reverse
<1>4. Reverse(s) \in Seq(S)
  <2>1. Reverse(s) \in [1 .. Len(s) -> S]
    BY <1>1, <1>2 DEF Reverse
  <2>q. QED
    BY <1>1, <2>1, SeqDef
<1>5. ASSUME NEW m PROVE Holds(Reverse(s), m) <=> Holds(s, m)
  <2>1. ASSUME NEW i \in 1 .. Len(s), s[i] = m PROVE Holds(Reverse(s), m)
    <3>1. Reverse(s)[Len(s) - i + 1] = s[Len(s) - (Len(s) - i + 1) + 1]
      BY <1>2, <1>3
    <3>q. QED
      BY <1>2, <1>3, <2>1, <3>1 DEF Holds
  <2>2. ASSUME NEW i \in 1 .. Len(s), Reverse(s)[i] = m PROVE Holds(s, m)
    BY <1>1, <1>2, <1>3, <2>2 DEF Holds
  <2>q. QED
    BY <1>1, <1>3, <2>1, <2>2 DEF Holds
<1>6. \A m : Lone(s, m) => Lone(Reverse(s), m)
  BY <1>1, <1>2, <1>3 DEF Lone
<1>q. QED
  BY <1>4, <1>5, <1>6

\* Nothing is in the empty sequence.
LEMMA Emptied == /\ \A S : <<>> \in Seq(S)
                 /\ \A m : ~Holds(<<>>, m) /\ Lone(<<>>, m)
  BY DEF Holds, Lone

\* Requests and responses, and where they go.
LEMMA RequestOf ==
  ASSUME NEW r \in Req
  PROVE  /\ Request(r) \in Message /\ Request(r).id = r /\ Request(r).kind = "request"
         /\ To(Request(r)) = "server"
         /\ Home(r) \in Client /\ Home(r) # "server" /\ (Home(r) = "cli" <=> r \in Cli)
  BY DEF Request, Message, To, Home, Client

LEMMA ResponseOf ==
  ASSUME NEW r \in Req
  PROVE  /\ Response(r) \in Message /\ Response(r).id = r /\ Response(r).kind = "response"
         /\ To(Response(r)) = Home(r)
         /\ \A s \in Req : Response(r) # Request(s)
  BY DEF Request, Response, Message, To

\* A message is one or the other.
LEMMA MessageOf ==
  ASSUME NEW m \in Message
  PROVE  /\ m.id \in Req
         /\ m = Request(m.id) \/ m = Response(m.id)
         /\ To(m) \in Client /\ (To(m) = "server" <=> m = Request(m.id))
         /\ m.kind = "request" <=> m = Request(m.id)
<1>1. m.id \in Req /\ m.kind \in {"request", "response"} /\ m = [kind |-> m.kind, id |-> m.id]
  BY DEF Message
<1>2. m = Request(m.id) \/ m = Response(m.id)
  BY <1>1 DEF Request, Response
<1>3. Home(m.id) \in Client /\ Home(m.id) # "server"
  BY <1>1, RequestOf
<1>4. m.kind = "request" <=> m = Request(m.id)
  BY <1>1 DEF Request
<1>5. To(m) \in Client /\ (To(m) = "server" <=> m = Request(m.id))
  BY <1>1, <1>3, <1>4 DEF To, Client
<1>q. QED
  BY <1>1, <1>2, <1>4, <1>5

\* The requests of the messages in a sequence.
LEMMA IdsOf ==
  ASSUME NEW s \in Seq(Message)
  PROVE  /\ Ids(s) \subseteq Req
         /\ \A m \in Message : Holds(s, m) => m.id \in Ids(s)
         /\ \A r \in Req : r \in Ids(s) => Holds(s, Request(r)) \/ Holds(s, Response(r))
<1>1. \A i \in DOMAIN s : s[i] \in Message /\ s[i].id \in Req
  <2>1. \A i \in DOMAIN s : s[i] \in Message
    OBVIOUS
  <2>2. \A m \in Message : m.id \in Req
    BY MessageOf
  <2>q. QED
    BY <2>1, <2>2
<1>2. ASSUME NEW r \in Req, r \in Ids(s) PROVE Holds(s, Request(r)) \/ Holds(s, Response(r))
  <2>1. PICK i \in DOMAIN s : s[i].id = r
    BY <1>2 DEF Ids
  <2>2. \A m \in Message : m = Request(m.id) \/ m = Response(m.id)
    BY MessageOf
  <2>3. s[i] = Request(r) \/ s[i] = Response(r)
    BY <1>1, <2>1, <2>2
  <2>q. QED
    BY <2>3 DEF Holds
<1>3. Ids(s) \subseteq Req
  BY <1>1 DEF Ids
<1>4. \A m \in Message : Holds(s, m) => m.id \in Ids(s)
  BY DEF Holds, Ids
<1>q. QED
  BY <1>2, <1>3, <1>4

-----------------------------------------------------------------------------
(* The types                                                                  *)

\* Nothing has been sent.
LEMMA InitTypes == Init => TypeOK
<1> SUFFICES ASSUME Init PROVE TypeOK
  OBVIOUS
<1>1. <<>> \in Seq(Message) /\ MaxFaults \in Nat
  BY RequestsAssumption, Emptied
<1>2. up \subseteq Client
  BY DEF Init, Client
<1>3. /\ out \in [Client -> Seq(Message)] /\ in \in [Client -> Seq(Message)]
      /\ stored \in [Client -> Seq(Message)]
  BY <1>1 DEF Init
<1>4. /\ task \in [Req -> {"none", "new", "done", "answered", "gone"}] /\ runs \in [Req -> Nat]
      /\ call \in [Req -> {"none", "ready", "sent", "answered", "cancelled", "late",
                          "ended", "timeout", "exit"}]
      /\ got \in [Req -> Req \cup {"none"}]
  BY DEF Init
<1>5. faults \in 0 .. MaxFaults /\ waiting \subseteq Req /\ stray \subseteq Req /\ cause \subseteq Req
  BY <1>1 DEF Init
<1>6. stopping \in BOOLEAN
  BY DEF Init
<1>q. QED
  BY <1>2, <1>3, <1>4, <1>5, <1>6 DEF TypeOK

\* A link that ends takes its messages along.
LEMMA LoseTypes ==
  ASSUME TypeOK, NEW cs, Lose(cs)
  PROVE  /\ up' \subseteq Client /\ OnLinks(cs \cap Client) \subseteq Req
         /\ out' \in [Client -> Seq(Message)] /\ in' \in [Client -> Seq(Message)]
         /\ \A c \in Client : IF c \in cs THEN out'[c] = <<>> /\ in'[c] = <<>>
                             ELSE out'[c] = out[c] /\ in'[c] = in[c]
<1>1. \A c \in Client : /\ out[c] \in Seq(Message) /\ in[c] \in Seq(Message)
                       /\ Ids(out[c]) \subseteq Req /\ Ids(in[c]) \subseteq Req
  BY IdsOf DEF TypeOK
<1>2. OnLinks(cs \cap Client) \subseteq Req
  BY <1>1 DEF OnLinks
<1>3. \A c \in Client : IF c \in cs THEN out'[c] = <<>> /\ in'[c] = <<>>
                       ELSE out'[c] = out[c] /\ in'[c] = in[c]
  BY DEF Lose
<1>4. out' \in [Client -> Seq(Message)] /\ in' \in [Client -> Seq(Message)]
  BY <1>1, Emptied DEF Lose
<1>q. QED
  BY <1>2, <1>3, <1>4 DEF Lose, TypeOK

\* A message is written, or dropped.
LEMMA PutTypes ==
  ASSUME TypeOK, NEW c \in Client, NEW m \in Message, Put(c, m)
  PROVE  /\ UNCHANGED <<up, in, stored, faults>>
         /\ out' \in [Client -> Seq(Message)] /\ cause' \subseteq Req
         /\ cause \subseteq cause'
         /\ \A d \in Client : d # c => out'[d] = out[d]
         /\ IF c \in up THEN out'[c] = Append(out[c], m) /\ cause' = cause
            ELSE out'[c] = out[c] /\ m.id \in cause'
<1>1. out[c] \in Seq(Message) /\ m.id \in Req
  BY MessageOf DEF TypeOK
<1>2. Append(out[c], m) \in Seq(Message)
  BY <1>1, Appended
<1>q. QED
  BY <1>1, <1>2 DEF Put, TypeOK

\* Steps of the links.
LEMMA LinkTypes ==
  ASSUME TypeOK, NEW c \in Client,
         Connect(c) \/ Lost(c) \/ BusTakes(c) \/ Expires(c) \/ BusStops \/ ServerStops \/ CliEnds
  PROVE  TypeOK'
<1>1. \A d \in Client : /\ out[d] \in Seq(Message) /\ in[d] \in Seq(Message) /\ stored[d] \in Seq(Message)
                       /\ Ids(out[d]) \subseteq Req /\ Ids(in[d]) \subseteq Req /\ Ids(stored[d]) \subseteq Req
  BY IdsOf DEF TypeOK
<1>2. MaxFaults \in Nat
  BY RequestsAssumption
<1>3. CASE Connect(c)
  <2>1. Reverse(stored[c]) \in Seq(Message) /\ <<>> \in Seq(Message)
    BY <1>1, Reversed
  <2>2. call' \in [Req -> {"none", "ready", "sent", "answered", "cancelled", "late", "ended", "timeout", "exit"}]
    BY <1>3 DEF Connect, NextCall, TypeOK
  <2>q. QED
    BY <1>3, <2>1, <2>2 DEF Connect, TypeOK, server
<1>4. CASE Lost(c)
  BY <1>2, <1>4, LoseTypes DEF Lost, Faulty, TypeOK, server, caller, OnLinks
<1>5. CASE BusTakes(c)
  <2>1. Head(out[c]) \in Message /\ Tail(out[c]) \in Seq(Message)
    BY <1>1, <1>5, Popped DEF BusTakes
  <2>2. To(Head(out[c])) \in Client /\ Head(out[c]).id \in Req
    BY <2>1, MessageOf
  <2>3. /\ Append(in[To(Head(out[c]))], Head(out[c])) \in Seq(Message)
        /\ Append(stored[To(Head(out[c]))], Head(out[c])) \in Seq(Message)
    BY <1>1, <2>1, <2>2, Appended
  <2>q. QED
    BY <1>5, <2>1, <2>2, <2>3 DEF BusTakes, TypeOK, server, caller
<1>6. CASE Expires(c)
  <2>1. Tail(stored[c]) \in Seq(Message)
    BY <1>1, <1>6, Popped DEF Expires
  <2>q. QED
    BY <1>6, <2>1 DEF Expires, TypeOK, server, caller
<1>7. CASE BusStops
  <2>1. UNION {Ids(stored[d]) : d \in Client} \subseteq Req
    BY <1>1
  <2>2. OnLinks(Client) \subseteq Req
    BY <1>1 DEF OnLinks
  <2>3. /\ up' \subseteq Client
        /\ out' \in [Client -> Seq(Message)] /\ in' \in [Client -> Seq(Message)]
    BY <1>7, LoseTypes DEF BusStops
  <2>4. stored' \in [Client -> Seq(Message)]
    BY <1>7, Emptied DEF BusStops
  <2>5. cause' \subseteq Req /\ faults' \in 0 .. MaxFaults
    BY <1>2, <1>7, <2>1, <2>2 DEF BusStops, Faulty, TypeOK
  <2>q. QED
    BY <1>7, <2>3, <2>4, <2>5 DEF BusStops, TypeOK, server, caller
<1>8. CASE ServerStops
  <2>1. OnLinks({"server"}) \subseteq Req
    BY <1>1 DEF OnLinks, Client
  <2>2. task' \in [Req -> {"none", "new", "done", "answered", "gone"}]
    BY <1>8 DEF ServerStops, TypeOK
  <2>3. cause' \subseteq Req /\ faults' \in 0 .. MaxFaults
    BY <1>2, <1>8, <2>1 DEF ServerStops, Faulty, TypeOK
  <2>q. QED
    BY <1>8, <2>2, <2>3, LoseTypes DEF ServerStops, TypeOK, caller
<1>9. CASE CliEnds
  <2>1. call' \in [Req -> {"none", "ready", "sent", "answered", "cancelled", "late", "ended", "timeout", "exit"}]
    BY <1>9 DEF CliEnds, TypeOK
  <2>q. QED
    BY <1>9, <2>1, LoseTypes DEF CliEnds, TypeOK, server
<1>q. QED
  BY <1>3, <1>4, <1>5, <1>6, <1>7, <1>8, <1>9

\* Steps of the API server and of the callers.
LEMMA EndTypes ==
  ASSUME TypeOK, NEW c \in Client, NEW r \in Req,
         HandleResponse(c) \/ HandleRequest \/ Slow(r) \/ Raise(r) \/ Server(r) \/ Caller(r)
  PROVE  TypeOK'
<1> USE RequestsAssumption
<1>1. \A d \in Client : in[d] \in Seq(Message)
  BY DEF TypeOK
<1>2. "server" \in Client /\ Home(r) \in Client /\ Request(r) \in Message /\ Response(r) \in Message
  BY RequestOf, ResponseOf DEF Client
<1>3. CASE HandleResponse(c)
  <2>1. Head(in[c]) \in Message /\ Tail(in[c]) \in Seq(Message) /\ Head(in[c]).id \in Req
    BY <1>1, <1>3, Popped, MessageOf DEF HandleResponse
  <2>2. call' \in [Req -> {"none", "ready", "sent", "answered", "cancelled", "late", "ended", "timeout", "exit"}]
        /\ got' \in [Req -> Req \cup {"none"}] /\ stray' \subseteq Req
    BY <1>3, <2>1 DEF HandleResponse, TypeOK
  <2>3. in' \in [Client -> Seq(Message)]
    BY <1>3, <2>1 DEF HandleResponse, TypeOK
  <2>q. QED
    BY <1>3, <2>2, <2>3 DEF HandleResponse, TypeOK, server
<1>4. CASE HandleRequest
  <2>1. Tail(in["server"]) \in Seq(Message)
    BY <1>1, <1>2, <1>4, Popped DEF HandleRequest
  <2>q. QED
    BY <1>4, <2>1 DEF HandleRequest, TypeOK, caller
<1>5. CASE Slow(r)
  BY <1>5 DEF Slow, Faulty, TypeOK, links, server, caller
<1>6. CASE Raise(r)
  <2>1. runs[r] + 1 \in Nat /\ runs \in [Req -> Nat]
    BY DEF TypeOK
  <2>2. runs' \in [Req -> Nat]
    BY <1>6, <2>1 DEF Raise
  <2>3. cause' \subseteq Req /\ faults' \in 0 .. MaxFaults
    BY <1>6 DEF Raise, Faulty, TypeOK
  <2>4. task' \in [Req -> {"none", "new", "done", "answered", "gone"}]
    BY <1>6 DEF Raise, TypeOK
  <2>q. QED
    BY <1>6, <2>2, <2>3, <2>4 DEF Raise, TypeOK, links, caller
<1>7. CASE Exec(r)
  <2>1. runs[r] + 1 \in Nat
    BY DEF TypeOK
  <2>q. QED
    BY <1>7, <2>1 DEF Exec, TypeOK, links, caller
<1>8. CASE Answer(r)
  BY <1>2, <1>8, PutTypes DEF Answer, TypeOK, caller
<1>9. CASE Send(r)
  BY <1>2, <1>9, PutTypes DEF Send, TypeOK, server
<1>10. CASE Timer(r)
  BY <1>10 DEF Timer, TypeOK, links, server
<1>11. CASE Resume(r)
  BY <1>11 DEF Resume, TypeOK, links, server
<1>q. QED
  BY <1>3, <1>4, <1>5, <1>6, <1>7, <1>8, <1>9, <1>10, <1>11 DEF Server, Caller

-----------------------------------------------------------------------------
(* What steps have in common                                                  *)

\* No message is added to a sequence.
Fewer ==
  \A c \in Client :
    /\ \A m \in Message : Holds(out'[c], m) => Holds(out[c], m)
    /\ \A m \in Message : Holds(in'[c], m) => Holds(in[c], m)
    /\ \A m \in Message : Holds(stored'[c], m) => Holds(stored[c], m)
    /\ \A m \in Message : Lone(out[c], m) => Lone(out'[c], m)
    /\ \A m \in Message : Lone(in[c], m) => Lone(in'[c], m)
    /\ \A m \in Message : Lone(stored[c], m) => Lone(stored'[c], m)

\* A task that is done stays done, one starts from a request only, and requests come from
\* nowhere.
Onward ==
  \A r \in Req :
    /\ Asked(r)' => Asked(r)
    /\ Asked(r)' => task'[r] = task[r]
    /\ task[r] = "answered" => task'[r] = "answered"
    /\ task[r] = "none" /\ ~Asked(r) => task'[r] = "none"

\* Where there are fewer messages, what is said of each of them still holds.
LEMMA FewerMessages ==
  ASSUME IInv, Fewer, Onward, cause \subseteq cause',
         \A c \in Client \ up' : out'[c] = <<>> /\ in'[c] = <<>>
  PROVE  Routes' /\ Requested' /\ Replied'
<1>1. Routes'
  BY DEF IInv, Fewer, Routes
<1>2. Requested'
  <2> SUFFICES ASSUME NEW r \in Req
               PROVE  /\ Asked(r)' => task'[r] = "none"
                      /\ Lone(out'[Home(r)], Request(r)) /\ Lone(stored'["server"], Request(r))
                      /\ Lone(in'["server"], Request(r))
                      /\ Holds(out'[Home(r)], Request(r)) => ~Holds(stored'["server"], Request(r))
                      /\ Holds(out'[Home(r)], Request(r)) => ~Holds(in'["server"], Request(r))
                      /\ Holds(stored'["server"], Request(r)) => ~Holds(in'["server"], Request(r))
    BY DEF Requested
  <2>1. Request(r) \in Message /\ Home(r) \in Client /\ "server" \in Client
    BY RequestOf DEF Client
  <2>q. QED
    BY <2>1 DEF IInv, Fewer, Onward, Requested
<1>3. Replied'
  <2> SUFFICES ASSUME NEW r \in Req, NEW c \in Client,
                      Holds(out'[c], Response(r)) \/ Holds(in'[c], Response(r)) \/ Holds(stored'[c], Response(r))
               PROVE  task'[r] = "answered"
    BY DEF Replied
  <2>1. Response(r) \in Message
    BY ResponseOf
  <2>q. QED
    BY <2>1 DEF IInv, Fewer, Onward, Replied
<1>q. QED
  BY <1>1, <1>2, <1>3

\* While no caller does anything, what it knows stays true.
LEMMA CallsKept ==
  ASSUME IInv, Onward, cause \subseteq cause', UNCHANGED <<waiting, call, got>>
  PROVE  Calls'
  BY DEF IInv, Onward, Calls

\* Who comes to wait for nothing that is not on its way.
LEMMA WantedKept ==
  ASSUME IInv,
         \A r \in Req : call'[r] = "sent" /\ r \notin cause' =>
           /\ call[r] = "sent" /\ r \notin cause
           /\ OnWay(r) => OnWay(r)'
  PROVE  Wanted'
  BY DEF IInv, Wanted

\* A link that ends takes its messages along, all of which it touches.
LEMMA LoseMoves ==
  ASSUME TypeOK, NEW cs \in SUBSET Client, Lose(cs),
         \A c \in Client : stored'[c] \in {stored[c], <<>>, Tail(stored[c])},
         \A c \in Client : stored[c] = <<>> => stored'[c] = <<>>,
         \A c \in Client \ up : out[c] = <<>> /\ in[c] = <<>>
  PROVE  /\ Fewer
         /\ \A c \in Client \ up' : out'[c] = <<>> /\ in'[c] = <<>>
         /\ \A c \in Client, m \in Message : m.id \notin OnLinks(cs) =>
              /\ Holds(out[c], m) => Holds(out'[c], m)
              /\ Holds(in[c], m) => Holds(in'[c], m)
<1>1. \A c \in Client : IF c \in cs THEN out'[c] = <<>> /\ in'[c] = <<>>
                       ELSE out'[c] = out[c] /\ in'[c] = in[c]
  BY LoseTypes
<1>2. \A c \in Client : out[c] \in Seq(Message) /\ in[c] \in Seq(Message) /\ stored[c] \in Seq(Message)
  BY DEF TypeOK
<1>3. Fewer
  <2> SUFFICES ASSUME NEW c \in Client, NEW m \in Message
               PROVE  /\ Holds(out'[c], m) => Holds(out[c], m)
                      /\ Holds(in'[c], m) => Holds(in[c], m)
                      /\ Holds(stored'[c], m) => Holds(stored[c], m)
                      /\ Lone(out[c], m) => Lone(out'[c], m)
                      /\ Lone(in[c], m) => Lone(in'[c], m)
                      /\ Lone(stored[c], m) => Lone(stored'[c], m)
    BY DEF Fewer
  <2>1. CASE stored'[c] = Tail(stored[c]) /\ stored[c] # <<>>
    BY <1>1, <1>2, <2>1, Popped, Emptied
  <2>2. CASE stored'[c] \in {stored[c], <<>>}
    BY <1>1, <2>2, Emptied
  <2>q. QED
    BY <2>1, <2>2
<1>4. \A c \in Client \ up' : out'[c] = <<>> /\ in'[c] = <<>>
  BY <1>1 DEF Lose
<1>5. ASSUME NEW c \in Client, NEW m \in Message, m.id \notin OnLinks(cs)
      PROVE  /\ Holds(out[c], m) => Holds(out'[c], m)
             /\ Holds(in[c], m) => Holds(in'[c], m)
  <2>1. CASE c \in cs
    <3>1. m.id \notin Ids(out[c]) /\ m.id \notin Ids(in[c])
      BY <1>5, <2>1 DEF OnLinks
    <3>q. QED
      BY <1>2, <3>1, IdsOf
  <2>q. QED
    BY <1>1, <2>1
<1>q. QED
  BY <1>3, <1>4, <1>5

-----------------------------------------------------------------------------
(* Steps that lose messages                                                   *)

\* A link ends, the bus does, or the API server with its tasks.
LEMMA LossStep ==
  ASSUME IInv, NEW c \in Client, Lost(c) \/ BusStops \/ ServerStops
  PROVE  IInv'
<1>t. TypeOK /\ TypeOK'
  BY LinkTypes DEF IInv
<1>1. PICK cs \in SUBSET Client :
        /\ Lose(cs) /\ cause' = cause \cup OnLinks(cs) \cup (cause' \ OnLinks(cs)) /\ cause \subseteq cause'
        /\ \A d \in Client : stored'[d] \in {stored[d], <<>>}
  <2>1. CASE Lost(c)
    <3>1. /\ Lose({c}) /\ cause' = cause \cup OnLinks({c}) /\ stored' = stored
      BY <2>1 DEF Lost, Faulty
    <3>q. QED
      BY <3>1
  <2>2. CASE BusStops
    <3>1. /\ Lose(up) /\ up \in SUBSET Client /\ OnLinks(up) \subseteq OnLinks(Client)
          /\ OnLinks(Client) \cup cause \subseteq cause' /\ stored' = [d \in Client |-> <<>>]
      BY <1>t, <2>2 DEF BusStops, Faulty, OnLinks, TypeOK
    <3>q. QED
      BY <3>1
  <2>3. CASE ServerStops
    <3>1. /\ Lose({"server"}) /\ {"server"} \in SUBSET Client
          /\ OnLinks({"server"}) \cup cause \subseteq cause' /\ stored' = stored
      BY <2>3 DEF ServerStops, Faulty, Client
    <3>q. QED
      BY <3>1
  <2>q. QED
    BY <2>1, <2>2, <2>3
<1>2. /\ \A r \in Req : task'[r] = task[r] \/ (task[r] \in {"new", "done"} /\ task'[r] = "gone" /\ r \in cause')
      /\ UNCHANGED <<runs, caller>>
  BY <1>t DEF Lost, BusStops, ServerStops, Faulty, server, TypeOK
<1>3. /\ Fewer
      /\ \A d \in Client \ up' : out'[d] = <<>> /\ in'[d] = <<>>
      /\ \A d \in Client, m \in Message : m.id \notin OnLinks(cs) =>
           /\ Holds(out[d], m) => Holds(out'[d], m)
           /\ Holds(in[d], m) => Holds(in'[d], m)
  BY <1>t, <1>1, LoseMoves DEF IInv, Routes
<1>4. Onward
  <2> SUFFICES ASSUME NEW r \in Req
               PROVE  /\ Asked(r)' => Asked(r)
                      /\ Asked(r)' => task'[r] = task[r]
                      /\ task[r] = "answered" => task'[r] = "answered"
                      /\ task[r] = "none" /\ ~Asked(r) => task'[r] = "none"
    BY DEF Onward
  <2>1. Request(r) \in Message /\ Home(r) \in Client /\ "server" \in Client
    BY RequestOf DEF Client
  <2>2. Asked(r)' => Asked(r)
    BY <1>3, <2>1 DEF Fewer, Asked
  <2>q. QED
    BY <1>2, <2>2 DEF IInv, Requested
<1>5. Routes' /\ Requested' /\ Replied' /\ Calls'
  BY <1>1, <1>2, <1>3, <1>4, FewerMessages, CallsKept DEF caller
<1>6. Ran'
  BY <1>2 DEF IInv, Ran
<1>7. Wanted'
  <2> SUFFICES ASSUME NEW r \in Req, call'[r] = "sent", r \notin cause', OnWay(r)
               PROVE  call[r] = "sent" /\ r \notin cause /\ OnWay(r)'
    BY WantedKept, <1>1, <1>2 DEF caller
  <2>1. r \notin OnLinks(cs) /\ r \notin cause
    BY <1>1
  <2>2. \A m \in {Request(r), Response(r)} : m \in Message /\ m.id = r
    BY RequestOf, ResponseOf
  <2>q. QED
    BY <1>2, <1>3, <2>1, <2>2 DEF OnWay, caller
<1>q. QED
  BY <1>t, <1>5, <1>6, <1>7 DEF IInv

\* The command line client ends: only what its own calls wait for is lost.
LEMMA CliEndsStep ==
  ASSUME IInv, CliEnds
  PROVE  IInv'
<1>t. TypeOK /\ TypeOK' /\ "cli" \in Client /\ {"cli"} \in SUBSET Client
  BY LinkTypes DEF IInv, Client
<1>1. /\ Lose({"cli"}) /\ UNCHANGED <<stored, server, got, cause>>
      /\ waiting' = waiting \ Cli
      /\ \A r \in Req : call'[r] = call[r] \/ (r \in Cli /\ call'[r] = "exit")
      /\ \A r \in Req : call'[r] \in {"none", "ready", "sent", "answered", "cancelled", "late"} => r \notin Cli
  BY DEF CliEnds
<1>2. /\ Fewer
      /\ \A d \in Client \ up' : out'[d] = <<>> /\ in'[d] = <<>>
      /\ \A d \in Client \ {"cli"} : out'[d] = out[d] /\ in'[d] = in[d]
  BY <1>t, <1>1, LoseMoves, LoseTypes DEF IInv, Routes
<1>3. Onward
  <2> SUFFICES ASSUME NEW r \in Req PROVE Asked(r)' => Asked(r)
    BY <1>1 DEF Onward, server
  <2>1. Request(r) \in Message /\ Home(r) \in Client /\ "server" \in Client
    BY RequestOf DEF Client
  <2>q. QED
    BY <1>2, <2>1 DEF Fewer, Asked
<1>4. Routes' /\ Requested' /\ Replied' /\ Ran'
  BY <1>1, <1>2, <1>3, FewerMessages DEF IInv, Ran, server
<1>5. Calls'
  <2> SUFFICES ASSUME NEW r \in Req
               PROVE  /\ call'[r] \in {"none", "ready"} => task'[r] = "none" /\ ~Asked(r)'
                      /\ call'[r] = "sent" => r \in waiting'
                      /\ call'[r] \in {"answered", "ended"} => got'[r] = r /\ task'[r] = "answered"
                      /\ call'[r] \in {"cancelled", "late", "timeout"} => r \in cause'
    BY DEF Calls
  <2>1. call'[r] = call[r] \/ call'[r] = "exit"
    BY <1>1
  <2>q. QED
    BY <1>1, <1>3, <2>1 DEF IInv, Calls, Onward, server
<1>6. Wanted'
  <2> SUFFICES ASSUME NEW r \in Req, call'[r] = "sent", r \notin cause', OnWay(r)
               PROVE  call[r] = "sent" /\ r \notin cause /\ OnWay(r)'
    BY WantedKept, <1>1
  <2>1. r \notin Cli /\ call[r] = "sent" /\ r \notin cause
    BY <1>1
  <2>2. \A d \in Client, m \in {Request(r), Response(r)} : Holds(out[d], m) \/ Holds(in[d], m) => d # "cli"
    <3>1. Request(r) \in Message /\ Response(r) \in Message /\ Home(r) # "cli"
          /\ Request(r).kind = "request" /\ Response(r).kind = "response"
          /\ Request(r).id = r /\ To(Request(r)) = "server" /\ To(Response(r)) = Home(r)
      BY <2>1, RequestOf, ResponseOf
    <3>q. QED
      BY <3>1 DEF IInv, Routes
  <2>q. QED
    BY <1>1, <1>2, <2>1, <2>2 DEF OnWay, server
<1>q. QED
  BY <1>t, <1>4, <1>5, <1>6 DEF IInv

\* The bus gives up a message that it kept.
LEMMA ExpiresStep ==
  ASSUME IInv, NEW c \in Client, Expires(c)
  PROVE  IInv'
<1>t. TypeOK /\ TypeOK'
  BY LinkTypes DEF IInv
<1>1. /\ UNCHANGED <<up, out, in, server, caller, cause>>
      /\ stored[c] # <<>> /\ stored[c] \in Seq(Message) /\ stored'[c] = Tail(stored[c])
      /\ \A d \in Client \ {c} : stored'[d] = stored[d]
  BY <1>t DEF Expires, TypeOK
<1>2. /\ \A m : Holds(stored'[c], m) => Holds(stored[c], m)
      /\ \A m : Lone(stored[c], m) => Lone(stored'[c], m)
  BY <1>1, Popped
<1>3. Fewer /\ \A d \in Client \ up' : out'[d] = <<>> /\ in'[d] = <<>>
  BY <1>1, <1>2 DEF Fewer, IInv, Routes
<1>4. Onward
  <2> SUFFICES ASSUME NEW r \in Req PROVE Asked(r)' => Asked(r)
    BY <1>1 DEF Onward, server
  <2>1. Request(r) \in Message /\ Home(r) \in Client /\ "server" \in Client
    BY RequestOf DEF Client
  <2>q. QED
    BY <1>3, <2>1 DEF Fewer, Asked
<1>5. Routes' /\ Requested' /\ Replied' /\ Ran' /\ Calls'
  BY <1>1, <1>3, <1>4, FewerMessages, CallsKept DEF IInv, Ran, server, caller
<1>6. Wanted'
  BY <1>1 DEF IInv, Wanted, OnWay, server, caller
<1>q. QED
  BY <1>t, <1>5, <1>6 DEF IInv

-----------------------------------------------------------------------------
(* Steps that move messages                                                   *)

\* A subscriber is given what the bus kept for it; the command line client makes a call.
LEMMA ConnectStep ==
  ASSUME IInv, NEW c \in Client, Connect(c)
  PROVE  IInv'
<1>t. TypeOK /\ TypeOK'
  BY LinkTypes DEF IInv
<1>1. /\ c \notin up /\ up' = up \cup {c} /\ out' = out
      /\ in'[c] = Reverse(stored[c]) /\ stored'[c] = <<>> /\ in[c] = <<>>
      /\ \A d \in Client \ {c} : in'[d] = in[d] /\ stored'[d] = stored[d]
      /\ UNCHANGED <<server, waiting, got, cause>>
  BY <1>t DEF Connect, TypeOK, IInv, Routes
<1>2. \A r \in Req : call'[r] = call[r] \/ (call[r] = "none" /\ call'[r] = "ready")
  BY <1>t DEF Connect, NextCall, TypeOK
<1>3. /\ \A m : Holds(in'[c], m) <=> Holds(stored[c], m)
      /\ \A m : Lone(stored[c], m) => Lone(in'[c], m)
      /\ \A m : ~Holds(stored'[c], m) /\ Lone(stored'[c], m) /\ ~Holds(in[c], m)
  <2>1. stored[c] \in Seq(Message)
    BY <1>t DEF TypeOK
  <2>q. QED
    BY <1>1, <2>1, Reversed, Emptied
<1>4. Routes'
  <2>1. \A d \in Client \ up' : out'[d] = <<>> /\ in'[d] = <<>>
    BY <1>1 DEF IInv, Routes
  <2>2. ASSUME NEW d \in Client, NEW m \in Message
        PROVE  /\ Holds(out'[d], m) => d = IF m.kind = "request" THEN Home(m.id) ELSE "server"
               /\ Holds(in'[d], m) \/ Holds(stored'[d], m) => d = To(m)
               /\ Holds(stored'[d], m) => m.id \in cause'
    BY <1>1, <1>3 DEF IInv, Routes
  <2>q. QED
    BY <2>1, <2>2 DEF Routes
<1>5. ASSUME NEW r \in Req
      PROVE  /\ Asked(r)' => Asked(r)
             /\ Lone(out'[Home(r)], Request(r)) /\ Lone(stored'["server"], Request(r))
             /\ Lone(in'["server"], Request(r))
             /\ Holds(out'[Home(r)], Request(r)) => ~Holds(stored'["server"], Request(r))
             /\ Holds(out'[Home(r)], Request(r)) => ~Holds(in'["server"], Request(r))
             /\ Holds(stored'["server"], Request(r)) => ~Holds(in'["server"], Request(r))
  <2>1. "server" \in Client
    BY DEF Client
  <2>2. CASE c = "server"
    BY <1>1, <1>3, <2>2 DEF IInv, Requested, Asked
  <2>3. CASE c # "server"
    BY <1>1, <2>1, <2>3 DEF IInv, Requested, Asked
  <2>q. QED
    BY <2>2, <2>3
<1>6. Requested' /\ Ran'
  BY <1>1, <1>5 DEF IInv, Requested, Ran, server
<1>7. Replied'
  <2> SUFFICES ASSUME NEW r \in Req, NEW d \in Client,
                      Holds(out'[d], Response(r)) \/ Holds(in'[d], Response(r)) \/ Holds(stored'[d], Response(r))
               PROVE  task'[r] = "answered"
    BY DEF Replied
  <2>1. Holds(out[d], Response(r)) \/ Holds(in[d], Response(r)) \/ Holds(stored[d], Response(r))
    BY <1>1, <1>3
  <2>q. QED
    BY <1>1, <2>1 DEF IInv, Replied, server
<1>8. Calls'
  BY <1>1, <1>2, <1>5 DEF IInv, Calls, server
<1>9. Wanted'
  <2> SUFFICES ASSUME NEW r \in Req, call'[r] = "sent", r \notin cause', OnWay(r)
               PROVE  call[r] = "sent" /\ r \notin cause /\ OnWay(r)'
    BY WantedKept, <1>1, <1>2
  <2>1. \A d \in Client, m \in {Request(r), Response(r)} : Holds(in[d], m) => Holds(in'[d], m)
    BY <1>1, <1>3
  <2>q. QED
    BY <1>1, <1>2, <2>1 DEF OnWay, server
<1>q. QED
  BY <1>t, <1>4, <1>6, <1>7, <1>8, <1>9 DEF IInv

\* The bus passes the first message of a link on, or keeps it.
LEMMA BusTakesStep ==
  ASSUME IInv, NEW c \in Client, BusTakes(c)
  PROVE  IInv'
<1>t. TypeOK /\ TypeOK'
  BY LinkTypes DEF IInv
<1> DEFINE m == Head(out[c])
<1>1. /\ out[c] # <<>> /\ out[c] \in Seq(Message) /\ out'[c] = Tail(out[c])
      /\ \A d \in Client \ {c} : out'[d] = out[d]
      /\ UNCHANGED <<up, server, caller>> /\ cause \subseteq cause'
  BY <1>t DEF BusTakes, TypeOK
<1>2. /\ m \in Message /\ Holds(out[c], m)
      /\ \A n : Holds(out[c], n) <=> Holds(out'[c], n) \/ n = m
      /\ \A n : Lone(out[c], n) => Lone(out'[c], n)
      /\ Lone(out[c], m) => ~Holds(out'[c], m)
  BY <1>1, Popped
<1>3. To(m) \in Client /\ m.id \in Req
  BY <1>2, MessageOf
<1>4. /\ \A d \in Client \ {To(m)} : in'[d] = in[d] /\ stored'[d] = stored[d]
      /\ \/ /\ To(m) \in up /\ in'[To(m)] = Append(in[To(m)], m) /\ stored'[To(m)] = stored[To(m)]
         \/ in'[To(m)] = in[To(m)] /\ stored'[To(m)] = Append(stored[To(m)], m) /\ m.id \in cause'
  BY <1>t, <1>3 DEF BusTakes, TypeOK
<1>5. /\ in[To(m)] \in Seq(Message) /\ stored[To(m)] \in Seq(Message)
  BY <1>t, <1>3 DEF TypeOK
<1>6. /\ \A n : Holds(in'[To(m)], n) => Holds(in[To(m)], n) \/ n = m
      /\ \A n : Holds(in[To(m)], n) => Holds(in'[To(m)], n)
      /\ \A n : Holds(stored'[To(m)], n) => Holds(stored[To(m)], n) \/ n = m
      /\ \A n : Lone(in[To(m)], n) /\ (n = m => ~Holds(in[To(m)], n)) => Lone(in'[To(m)], n)
      /\ \A n : Lone(stored[To(m)], n) /\ (n = m => ~Holds(stored[To(m)], n)) => Lone(stored'[To(m)], n)
      /\ \/ Holds(in'[To(m)], m) /\ stored'[To(m)] = stored[To(m)]
         \/ in'[To(m)] = in[To(m)] /\ m.id \in cause'
  <2> DEFINE i == in[To(m)]  s == stored[To(m)]
  <2>1. /\ \A n : Holds(Append(i, m), n) <=> Holds(i, n) \/ n = m
        /\ \A n : Lone(i, n) /\ (n = m => ~Holds(i, n)) => Lone(Append(i, m), n)
    BY <1>2, <1>5, Appended
  <2>2. /\ \A n : Holds(Append(s, m), n) <=> Holds(s, n) \/ n = m
        /\ \A n : Lone(s, n) /\ (n = m => ~Holds(s, n)) => Lone(Append(s, m), n)
    BY <1>2, <1>5, Appended
  <2>3. \/ in'[To(m)] = Append(i, m) /\ stored'[To(m)] = s
        \/ in'[To(m)] = i /\ stored'[To(m)] = Append(s, m) /\ m.id \in cause'
    BY <1>4
  <2> HIDE DEF i, s, m
  <2>4. CASE in'[To(m)] = Append(i, m) /\ stored'[To(m)] = s
    BY <2>1, <2>4 DEF i, s
  <2>5. CASE in'[To(m)] = i /\ stored'[To(m)] = Append(s, m) /\ m.id \in cause'
    BY <2>2, <2>5 DEF i, s
  <2>q. QED
    BY <2>3, <2>4, <2>5
<1>7. c = IF m.kind = "request" THEN Home(m.id) ELSE "server"
  BY <1>2 DEF IInv, Routes
<1> HIDE DEF m
<1>8. Routes'
  <2>1. \A d \in Client \ up' : out'[d] = <<>> /\ in'[d] = <<>>
    <3>1. c \in up /\ (To(m) \in up \/ in'[To(m)] = in[To(m)])
      BY <1>4 DEF BusTakes
    <3>q. QED
      BY <1>1, <1>4, <3>1 DEF IInv, Routes
  <2>2. ASSUME NEW d \in Client, NEW n \in Message
        PROVE  /\ Holds(out'[d], n) => d = IF n.kind = "request" THEN Home(n.id) ELSE "server"
               /\ Holds(in'[d], n) \/ Holds(stored'[d], n) => d = To(n)
               /\ Holds(stored'[d], n) => n.id \in cause'
    <3>1. Holds(out'[d], n) => Holds(out[d], n)
      BY <1>1, <1>2
    <3>2. Holds(in'[d], n) \/ Holds(stored'[d], n) =>
            Holds(in[d], n) \/ Holds(stored[d], n) \/ (d = To(m) /\ n = m)
      BY <1>4, <1>6
    <3>3. Holds(stored'[d], n) => Holds(stored[d], n) \/ n.id \in cause'
      BY <1>4, <1>6
    <3>q. QED
      BY <1>1, <3>1, <3>2, <3>3 DEF IInv, Routes
  <2>q. QED
    BY <2>1, <2>2 DEF Routes
<1>9. ASSUME NEW r \in Req
      PROVE  /\ Asked(r)' => Asked(r)
             /\ Lone(out'[Home(r)], Request(r)) /\ Lone(stored'["server"], Request(r))
             /\ Lone(in'["server"], Request(r))
             /\ Holds(out'[Home(r)], Request(r)) => ~Holds(stored'["server"], Request(r))
             /\ Holds(out'[Home(r)], Request(r)) => ~Holds(in'["server"], Request(r))
             /\ Holds(stored'["server"], Request(r)) => ~Holds(in'["server"], Request(r))
  <2>1. Request(r) \in Message /\ Home(r) \in Client /\ "server" \in Client /\ To(Request(r)) = "server"
        /\ Request(r).kind = "request" /\ Request(r).id = r
    BY RequestOf DEF Client
  <2>2. /\ Lone(out[Home(r)], Request(r)) /\ Lone(stored["server"], Request(r))
        /\ Lone(in["server"], Request(r))
        /\ Holds(out[Home(r)], Request(r)) => ~Holds(stored["server"], Request(r))
        /\ Holds(out[Home(r)], Request(r)) => ~Holds(in["server"], Request(r))
        /\ Holds(stored["server"], Request(r)) => ~Holds(in["server"], Request(r))
    BY DEF IInv, Requested
  <2>3. CASE m = Request(r)
    <3>1. c = Home(r) /\ Holds(out[Home(r)], Request(r)) /\ To(m) = "server"
      BY <1>2, <1>7, <2>1, <2>3
    <3>2. ~Holds(out'[Home(r)], Request(r)) /\ Lone(out'[Home(r)], Request(r))
      BY <1>2, <2>2, <2>3, <3>1
    <3>3. /\ Lone(stored'["server"], Request(r)) /\ Lone(in'["server"], Request(r))
          /\ Holds(stored'["server"], Request(r)) => ~Holds(in'["server"], Request(r))
      BY <1>6, <2>2, <2>3, <3>1
    <3>q. QED
      BY <3>1, <3>2, <3>3 DEF Asked
  <2>4. CASE m # Request(r)
    <3>1. /\ Holds(out'[Home(r)], Request(r)) => Holds(out[Home(r)], Request(r))
          /\ Lone(out'[Home(r)], Request(r))
      BY <1>1, <1>2, <2>1, <2>2
    <3>2. /\ Holds(in'["server"], Request(r)) => Holds(in["server"], Request(r))
          /\ Holds(stored'["server"], Request(r)) => Holds(stored["server"], Request(r))
          /\ Lone(stored'["server"], Request(r)) /\ Lone(in'["server"], Request(r))
      BY <1>4, <1>6, <2>1, <2>2, <2>4
    <3>q. QED
      BY <2>2, <3>1, <3>2 DEF Asked
  <2>q. QED
    BY <2>3, <2>4
<1>10. Onward
  BY <1>1, <1>9 DEF Onward, server
<1>11. Requested' /\ Ran' /\ Calls'
  BY <1>1, <1>9, <1>10, CallsKept DEF IInv, Requested, Ran, server, caller
<1>12. Replied'
  <2> SUFFICES ASSUME NEW r \in Req, NEW d \in Client,
                      Holds(out'[d], Response(r)) \/ Holds(in'[d], Response(r)) \/ Holds(stored'[d], Response(r))
               PROVE  task'[r] = "answered"
    BY DEF Replied
  <2>1. \E e \in Client : Holds(out[e], Response(r)) \/ Holds(in[e], Response(r)) \/ Holds(stored[e], Response(r))
    BY <1>1, <1>2, <1>4, <1>6
  <2>q. QED
    BY <1>1, <2>1 DEF IInv, Replied, server
<1>13. Wanted'
  <2> SUFFICES ASSUME NEW r \in Req, call'[r] = "sent", r \notin cause', OnWay(r)
               PROVE  call[r] = "sent" /\ r \notin cause /\ OnWay(r)'
    BY WantedKept, <1>1 DEF caller
  <2>1. ASSUME NEW d \in Client, NEW n \in {Request(r), Response(r)}, Holds(out[d], n) \/ Holds(in[d], n)
        PROVE  \E e \in Client : Holds(out'[e], n) \/ Holds(in'[e], n)
    <3>1. n.id = r
      BY RequestOf, ResponseOf
    <3>2. CASE n = m /\ d = c /\ Holds(out[d], n)
      BY <1>3, <1>6, <3>1, <3>2
    <3>3. CASE Holds(out[d], n) /\ ~(n = m /\ d = c)
      BY <1>1, <1>2, <3>3
    <3>4. CASE Holds(in[d], n)
      BY <1>4, <1>6, <3>4
    <3>q. QED
      BY <2>1, <3>2, <3>3, <3>4
  <2>q. QED
    BY <1>1, <2>1 DEF OnWay, server, caller
<1>q. QED
  BY <1>t, <1>8, <1>11, <1>12, <1>13 DEF IInv

-----------------------------------------------------------------------------
(* Steps of the API server                                                    *)

\* A request becomes a task, its first one.
LEMMA HandleRequestStep ==
  ASSUME IInv, HandleRequest
  PROVE  IInv'
<1>t. TypeOK /\ TypeOK' /\ "server" \in Client
  <2>1. "server" \in Client
    BY DEF Client
  <2>2. CASE Req = {}
    <3>1. in["server"] \in Seq(Message) /\ in["server"] # <<>>
      BY <2>1 DEF HandleRequest, IInv, TypeOK
    <3>2. Head(in["server"]) \in Message
      BY <3>1, Popped
    <3>q. QED
      BY <2>2, <3>2, MessageOf
  <2>q. QED
    BY <2>1, <2>2, EndTypes DEF IInv
<1>0. PICK m : m = Head(in["server"])
  OBVIOUS
<1>1. /\ in["server"] # <<>> /\ in["server"] \in Seq(Message) /\ in'["server"] = Tail(in["server"])
      /\ \A d \in Client \ {"server"} : in'[d] = in[d]
      /\ UNCHANGED <<up, out, stored, runs, caller, cause>>
      /\ task' = [task EXCEPT ![m.id] = "new"]
  BY <1>t, <1>0 DEF HandleRequest, TypeOK
<1>2. /\ m \in Message /\ Holds(in["server"], m)
      /\ \A n : Holds(in["server"], n) <=> Holds(in'["server"], n) \/ n = m
      /\ \A n : Lone(in["server"], n) => Lone(in'["server"], n)
      /\ Lone(in["server"], m) => ~Holds(in'["server"], m)
  BY <1>0, <1>1, Popped
<1>3. m.id \in Req /\ m = Request(m.id)
  <2>1. To(m) = "server"
    BY <1>t, <1>2 DEF IInv, Routes
  <2>q. QED
    BY <1>2, <2>1, MessageOf
<1>4. Asked(m.id) /\ task[m.id] = "none" /\ task'[m.id] = "new" /\ ~Asked(m.id)'
      /\ \A r \in Req \ {m.id} : task'[r] = task[r]
  <2>1. Holds(in["server"], Request(m.id)) /\ ~Holds(in'["server"], Request(m.id))
    BY <1>2, <1>3 DEF IInv, Requested
  <2>2. ~Holds(out[Home(m.id)], Request(m.id)) /\ ~Holds(stored["server"], Request(m.id))
    BY <1>3, <2>1 DEF IInv, Requested
  <2>3. Asked(m.id) /\ ~Asked(m.id)'
    BY <1>1, <2>1, <2>2 DEF Asked
  <2>q. QED
    BY <1>t, <1>1, <1>3, <2>3 DEF IInv, Requested, TypeOK
<1>5. Fewer /\ \A d \in Client \ up' : out'[d] = <<>> /\ in'[d] = <<>>
  <2>1. Fewer
    BY <1>1, <1>2 DEF Fewer
  <2>2. \A d \in Client \ up : d # "server"
    BY <1>1 DEF IInv, Routes
  <2>q. QED
    BY <1>1, <2>1, <2>2 DEF IInv, Routes
<1>6. Onward
  <2> SUFFICES ASSUME NEW r \in Req PROVE Asked(r)' => Asked(r)
    BY <1>4 DEF Onward
  <2>q. QED
    BY <1>1, <1>2 DEF Asked
<1>7. Routes' /\ Requested' /\ Replied' /\ Calls'
  BY <1>1, <1>5, <1>6, FewerMessages, CallsKept DEF caller
<1>8. Ran'
  BY <1>1, <1>4 DEF IInv, Ran
<1>9. Wanted'
  <2> SUFFICES ASSUME NEW r \in Req, call'[r] = "sent", r \notin cause', OnWay(r)
               PROVE  call[r] = "sent" /\ r \notin cause /\ OnWay(r)'
    BY WantedKept, <1>1 DEF caller
  <2>1. CASE r = m.id
    BY <1>1, <1>4, <2>1 DEF OnWay, caller
  <2>2. CASE r # m.id
    <3>1. \A n \in {Request(r), Response(r)} : n # m
      BY <1>3, <2>2, RequestOf, ResponseOf
    <3>2. \A d \in Client, n \in {Request(r), Response(r)} :
            Holds(out[d], n) \/ Holds(in[d], n) => Holds(out'[d], n) \/ Holds(in'[d], n)
      BY <1>1, <1>2, <3>1
    <3>q. QED
      BY <1>1, <1>4, <2>2, <3>2 DEF OnWay, caller
  <2>q. QED
    BY <2>1, <2>2
<1>q. QED
  BY <1>t, <1>7, <1>8, <1>9 DEF IInv

\* A method is slow, ends or raises.
LEMMA MethodStep ==
  ASSUME IInv, NEW r \in Req, Slow(r) \/ Raise(r) \/ Exec(r)
  PROVE  IInv'
<1>t. TypeOK /\ TypeOK'
  <2>1. "server" \in Client
    BY DEF Client
  <2>q. QED
    BY <2>1, EndTypes DEF IInv, Server
<1>1. /\ task[r] = "new" /\ UNCHANGED <<links, caller>> /\ cause \subseteq cause'
      /\ \A q \in Req \ {r} : task'[q] = task[q] /\ runs'[q] = runs[q]
      /\ \/ task'[r] = "new" /\ runs'[r] = runs[r]
         \/ task'[r] = "done" /\ runs'[r] = runs[r] + 1
         \/ task'[r] = "gone" /\ runs'[r] \in {runs[r], runs[r] + 1} /\ r \in cause'
  <2>1. CASE Slow(r)
    BY <2>1 DEF Slow, Faulty, server
  <2>2. CASE Raise(r)
    BY <1>t, <2>2 DEF Raise, Faulty, TypeOK
  <2>3. CASE Exec(r)
    BY <1>t, <2>3 DEF Exec, TypeOK
  <2>q. QED
    BY <2>1, <2>2, <2>3
<1>2. Fewer /\ \A d \in Client \ up' : out'[d] = <<>> /\ in'[d] = <<>>
  BY <1>1 DEF Fewer, IInv, Routes, links
<1>3. Onward
  <2>1. \A q \in Req : Asked(q)' <=> Asked(q)
    BY <1>1 DEF Asked, links
  <2>2. ~Asked(r)
    BY <1>1 DEF IInv, Requested
  <2>q. QED
    BY <1>1, <2>1, <2>2 DEF Onward
<1>4. Routes' /\ Requested' /\ Replied' /\ Calls'
  BY <1>1, <1>2, <1>3, FewerMessages, CallsKept DEF caller
<1>5. Ran'
  <2>1. runs[r] = 0
    BY <1>1 DEF IInv, Ran
  <2>2. 0 + 1 = 1
    OBVIOUS
  <2>q. QED
    BY <1>1, <2>1, <2>2 DEF IInv, Ran
<1>6. Wanted'
  <2> SUFFICES ASSUME NEW q \in Req, call'[q] = "sent", q \notin cause', OnWay(q)
               PROVE  call[q] = "sent" /\ q \notin cause /\ OnWay(q)'
    BY WantedKept, <1>1 DEF caller
  <2>q. QED
    BY <1>1 DEF OnWay, links, caller
<1>q. QED
  BY <1>t, <1>4, <1>5, <1>6 DEF IInv

\* A message is written to the link of who sends it, or dropped.
LEMMA PutMoves ==
  ASSUME IInv, NEW c \in Client, NEW m \in Message, Put(c, m),
         c = IF m.kind = "request" THEN Home(m.id) ELSE "server"
  PROVE  /\ Routes'
         /\ \A d \in Client : \A n : Holds(out'[d], n) => Holds(out[d], n) \/ (d = c /\ n = m)
         /\ \A d \in Client : \A n : Holds(out[d], n) => Holds(out'[d], n)
         /\ Holds(out'[c], m) \/ m.id \in cause'
         /\ \A d \in Client : \A n : Lone(out[d], n) /\ (n = m => ~Holds(out[d], n)) => Lone(out'[d], n)
<1>1. /\ UNCHANGED <<up, in, stored>> /\ cause \subseteq cause'
      /\ \A d \in Client : d # c => out'[d] = out[d]
      /\ \/ c \in up /\ out'[c] = Append(out[c], m) /\ cause' = cause
         \/ out'[c] = out[c] /\ m.id \in cause'
  BY PutTypes DEF IInv
<1>2. out[c] \in Seq(Message)
  BY DEF IInv, TypeOK
<1>3. /\ \A n : Holds(Append(out[c], m), n) <=> Holds(out[c], n) \/ n = m
      /\ \A n : Lone(out[c], n) /\ (n = m => ~Holds(out[c], n)) => Lone(Append(out[c], m), n)
  BY <1>2, Appended
<1>4. /\ \A d \in Client : \A n : Holds(out'[d], n) => Holds(out[d], n) \/ (d = c /\ n = m)
      /\ \A d \in Client : \A n : Holds(out[d], n) => Holds(out'[d], n)
      /\ Holds(out'[c], m) \/ m.id \in cause'
      /\ \A d \in Client : \A n : Lone(out[d], n) /\ (n = m => ~Holds(out[d], n)) => Lone(out'[d], n)
  BY <1>1, <1>3
<1>5. \A d \in Client \ up' : out'[d] = <<>> /\ in'[d] = <<>>
  BY <1>1 DEF IInv, Routes
<1>6. Routes'
  BY <1>1, <1>4, <1>5 DEF IInv, Routes
<1>q. QED
  BY <1>4, <1>6

\* A task is answered.
LEMMA AnswerStep ==
  ASSUME IInv, NEW r \in Req, Answer(r)
  PROVE  IInv'
<1>t. TypeOK /\ TypeOK' /\ "server" \in Client
  <2>1. "server" \in Client
    BY DEF Client
  <2>q. QED
    BY <2>1, EndTypes DEF IInv, Server
<1> DEFINE m == Response(r)
<1>1. /\ task[r] = "done" /\ task'[r] = "answered" /\ Put("server", m) /\ UNCHANGED <<runs, caller, in, stored>>
      /\ \A q \in Req \ {r} : task'[q] = task[q]
      /\ cause \subseteq cause'
  BY <1>t DEF Answer, TypeOK, Put
<1>2. m \in Message /\ m.id = r /\ m.kind = "response" /\ \A q \in Req : Request(q) # m
  BY ResponseOf
<1> HIDE DEF m
<1>3. /\ Routes'
      /\ \A d \in Client : \A n : Holds(out'[d], n) => Holds(out[d], n) \/ (d = "server" /\ n = m)
      /\ \A d \in Client : \A n : Holds(out[d], n) => Holds(out'[d], n)
      /\ Holds(out'["server"], m) \/ m.id \in cause'
      /\ \A d \in Client : \A n : Lone(out[d], n) /\ (n = m => ~Holds(out[d], n)) => Lone(out'[d], n)
  BY <1>t, <1>1, <1>2, PutMoves
<1>4. ASSUME NEW q \in Req
      PROVE  /\ Asked(q)' <=> Asked(q)
             /\ Holds(out'[Home(q)], Request(q)) <=> Holds(out[Home(q)], Request(q))
             /\ Lone(out[Home(q)], Request(q)) => Lone(out'[Home(q)], Request(q))
  BY <1>1, <1>2, <1>3, RequestOf DEF Asked
<1>5. Onward
  BY <1>1, <1>4 DEF IInv, Requested, Onward
<1>6. Requested' /\ Calls' /\ Ran'
  <2>1. Calls'
    BY <1>1, <1>5, CallsKept DEF caller
  <2>2. Ran'
    BY <1>1 DEF IInv, Ran
  <2>3. Requested'
    BY <1>1, <1>4, <1>5 DEF IInv, Requested, Onward
  <2>q. QED
    BY <2>1, <2>2, <2>3
<1>7. Replied'
  <2> SUFFICES ASSUME NEW q \in Req, NEW d \in Client,
                      Holds(out'[d], Response(q)) \/ Holds(in'[d], Response(q)) \/ Holds(stored'[d], Response(q))
               PROVE  task'[q] = "answered"
    BY DEF Replied
  <2>1. Response(q) = m => q = r
    BY <1>2, ResponseOf
  <2>q. QED
    BY <1>1, <1>3, <2>1 DEF IInv, Replied
<1>8. Wanted'
  <2> SUFFICES ASSUME NEW q \in Req, call'[q] = "sent", q \notin cause', OnWay(q)
               PROVE  call[q] = "sent" /\ q \notin cause /\ OnWay(q)'
    BY WantedKept, <1>1 DEF caller
  <2>1. q = r => Holds(out'["server"], Response(q))
    BY <1>2, <1>3 DEF m
  <2>q. QED
    BY <1>t, <1>1, <1>3, <2>1 DEF OnWay, caller
<1>q. QED
  BY <1>t, <1>3, <1>6, <1>7, <1>8 DEF IInv

-----------------------------------------------------------------------------
(* Steps of the callers                                                       *)

\* A request is sent, its first time.
LEMMA SendStep ==
  ASSUME IInv, NEW r \in Req, Send(r)
  PROVE  IInv'
<1>t. TypeOK /\ TypeOK' /\ "server" \in Client
  <2>1. "server" \in Client
    BY DEF Client
  <2>q. QED
    BY <2>1, EndTypes DEF IInv, Caller
<1> DEFINE m == Request(r)
<1>1. /\ call[r] = "ready" /\ call'[r] = "sent" /\ waiting' = waiting \cup {r}
      /\ Put(Home(r), m) /\ UNCHANGED <<server, got, in, stored>>
      /\ \A q \in Req \ {r} : call'[q] = call[q]
      /\ cause \subseteq cause'
  BY <1>t DEF Send, TypeOK, Put
<1>2. m \in Message /\ m.id = r /\ m.kind = "request" /\ Home(r) \in Client
      /\ \A q \in Req : Response(q) # m
  BY RequestOf, ResponseOf
<1>3. task[r] = "none" /\ ~Holds(out[Home(r)], m) /\ ~Holds(stored["server"], m) /\ ~Holds(in["server"], m)
  BY <1>1 DEF IInv, Calls, Asked
<1>m. \A q \in Req : Request(q) = m => q = r
  BY <1>2, RequestOf
<1> HIDE DEF m
<1>4. /\ Routes'
      /\ \A d \in Client : \A n : Holds(out'[d], n) => Holds(out[d], n) \/ (d = Home(r) /\ n = m)
      /\ \A d \in Client : \A n : Holds(out[d], n) => Holds(out'[d], n)
      /\ Holds(out'[Home(r)], m) \/ m.id \in cause'
      /\ \A d \in Client : \A n : Lone(out[d], n) /\ (n = m => ~Holds(out[d], n)) => Lone(out'[d], n)
  BY <1>1, <1>2, PutMoves
<1>5. ASSUME NEW q \in Req \ {r}
      PROVE  /\ Asked(q)' <=> Asked(q)
             /\ Holds(out'[Home(q)], Request(q)) <=> Holds(out[Home(q)], Request(q))
             /\ Lone(out[Home(q)], Request(q)) => Lone(out'[Home(q)], Request(q))
  BY <1>1, <1>m, <1>4, RequestOf DEF Asked
<1>6. Requested'
  <2> SUFFICES ASSUME NEW q \in Req
               PROVE  /\ Asked(q)' => task'[q] = "none"
                      /\ Lone(out'[Home(q)], Request(q)) /\ Lone(stored'["server"], Request(q))
                      /\ Lone(in'["server"], Request(q))
                      /\ Holds(out'[Home(q)], Request(q)) => ~Holds(stored'["server"], Request(q))
                      /\ Holds(out'[Home(q)], Request(q)) => ~Holds(in'["server"], Request(q))
                      /\ Holds(stored'["server"], Request(q)) => ~Holds(in'["server"], Request(q))
    BY DEF Requested
  <2>1. CASE q = r
    <3>1. Lone(out'[Home(r)], m)
      BY <1>2, <1>3, <1>4 DEF IInv, Requested, m
    <3>q. QED
      BY <1>1, <1>3, <2>1, <3>1 DEF IInv, Requested, server, m
  <2>2. CASE q # r
    BY <1>1, <1>5, <2>2 DEF IInv, Requested, server
  <2>q. QED
    BY <2>1, <2>2
<1>7. Ran' /\ Replied'
  BY <1>1, <1>2, <1>4 DEF IInv, Ran, Replied, server
<1>8. Calls'
  BY <1>1, <1>5 DEF IInv, Calls, server
<1>9. Wanted'
  <2> SUFFICES ASSUME NEW q \in Req, call'[q] = "sent", q \notin cause'
               PROVE  OnWay(q)'
    BY DEF Wanted
  <2>1. CASE q = r
    BY <1>2, <1>4, <2>1 DEF OnWay, m
  <2>2. CASE q # r
    <3>1. OnWay(q)
      BY <1>1, <2>2 DEF IInv, Wanted
    <3>q. QED
      BY <1>1, <1>4, <3>1 DEF OnWay, server
  <2>q. QED
    BY <2>1, <2>2
<1>q. QED
  BY <1>t, <1>4, <1>6, <1>7, <1>8, <1>9 DEF IInv

\* A response is given to the call it answers, whatever else its caller waits for.
LEMMA HandleResponseStep ==
  ASSUME IInv, NEW c \in Client, HandleResponse(c)
  PROVE  IInv'
<1> DEFINE m == Head(in[c])
<1>1. /\ c # "server" /\ in[c] # <<>> /\ in[c] \in Seq(Message) /\ in'[c] = Tail(in[c])
      /\ \A d \in Client \ {c} : in'[d] = in[d]
      /\ UNCHANGED <<up, out, stored, server, waiting, cause>>
  BY DEF HandleResponse, IInv, TypeOK
<1>2. /\ m \in Message /\ Holds(in[c], m)
      /\ \A n : Holds(in[c], n) <=> Holds(in'[c], n) \/ n = m
      /\ \A n : Lone(in[c], n) => Lone(in'[c], n)
  BY <1>1, Popped
<1>3. m.id \in Req /\ m = Response(m.id) /\ task[m.id] = "answered"
  <2>1. To(m) # "server"
    BY <1>1, <1>2 DEF IInv, Routes
  <2>2. m.id \in Req /\ m = Response(m.id)
    BY <1>2, <2>1, MessageOf
  <2>q. QED
    BY <1>2, <2>2 DEF IInv, Replied
<1>t. TypeOK /\ TypeOK'
  BY <1>3, EndTypes DEF IInv
<1>4. /\ \A r \in Req \ {m.id} : call'[r] = call[r] /\ got'[r] = got[r]
      /\ \/ call[m.id] = "sent" /\ call'[m.id] = "answered" /\ got'[m.id] = m.id
         \/ call[m.id] # "sent" /\ call'[m.id] = call[m.id] /\ got'[m.id] = got[m.id]
  <2>1. call[m.id] = "sent" => Future(m) = {m.id}
    BY <1>3 DEF IInv, Calls, Future
  <2>2. CASE \E r \in Future(m) : call[r] = "sent" /\ call' = [call EXCEPT ![r] = "answered"]
                               /\ got' = [got EXCEPT ![r] = m.id]
    <3>1. call[m.id] = "sent" /\ call' = [call EXCEPT ![m.id] = "answered"] /\ got' = [got EXCEPT ![m.id] = m.id]
      BY <2>2 DEF Future
    <3>q. QED
      BY <1>t, <1>3, <3>1 DEF TypeOK
  <2>3. CASE (\A r \in Future(m) : call[r] # "sent") /\ UNCHANGED <<call, got>>
    BY <2>1, <2>3
  <2>q. QED
    BY <2>2, <2>3 DEF HandleResponse
<1> HIDE DEF m
<1>5. Fewer /\ \A d \in Client \ up' : out'[d] = <<>> /\ in'[d] = <<>>
  <2>1. Fewer
    BY <1>1, <1>2 DEF Fewer
  <2>2. \A d \in Client \ up : d # c
    BY <1>1 DEF IInv, Routes
  <2>q. QED
    BY <1>1, <2>1, <2>2 DEF IInv, Routes
<1>6. Onward
  <2> SUFFICES ASSUME NEW r \in Req PROVE Asked(r)' => Asked(r)
    BY <1>1 DEF Onward, server
  <2>1. in'["server"] = in["server"]
    BY <1>1 DEF Client
  <2>q. QED
    BY <1>1, <2>1 DEF Asked
<1>7. Routes' /\ Requested' /\ Replied' /\ Ran'
  BY <1>1, <1>5, <1>6, FewerMessages DEF IInv, Ran, server
<1>8. Calls'
  BY <1>1, <1>3, <1>4, <1>6 DEF IInv, Calls, Onward, server
<1>9. Wanted'
  <2> SUFFICES ASSUME NEW r \in Req, call'[r] = "sent", r \notin cause', OnWay(r)
               PROVE  call[r] = "sent" /\ r \notin cause /\ OnWay(r)'
    BY WantedKept, <1>1, <1>4
  <2>1. r # m.id
    BY <1>4
  <2>2. \A n \in {Request(r), Response(r)} : n # m
    BY <1>3, <2>1, RequestOf, ResponseOf
  <2>3. \A d \in Client, n \in {Request(r), Response(r)} :
          Holds(out[d], n) \/ Holds(in[d], n) => Holds(out'[d], n) \/ Holds(in'[d], n)
    BY <1>1, <1>2, <2>2
  <2>q. QED
    BY <1>1, <1>4, <2>1, <2>3 DEF OnWay, server
<1>q. QED
  BY <1>t, <1>7, <1>8, <1>9 DEF IInv

\* The timer ends a call only when something of it is lost or late; its caller goes on.
LEMMA EndStep ==
  ASSUME IInv, NEW r \in Req, Timer(r) \/ Resume(r)
  PROVE  IInv'
<1>t. TypeOK /\ TypeOK'
  <2>1. "server" \in Client
    BY DEF Client
  <2>q. QED
    BY <2>1, EndTypes DEF IInv, Caller
<1>1. /\ UNCHANGED <<links, server, got, cause>>
      /\ \A q \in Req \ {r} : call'[q] = call[q]
      /\ \A q \in waiting : q \in waiting' \/ (q = r /\ call'[r] # "sent")
  BY <1>t DEF Timer, Resume, TypeOK, Forgotten
<1>2. ASSUME Timer(r)
      PROVE  call'[r] \in {"cancelled", "late"} /\ r \in cause
  <2>1. call[r] \in {"sent", "answered"} /\ call'[r] \in {"cancelled", "late"} /\ (r \in cause \/ ~Moving(r))
    BY <1>t, <1>2 DEF Timer, TypeOK
  <2> SUFFICES ASSUME r \notin cause PROVE FALSE
    BY <2>1
  <2>2. call[r] = "sent" /\ ~Moving(r)
    BY <2>1 DEF Moving
  <2>3. OnWay(r) /\ task[r] \notin {"new", "done"}
    BY <2>2 DEF IInv, Wanted, Moving
  <2>4. PICK d \in Client, n \in {Request(r), Response(r)} : Holds(out[d], n) \/ Holds(in[d], n)
    BY <2>3 DEF OnWay
  <2>5. n \in Message /\ n.id = r /\ out[d] \in Seq(Message) /\ in[d] \in Seq(Message)
    BY <1>t, RequestOf, ResponseOf DEF TypeOK
  <2>6. r \in Ids(out[d]) \cup Ids(in[d])
    BY <2>4, <2>5, IdsOf
  <2>q. QED
    BY <2>2, <2>6 DEF Moving
<1>3. ASSUME Resume(r)
      PROVE  \/ call[r] = "answered" /\ call'[r] = "ended"
             \/ call[r] \in {"cancelled", "late"} /\ call'[r] = "timeout"
  BY <1>t, <1>3 DEF Resume, TypeOK
<1>4. Routes' /\ Requested' /\ Ran' /\ Replied'
  BY <1>1 DEF IInv, Routes, Requested, Asked, Ran, Replied, links, server
<1>5. Calls'
  <2>1. \A q \in Req : Asked(q)' <=> Asked(q)
    BY <1>1 DEF Asked, links
  <2>q. QED
    BY <1>1, <1>2, <1>3, <2>1 DEF IInv, Calls, server
<1>6. Wanted'
  BY <1>1, <1>2, <1>3 DEF IInv, Wanted, OnWay, links, server
<1>q. QED
  BY <1>t, <1>4, <1>5, <1>6 DEF IInv

-----------------------------------------------------------------------------
(* The theorems                                                               *)

\* Nothing has been sent, and nothing is answered.
LEMMA InitIInv == Init => IInv
<1> SUFFICES ASSUME Init PROVE IInv
  OBVIOUS
<1>1. /\ \A c \in Client : out[c] = <<>> /\ in[c] = <<>> /\ stored[c] = <<>>
      /\ \A r \in Req : task[r] = "none" /\ runs[r] = 0 /\ call[r] \in {"none", "ready"}
  BY DEF Init
<1>2. \A c \in Client : \A m : /\ ~Holds(out[c], m) /\ ~Holds(in[c], m) /\ ~Holds(stored[c], m)
                          /\ Lone(out[c], m) /\ Lone(in[c], m) /\ Lone(stored[c], m)
  BY <1>1, Emptied
<1>3. "server" \in Client /\ \A r \in Req : Home(r) \in Client
  BY RequestOf DEF Client
<1>4. Routes /\ Requested /\ Ran /\ Replied /\ Calls /\ Wanted
  BY <1>1, <1>2, <1>3 DEF Routes, Requested, Asked, Ran, Replied, Calls, Wanted
<1>q. QED
  BY <1>4, InitTypes DEF IInv

\* Each step keeps the invariant.
LEMMA NextIInv == IInv /\ [Next]_vars => IInv'
<1> SUFFICES ASSUME IInv, [Next]_vars PROVE IInv'
  OBVIOUS
<1>1. ASSUME NEW c \in Client, Connect(c) \/ Lost(c) \/ BusTakes(c) \/ Expires(c) \/ HandleResponse(c)
      PROVE  IInv'
  BY <1>1, ConnectStep, LossStep, BusTakesStep, ExpiresStep, HandleResponseStep
<1>2. CASE BusStops \/ ServerStops
  <2>1. "server" \in Client
    BY DEF Client
  <2>q. QED
    BY <1>2, <2>1, LossStep
<1>3. CASE HandleRequest \/ CliEnds
  BY <1>3, HandleRequestStep, CliEndsStep
<1>4. ASSUME NEW r \in Req, Slow(r) \/ Raise(r) \/ Server(r) \/ Caller(r)
      PROVE  IInv'
  BY <1>4, MethodStep, AnswerStep, SendStep, EndStep DEF Server, Caller
<1>5. CASE UNCHANGED vars
  BY <1>5 DEF vars, links, server, caller, IInv, TypeOK, Routes, Requested, Asked, Ran, Replied, Calls,
              Wanted, OnWay
<1>q. QED
  BY <1>1, <1>2, <1>3, <1>4, <1>5 DEF Next

\* The values of the variables of every behaviour.
THEOREM Types == Spec => []TypeOK
<1>1. IInv => TypeOK
  BY DEF IInv
<1>q. QED
  BY <1>1, InitIInv, NextIInv, PTL DEF Spec

\* A method runs at most once for a call; who returns with a response has that of its own
\* call; who times out has a fault to blame.
THEOREM OutcomesAreTrue == Spec => []OutcomeIsTrue
<1>1. IInv => OutcomeIsTrue
  <2> SUFFICES ASSUME IInv, NEW r \in Req
               PROVE  /\ runs[r] <= 1
                      /\ call[r] = "ended" => got[r] = r /\ runs[r] = 1
                      /\ call[r] = "timeout" => r \in cause
    BY DEF OutcomeIsTrue
  <2>1. runs[r] \in {0, 1} /\ (task[r] = "answered" => runs[r] = 1)
    BY DEF IInv, TypeOK, Ran
  <2>2. runs[r] <= 1
    BY <2>1
  <2>q. QED
    BY <2>1, <2>2 DEF IInv, Calls
<1>q. QED
  BY <1>1, InitIInv, NextIInv, PTL DEF Spec

=============================================================================
