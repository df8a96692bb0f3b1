------------------------------ MODULE Requests ------------------------------
(***************************************************************************)
(* Requests and the API over the event bus: RequestsController of          *)
(* sdk/socket/requests.py and ApiServer of sdk/socket/api.py, called by a  *)
(* plugin that makes each call once and by the command line client         *)
(* (sdk/cli.py), which makes its call on every on_connected.               *)
(* The bus is what EventBus shows of it: a message goes to the subscriber  *)
(* of its channel, or waits for one until it expires; what is on a link    *)
(* that is lost is lost.  Ten seconds pass for a caller when nothing of    *)
(* its call is on the way any more, or something slow or lost is.          *)
(***************************************************************************)
EXTENDS Naturals, Sequences, SequencesExt, FiniteSets

CONSTANTS
    Own,        \* the calls of the plugin
    Again,      \* the calls the command line client may make, in order
    MaxFaults   \* lost links, restarts, slow and failing methods together

ASSUME RequestsAssumption == MaxFaults \in Nat /\ IsInjective(Again) /\ Own \cap Range(Again) = {}

VARIABLES
    up,       \* the clients that are connected and subscribed
    out, in,  \* [client -> messages written to its link, messages for it]
    stored,   \* [client -> the bus's messages for it that nobody is subscribed to yet]
    task,     \* [request -> the task of the API server]
    runs,     \* [request -> how often its method ran]
    waiting,  \* _waiting of the callers
    call,     \* [request -> the call: none, ready, sent, answered, cancelled, late, ended]
    got,      \* [request -> the response its future was given]
    stray,    \* responses handed on to the plugin's listener
    stopping, \* stop_event of the command line client
    faults,
    cause     \* history: the requests a fault touched

links == <<up, out, in, stored>>
server == <<task, runs>>
caller == <<waiting, call, got, stray, stopping>>
vars == <<links, server, caller, faults, cause>>

-----------------------------------------------------------------------------
Cli == Range(Again)
Req == Own \cup Cli
Client == {"plugin", "cli", "server"}
Home(r) == IF r \in Cli THEN "cli" ELSE "plugin"

Request(r) == [kind |-> "request", id |-> r]
Response(r) == [kind |-> "response", id |-> r]
To(m) == IF m.kind = "request" THEN "server" ELSE Home(m.id)
Ids(s) == {s[i].id : i \in DOMAIN s}

\* Something of the call is on the way, or its caller is about to be resumed.
Moving(r) ==
    \/ \E c \in Client : r \in Ids(out[c]) \cup Ids(in[c])
    \/ task[r] \in {"new", "done"}
    \/ call[r] = "answered"

Faulty(touched) == faults < MaxFaults /\ faults' = faults + 1 /\ cause' = cause \cup touched

\* Connection.send_message: without a link the message is dropped, and nobody is told.
Put(c, m) ==
    /\ out' = IF c \in up THEN [out EXCEPT ![c] = Append(@, m)] ELSE out
    /\ cause' = IF c \in up THEN cause ELSE cause \cup {m.id}
    /\ UNCHANGED <<up, in, stored, faults>>

-----------------------------------------------------------------------------
(* Links and the bus. *)

\* The command line client's on_connected makes its call.
NextCall ==
    IF \A i \in DOMAIN Again : call[Again[i]] # "none" THEN UNCHANGED call
    ELSE \E i \in DOMAIN Again :
            /\ call[Again[i]] = "none" /\ \A j \in 1 .. i - 1 : call[Again[j]] # "none"
            /\ call' = [call EXCEPT ![Again[i]] = "ready"]

Connect(c) ==
    /\ c \notin up
    /\ c = "cli" => ~stopping /\ \A r \in Cli : call[r] # "ready"
    /\ up' = up \cup {c}
    /\ in' = [in EXCEPT ![c] = Reverse(stored[c])]
    /\ stored' = [stored EXCEPT ![c] = <<>>]
    /\ IF c = "cli" THEN NextCall ELSE UNCHANGED call
    /\ UNCHANGED <<out, server, waiting, got, stray, stopping, faults, cause>>

\* Links end, and what is on them.
Lose(cs) ==
    /\ up' = up \ cs
    /\ out' = [c \in Client |-> IF c \in cs THEN <<>> ELSE out[c]]
    /\ in' = [c \in Client |-> IF c \in cs THEN <<>> ELSE in[c]]

OnLinks(cs) == UNION {Ids(out[c]) \cup Ids(in[c]) : c \in cs}

Lost(c) ==
    /\ c \in up /\ Lose({c}) /\ Faulty(OnLinks({c}))
    /\ UNCHANGED <<stored, server, caller>>

\* vrg-core restarts, and the bus with it.
BusStops ==
    /\ up # {} /\ Lose(up) /\ Faulty(OnLinks(Client) \cup UNION {Ids(stored[c]) : c \in Client})
    /\ stored' = [c \in Client |-> <<>>]
    /\ UNCHANGED <<server, caller>>

\* The service of the API server restarts: its tasks are gone.
ServerStops ==
    /\ "server" \in up /\ Lose({"server"})
    /\ LET dead == {r \in Req : task[r] \in {"new", "done"}}
       IN  /\ Faulty(OnLinks({"server"}) \cup dead)
           /\ task' = [r \in Req |-> IF r \in dead THEN "gone" ELSE task[r]]
    /\ UNCHANGED <<stored, runs, caller>>

\* The bus passes a message on, or keeps it for a subscriber to come.
BusTakes(c) ==
    /\ c \in up /\ out[c] # <<>>
    /\ LET m == Head(out[c])
           known == To(m) \in up
       IN  /\ in' = IF known THEN [in EXCEPT ![To(m)] = Append(@, m)] ELSE in
           /\ stored' = IF known THEN stored ELSE [stored EXCEPT ![To(m)] = Append(@, m)]
           /\ cause' = IF known THEN cause ELSE cause \cup {m.id}
    /\ out' = [out EXCEPT ![c] = Tail(@)]
    /\ UNCHANGED <<up, server, caller, faults>>

Expires(c) ==
    /\ stored[c] # <<>>
    /\ stored' = [stored EXCEPT ![c] = Tail(@)]
    /\ UNCHANGED <<up, out, in, server, caller, faults, cause>>

-----------------------------------------------------------------------------
(* ApiServer. *)

\* on_request: each request gets a task of its own, and the reader goes on.
HandleRequest ==
    /\ in["server"] # <<>>
    /\ task' = [task EXCEPT ![Head(in["server"]).id] = "new"]
    /\ in' = [in EXCEPT !["server"] = Tail(@)]
    /\ UNCHANGED <<up, out, stored, runs, caller, faults, cause>>

\* The method takes longer than its caller waits.
Slow(r) ==
    /\ task[r] = "new" /\ r \notin cause
    /\ Faulty({r})
    /\ UNCHANGED <<links, server, caller>>

Exec(r) ==
    /\ task[r] = "new"
    /\ task' = [task EXCEPT ![r] = "done"]
    /\ runs' = [runs EXCEPT ![r] = @ + 1]
    /\ UNCHANGED <<links, caller, faults, cause>>

\* The method is unknown, or raises with or without effect: nothing is answered.
Raise(r) ==
    /\ task[r] = "new"
    /\ Faulty({r})
    /\ task' = [task EXCEPT ![r] = "gone"]
    /\ runs' \in {runs, [runs EXCEPT ![r] = @ + 1]}
    /\ UNCHANGED <<links, caller>>

Answer(r) ==
    /\ task[r] = "done"
    /\ task' = [task EXCEPT ![r] = "answered"]
    /\ Put("server", Response(r))
    /\ UNCHANGED <<runs, caller>>

-----------------------------------------------------------------------------
(* RequestsController. *)

Send(r) ==
    /\ call[r] = "ready"
    /\ call' = [call EXCEPT ![r] = "sent"]
    /\ waiting' = waiting \cup {r}
    /\ Put(Home(r), Request(r))
    /\ UNCHANGED <<server, got, stray, stopping>>

\* Mutant: the response is for whoever has waited longest.
Future_Oldest(m) == {r \in waiting : Home(r) = To(m) /\ call[r] = "sent"}

\* The future a response is for.
Future(m) == {m.id} \cap waiting

\* handle_response sets the future of its request.  A future that the timer has cancelled
\* raises; on_message then hands the response to the plugin.  One nobody waits for is dropped.
HandleResponse(c) ==
    /\ c # "server" /\ in[c] # <<>>
    /\ LET m == Head(in[c])
       IN  \/ \E r \in Future(m) :
                /\ call[r] = "sent"
                /\ call' = [call EXCEPT ![r] = "answered"]
                /\ got' = [got EXCEPT ![r] = m.id]
                /\ UNCHANGED stray
           \/ /\ \A r \in Future(m) : call[r] # "sent"
              /\ stray' = IF Future(m) = {} THEN stray ELSE stray \cup {m.id}
              /\ UNCHANGED <<call, got>>
    /\ in' = [in EXCEPT ![c] = Tail(@)]
    /\ UNCHANGED <<up, out, stored, server, waiting, stopping, faults, cause>>

\* The timer of wait_for cancels the future or, when that is done, the caller that has not
\* been resumed yet.
Timer(r) ==
    /\ call[r] \in {"sent", "answered"}
    /\ r \in cause \/ ~Moving(r)
    /\ call' = [call EXCEPT ![r] = IF @ = "sent" THEN "cancelled" ELSE "late"]
    /\ UNCHANGED <<links, server, waiting, got, stray, stopping, faults, cause>>

\* Mutant: the entry of a call that timed out stays.
Forgotten_Answered(r) == IF call[r] = "answered" THEN {r} ELSE {}

\* _waiting.pop
Forgotten(r) == {r}

\* The caller goes on with the response, or with RequestTimeoutError; either ends the command
\* line client.
Resume(r) ==
    /\ call[r] \in {"answered", "cancelled", "late"}
    /\ call' = [call EXCEPT ![r] = IF @ = "answered" THEN "ended" ELSE "timeout"]
    /\ waiting' = waiting \ Forgotten(r)
    /\ stopping' = (stopping \/ r \in Cli)
    /\ UNCHANGED <<links, server, got, stray, faults, cause>>

\* The command line client disconnects and its process ends.
CliEnds ==
    /\ stopping /\ \E r \in Cli : call[r] \notin {"exit", "ended", "timeout"}
    /\ Lose({"cli"})
    /\ call' = [r \in Req |-> IF r \in Cli /\ call[r] \notin {"ended", "timeout"}
                              THEN "exit" ELSE call[r]]
    /\ waiting' = waiting \ Cli
    /\ UNCHANGED <<stored, server, got, stray, stopping, faults, cause>>

-----------------------------------------------------------------------------
Init ==
    /\ up \in SUBSET {"plugin", "server"}
    /\ out = [c \in Client |-> <<>>] /\ in = [c \in Client |-> <<>>] /\ stored = [c \in Client |-> <<>>]
    /\ task = [r \in Req |-> "none"] /\ runs = [r \in Req |-> 0]
    /\ waiting = {} /\ got = [r \in Req |-> "none"] /\ stray = {} /\ stopping = FALSE
    /\ call = [r \in Req |-> IF r \in Cli THEN "none" ELSE "ready"]
    /\ faults = 0 /\ cause = {}

Server(r) == Exec(r) \/ Answer(r)
Caller(r) == Send(r) \/ Timer(r) \/ Resume(r)

Next ==
    \/ \E c \in Client : Connect(c) \/ Lost(c) \/ BusTakes(c) \/ Expires(c) \/ HandleResponse(c)
    \/ BusStops \/ ServerStops \/ HandleRequest \/ CliEnds
    \/ \E r \in Req : Slow(r) \/ Raise(r) \/ Server(r) \/ Caller(r)

Spec == Init /\ [][Next]_vars

\* Event loops and the bus go on; links may stay down and methods may hang.
Fairness ==
    /\ WF_vars(HandleRequest) /\ WF_vars(CliEnds)
    /\ \A c \in Client : WF_vars(BusTakes(c)) /\ WF_vars(HandleResponse(c))
    /\ \A r \in Req : WF_vars(Answer(r)) /\ WF_vars(Exec(r)) /\ WF_vars(Caller(r))

FairSpec == Spec /\ Fairness

-----------------------------------------------------------------------------
(* Properties. *)

Message == [kind : {"request", "response"}, id : Req]

\* The values of the variables: what is on the links and kept by the bus are messages of
\* calls, each task and each call is in a state of its own, and a future holds a response.
TypeOK ==
    /\ up \subseteq Client
    /\ out \in [Client -> Seq(Message)] /\ in \in [Client -> Seq(Message)]
    /\ stored \in [Client -> Seq(Message)]
    /\ task \in [Req -> {"none", "new", "done", "answered", "gone"}] /\ runs \in [Req -> Nat]
    /\ call \in [Req -> {"none", "ready", "sent", "answered", "cancelled", "late",
                        "ended", "timeout", "exit"}]
    /\ waiting \subseteq Req /\ got \in [Req -> Req \cup {"none"}] /\ stray \subseteq Req
    /\ stopping \in BOOLEAN /\ faults \in 0 .. MaxFaults /\ cause \subseteq Req

\* A caller that returns with a response has the response of its own call, whose method ran
\* once and to its end, whatever else is on the way, late or sent again.  A call that timed out
\* ran at most once, and only a fault makes it time out: a link that was lost or not there, a
\* method that raised, was unknown or slow.  Nothing on the way from _waiting to the task of
\* the API server and back mixes up or drops a message by itself.
OutcomeIsTrue ==
    \A r \in Req :
        /\ runs[r] <= 1
        /\ call[r] = "ended" => got[r] = r /\ runs[r] = 1
        /\ call[r] = "timeout" => r \in cause

\* Every call ends, with a response or a timeout, and leaves no entry in _waiting: also a
\* request that was dropped without a link, or whose method raised and answers nothing.
CallsEnd == \A r \in Req : r \in waiting ~> r \notin waiting

\* "executes a single API call from the command line" (cli.py:28).
CliOnce == Cardinality({r \in Cli : runs[r] > 0}) <= 1

=============================================================================
