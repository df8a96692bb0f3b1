------------------------------ MODULE TripPage ------------------------------
(***************************************************************************)
(* What the Trips page (TripsComponent.js, buildBlocks) and the dashboard  *)
(* tile (get_trip_state.py) derive from a window of the journal: a         *)
(* sequence of records [type, reason, clip] in the order of their dates.   *)
(* The place of a record stands for its date.  Neither module keeps any    *)
(* state: this one has operators only.                                     *)
(***************************************************************************)
EXTENDS Naturals, Sequences, SequencesExt, FiniteSetsExt

\* the events that end a beacon's absence
BEACON_CLEARS == {"beacon_found", "beacon_enabled", "beacon_disabled"}

IsBeaconLostShutdown(e) == e.type = "shutdown" /\ e.reason = "beacon_lost"

Charges == [charging_on |-> "on", charging_off |-> "off"]

-----------------------------------------------------------------------------
(* The page. *)

\* Mutant: the loop goes on past the beacon's return.
RealLoss_NoBreak(ev) ==
    {i \in DOMAIN ev :
        /\ ev[i].type = "beacon_lost"
        /\ \E j \in i + 1 .. Len(ev) : IsBeaconLostShutdown(ev[j])}

\* Pass 1: a loss is real when a beacon-lost shutdown follows it before the beacon returns.
RealLoss(ev) ==
    {i \in DOMAIN ev :
        /\ ev[i].type = "beacon_lost"
        /\ \E j \in i + 1 .. Len(ev) :
              /\ IsBeaconLostShutdown(ev[j])
              /\ \A k \in i + 1 .. j - 1 : ev[k].type \notin BEACON_CLEARS}

\* The records of the session that opens at o, without its start.
SessionOf(ev, o) ==
    {i \in o .. Len(ev) : \A k \in o .. i : ev[k].type = "start" => k = o /\ i # o}

\* Mutant: no session counts as absent from its start.
AbsentSessionStart_None(ev) == {}

\* Pass 1b: the sessions that end in a beacon-lost shutdown and never saw the beacon.
AbsentSessionStart(ev) ==
    {o \in {i \in DOMAIN ev : i = 1 \/ ev[i].type = "start"} :
        LET session   == SessionOf(ev, o)
            shutdowns == {i \in session : ev[i].type = "shutdown"}
        IN  /\ shutdowns # {}
            /\ IsBeaconLostShutdown(ev[Max(shutdowns)])
            /\ \A i \in session : ev[i].type \notin BEACON_CLEARS}

Kind(st) == IF st.charging = "on" /\ ~st.absent THEN "trip" ELSE "parking"

\* Pass 2: the boundaries between trips and parkings.
Apply(st, i) ==
    IF st.charging = "none" \/ (st.segs # <<>> /\ Last(st.segs).kind = Kind(st)) THEN st
    ELSE [st EXCEPT !.segs = Append(@, [kind |-> Kind(st), start |-> i])]

Open(absent, st, i) == IF i \in absent THEN Apply([st EXCEPT !.absent = TRUE], i) ELSE st

Enter(ev, real, st, i) ==
    CASE ev[i].type \in DOMAIN Charges -> Apply([st EXCEPT !.charging = Charges[ev[i].type]], i)
      [] ev[i].type \in BEACON_CLEARS -> Apply([st EXCEPT !.absent = FALSE], i)
      [] i \in real -> Apply([st EXCEPT !.absent = TRUE], i)
      [] OTHER -> st

\* The state of the pass behind each record.
Reading(ev) ==
    LET real   == RealLoss(ev)
        absent == AbsentSessionStart(ev)
        st[i \in 0 .. Len(ev)] ==
            IF i = 0 THEN [charging |-> "none", absent |-> FALSE, segs |-> <<>>]
            ELSE Enter(ev, real, Open(absent, st[i - 1], i), i)
    IN  st

Segments(ev) == Reading(ev)[Len(ev)].segs

\* Pass 3: the block a record falls into; 0 is none, it predates the first one.
BlockAt(segs, i) == Max({0} \cup {b \in DOMAIN segs : segs[b].start <= i})

\* Mutant: the photo that came first is not kept as the screenshot.
Shown_Lost(media, e) ==
    LET old == {m \in DOMAIN media : media[m].clip = e.clip}
    IN  CASE old = {} -> Append(media, [clip |-> e.clip, filename |-> e.type, screenshot |-> "none"])
          [] old # {} /\ e.type = "h264" -> [media EXCEPT ![Min(old)].filename = "h264"]
          [] OTHER -> [media EXCEPT ![Min(old)].screenshot = "jpeg"]

\* One more recording of a block: a photo and a video of one name share an item.
Shown(media, e) ==
    LET old == {m \in DOMAIN media : media[m].clip = e.clip}
    IN  CASE old = {} -> Append(media, [clip |-> e.clip, filename |-> e.type, screenshot |-> "none"])
          [] old # {} /\ e.type = "h264" ->
                [media EXCEPT ![Min(old)].screenshot = media[Min(old)].filename,
                              ![Min(old)].filename = "h264"]
          [] OTHER -> [media EXCEPT ![Min(old)].screenshot = "jpeg"]

\* What block b shows of the records up to each one.
MediaOf(ev, segs, b) ==
    LET media[i \in 0 .. Len(ev)] ==
            IF i = 0 THEN <<>>
            ELSE IF ev[i].type \in {"jpeg", "h264"} /\ BlockAt(segs, i) = b
                 THEN Shown(media[i - 1], ev[i]) ELSE media[i - 1]
    IN  media

\* The page, oldest block first.
BuildBlocks(ev) ==
    LET segs == Segments(ev)
    IN  [b \in DOMAIN segs |-> [kind |-> segs[b].kind, start |-> segs[b].start,
                                media |-> MediaOf(ev, segs, b)[Len(ev)]]]

-----------------------------------------------------------------------------
(* The tile: the same reading as the loops of get_trip_state.py. *)

\* Mutant: the break is one level out, the scan looks at the next record only.
TileLosses_Break(ev) ==
    {i \in DOMAIN ev :
        ev[i].type = "beacon_lost" /\ i < Len(ev) /\ IsBeaconLostShutdown(ev[i + 1])}

\* _real_losses: what the scan that follows a loss meets first.
TileLosses(ev) ==
    {i \in DOMAIN ev :
        LET ends == {j \in i + 1 .. Len(ev) :
                        ev[j].type \in BEACON_CLEARS \/ IsBeaconLostShutdown(ev[j])}
        IN  ev[i].type = "beacon_lost" /\ ends # {} /\ IsBeaconLostShutdown(ev[Min(ends)])}

\* _absent_session_starts: its registers, run over the records and one boundary more.
Boundary(ev, i) == i = Len(ev) + 1 \/ ev[i].type = "start"

Scan(ev, r, i) ==
    CASE Boundary(ev, i) ->
            [start |-> i, saw |-> FALSE, ended |-> FALSE,
             absent |-> IF r.ended /\ ~r.saw THEN r.absent \cup {r.start} ELSE r.absent]
      [] ~Boundary(ev, i) /\ ev[i].type \in BEACON_CLEARS -> [r EXCEPT !.saw = TRUE]
      [] ~Boundary(ev, i) /\ ev[i].type = "shutdown" -> [r EXCEPT !.ended = IsBeaconLostShutdown(ev[i])]
      [] OTHER -> r

Registers(ev) ==
    LET r[i \in 0 .. Len(ev) + 1] ==
            IF i = 0 THEN [start |-> 1, saw |-> FALSE, ended |-> FALSE, absent |-> {}]
            ELSE Scan(ev, r[i - 1], i)
    IN  r

TileAbsent(ev) == Registers(ev)[Len(ev) + 1].absent

\* _last_segment: only the segment that is open at the end is kept; start 0 is no segment.
NoSegment == [kind |-> "none", start |-> 0]

TileApply(st, i) ==
    IF st.charging = "none" \/ st.current.kind = Kind(st) THEN st
    ELSE [st EXCEPT !.current = [kind |-> Kind(st), start |-> i]]

TileOpen(absent, st, i) == IF i \in absent THEN TileApply([st EXCEPT !.absent = TRUE], i) ELSE st

TileEnter(ev, real, st, i) ==
    CASE ev[i].type \in DOMAIN Charges -> TileApply([st EXCEPT !.charging = Charges[ev[i].type]], i)
      [] ev[i].type \in BEACON_CLEARS -> TileApply([st EXCEPT !.absent = FALSE], i)
      [] i \in real -> TileApply([st EXCEPT !.absent = TRUE], i)
      [] OTHER -> st

TileReading(ev) ==
    LET real   == TileLosses(ev)
        absent == TileAbsent(ev)
        st[i \in 0 .. Len(ev)] ==
            IF i = 0 THEN [charging |-> "none", absent |-> FALSE, current |-> NoSegment]
            ELSE TileEnter(ev, real, TileOpen(absent, st[i - 1], i), i)
    IN  st

LastSegment(ev) == TileReading(ev)[Len(ev)].current

=============================================================================
