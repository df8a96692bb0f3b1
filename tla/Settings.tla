------------------------------ MODULE Settings ------------------------------
(***************************************************************************)
(* A settings or list page of the web front-end at work: the handlers of   *)
(* SettingsPages, started by controls, by each other and by timers, run    *)
(* between their awaits while the device serves their requests and its     *)
(* answers come back in any order, or not at all.  A setting has two       *)
(* values; a row of a list is there or not.                                *)
(* A failed request is an answer that is not ok, or none: the device may   *)
(* have served it all the same.                                            *)
(***************************************************************************)
EXTENDS SettingsPages, Naturals, Sequences, FiniteSets

CONSTANTS
    MaxInputs,  \* [page -> controls used and forms edited by the user]
    MaxFaults   \* failed requests

ASSUME SettingsAssumption == MaxInputs \in [DOMAIN Pages -> Nat] /\ MaxFaults \in Nat

VARIABLES
    page,     \* the page that is open
    saved,    \* [setting -> its value on the device]
    shown,    \* [setting -> its value on the page]
    known,    \* settings that were filled from an answer
    edited,   \* forms that show what is not saved
    flipped,  \* switches bound one-way that show the opposite of the page's data
    busy,     \* flags that are set
    calls,    \* handlers that run
    inputs, faults,
    doubt     \* history: settings whose last calls raced or failed after the device served them,
              \* that a failed load should have shown after a save, or whose switch is bound
              \* one-way and shows a save that failed

device == <<saved>>
form == <<shown, known, edited, flipped>>
vars == <<page, device, form, busy, calls, inputs, faults, doubt>>

-----------------------------------------------------------------------------
H(h) == Pages[page].handlers[h]
SettingsOf(p) ==
    UNION {LET h == Pages[p].handlers[n] IN h.fills \cup h.saves \cup h.edits :
              n \in DOMAIN Pages[p].handlers}
Rows == Pages[page].rows
Bare == {s \in SettingsOf(page) : <<page, s>> \in OneWay}

Touched(c) == H(c.handler).fills \cup H(c.handler).saves
Asking(c) == c.stage \in {"asked", "answered"}

\* What two calls that are under way at once both touch, and one of them saves.
RacedBy(c, d) ==
    IF c # d /\ Asking(c) /\ Asking(d)
    THEN (H(c.handler).saves \cap Touched(d)) \cup (H(d.handler).saves \cap Touched(c))
    ELSE {}

\* What follows inside the browser's task comes before any other event.
Settled == \A c \in calls : c.stage = "awaiting" => \E d \in calls : d.parent = c.handler

NewCall(h, parent, value, others) ==
    [handler |-> h, parent |-> parent, value |-> value, answer |-> <<>>, left |-> H(h).awaits,
     raced |-> {}, orphan |-> FALSE,
     id |-> CHOOSE k \in 0..Cardinality(others) :
               /\ \A c \in others : c.handler = h => c.id # k
               /\ \A j \in 0..(k - 1) : \E c \in others : c.handler = h /\ c.id = j,
     stage |-> CASE H(h).request = "none" -> "awaiting"
                 [] H(h).request # "none" /\ H(h).fills \cup H(h).saves = {} -> "answered"
                 [] OTHER -> "asked"]

\* Calls start next to the others; flags are set, and the others' races show.
Begin(new, others, flags) ==
    LET all == others \cup new
        with(c) == UNION {RacedBy(c, d) : d \in all}
    IN  /\ calls' = {[c EXCEPT !.raced = @ \cup with(c)] : c \in all}
        /\ busy' = flags \cup ({H(c.handler).flag : c \in new} \ {"none"})

\* setTimeout
Timers(handlers, others) ==
    {[NewCall(n, "none", FALSE, others) EXCEPT !.stage = "timer"] : n \in handlers}

Races(new, others) == UNION {RacedBy(c, d) : c \in new, d \in others \cup new}

-----------------------------------------------------------------------------
(* The user. *)

\* What a control asks the device to save.
Asked(h) ==
    LET s == CHOOSE x \in H(h).saves : TRUE
    IN  CASE H(h).saves = {} -> FALSE
          [] H(h).saves # {} /\ H(h).shows = "form" -> shown[s]
          [] OTHER -> ~shown[s]

Press(h) ==
    /\ Settled /\ inputs < MaxInputs[page]
    /\ h \notin Pages[page].hidden \cup {"mounted"} /\ H(h).blocks \cap busy = {}
    /\ h \in RowHandlers \/ H(h).saves \cap Rows # {} => Rows \subseteq known
    /\ H(h).to = "on" => \A s \in H(h).saves : ~shown[s]
    /\ H(h).to = "off" => \A s \in H(h).saves : shown[s]
    /\ H(h).once => H(h).fills \cap known = {}
    /\ inputs' = inputs + 1
    /\ LET new == {NewCall(h, "none", Asked(h), calls)}
       IN  Begin(new, calls, busy \ Variable(H(h).flag)) /\ doubt' = doubt \cup Races(new, calls)
    /\ shown' = IF H(h).shows = "switch"
                THEN [s \in DOMAIN shown |-> shown[s] # (s \in H(h).saves)] ELSE shown
    /\ edited' = edited \ H(h).saves
    /\ flipped' = IF H(h).saves \subseteq Bare
                  THEN (flipped \ H(h).saves) \cup (H(h).saves \ flipped) ELSE flipped
    /\ UNCHANGED <<page, device, known, faults>>

Edit(s) ==
    /\ Settled /\ inputs < MaxInputs[page]
    /\ Pages[page].inputs[s] \cap busy = {} /\ (s \in Rows => s \in known)
    /\ inputs' = inputs + 1
    /\ shown' = [shown EXCEPT ![s] = ~@]
    /\ edited' = edited \cup {s}
    /\ UNCHANGED <<page, device, known, flipped, busy, calls, faults, doubt>>

-----------------------------------------------------------------------------
(* The device, outside of the front-end. *)

Serve(c) ==
    /\ Settled /\ c.stage = "asked"
    /\ saved' = [s \in DOMAIN saved |-> IF s \in H(c.handler).saves THEN c.value ELSE saved[s]]
    /\ calls' = (calls \ {c}) \cup
                {[c EXCEPT !.stage = "answered",
                           !.answer = [s \in H(c.handler).fills |-> saved'[s]]]}
    /\ UNCHANGED <<page, form, busy, inputs, faults, doubt>>

-----------------------------------------------------------------------------
(* Answers. *)

\* A good answer fills the page; one that makes new rows leaves the calls that hold an old row
\* without one.
Deliver(c) ==
    LET h == H(c.handler)
        fills == IF c.orphan THEN {} ELSE h.fills
        others == IF h.replaces
                  THEN {[d EXCEPT !.orphan = d.handler \in RowHandlers] : d \in calls \ {c}}
                  ELSE calls \ {c}
    IN  /\ Settled /\ c.stage = "answered"
        /\ shown' = [s \in DOMAIN shown |-> IF s \in fills THEN c.answer[s] ELSE shown[s]]
        /\ known' = known \cup fills
        /\ edited' = (edited \ fills) \cup h.edits
        /\ flipped' = flipped \ fills
        /\ doubt' = (doubt \ ((fills \cup IF h.shows = "answer" THEN {} ELSE h.saves) \ c.raced))
                     \cup (fills \cap c.raced)
        /\ busy' = IF h.replaces THEN busy \ RowFlags ELSE busy
        /\ calls' = others \cup {[c EXCEPT !.stage = "awaiting", !.answer = <<>>]}
        /\ UNCHANGED <<page, device, inputs, faults>>

\* The flag a call clears when it ends: not that of a row it does not hold any more.
Cleared(c) == IF c.orphan /\ H(c.handler).flag \in RowFlags THEN {} ELSE Variable(H(c.handler).flag)

\* The page relies on the handler m to show s after a save of it.
Relies(s, m) ==
    \E n \in DOMAIN Pages[page].handlers :
        /\ s \in H(n).saves
        /\ \/ m \in H(n).starts \cup H(n).later \cup H(n).failed
           \/ \E i \in DOMAIN H(n).awaits : m \in H(n).awaits[i]

\* A request fails, before the device served it or after.  A load that makes new rows draws them
\* again from the page's data even if it fails: they were hidden meanwhile.
Fail(c) ==
    LET h == H(c.handler)
        rest == calls \ {c}
        new == {NewCall(n, c.parent, FALSE, rest) : n \in h.failed}
        back == IF h.reverts /\ ~c.orphan THEN h.saves ELSE {}
        redrawn == IF h.replaces THEN Bare \cap flipped \cap h.fills ELSE {}
        unshown == IF h.request = "load" THEN {s \in h.fills : Relies(s, c.handler)} ELSE {}
    IN  /\ Settled /\ Asking(c) /\ faults < MaxFaults
        /\ faults' = faults + 1
        /\ shown' = [s \in DOMAIN shown |-> IF s \in back THEN ~c.value ELSE shown[s] # (s \in redrawn)]
        /\ flipped' = flipped \ redrawn
        /\ edited' = IF h.shows = "form" THEN edited \cup h.saves ELSE edited
        /\ doubt' = doubt \cup unshown
                          \cup (IF c.stage = "answered" THEN h.saves ELSE h.saves \cap Bare)
                          \cup Races(new, rest)
        /\ Begin(new, rest \cup Timers(h.again, rest), busy \ Cleared(c))
        /\ UNCHANGED <<page, device, known, inputs>>

\* A call goes on when what it awaits has ended: the next calls it awaits, or its end.
Resume(c) ==
    LET h == H(c.handler)
        over == c.left = <<>>
        rest == (calls \ {c}) \cup
                IF over THEN Timers(h.later \cup h.again, calls \ {c})
                        ELSE {[c EXCEPT !.left = Tail(@)]}
        next == IF over THEN h.starts ELSE Head(c.left)
        new == {NewCall(n, IF over THEN "none" ELSE c.handler, FALSE, rest) : n \in next}
    IN  /\ c.stage = "awaiting" /\ \A d \in calls : d.parent # c.handler
        /\ Begin(new, rest, IF over /\ ~h.keeps THEN busy \ Cleared(c) ELSE busy)
        /\ doubt' = doubt \cup Races(new, rest)
        /\ UNCHANGED <<page, device, form, inputs, faults>>

\* A timer is due.
Fire(c) ==
    LET rest == calls \ {c}
        new == {NewCall(c.handler, "none", FALSE, rest)}
    IN  /\ Settled /\ c.stage = "timer"
        /\ Begin(new, rest, busy)
        /\ doubt' = doubt \cup Races(new, rest)
        /\ UNCHANGED <<page, device, form, inputs, faults>>

-----------------------------------------------------------------------------
\* The page is mounted.
Init ==
    /\ page \in DOMAIN Pages
    /\ saved = [s \in SettingsOf(page) |-> TRUE]
    /\ shown = [s \in SettingsOf(page) |-> FALSE]
    /\ known = {} /\ edited = {} /\ flipped = {} /\ busy = {} /\ inputs = 0 /\ faults = 0 /\ doubt = {}
    /\ calls = {NewCall("mounted", "none", FALSE, {})}

Next ==
    \/ \E h \in DOMAIN Pages[page].handlers : Press(h)
    \/ \E s \in DOMAIN Pages[page].inputs : Edit(s)
    \/ \E c \in calls : Serve(c) \/ Deliver(c) \/ Fail(c) \/ Resume(c) \/ Fire(c)

Spec == Init /\ [][Next]_vars

-----------------------------------------------------------------------------
(* Properties. *)

\* Once no call touches a setting any more, it is shown as the device has it.
ShownAsSaved(s) == (\A c \in calls : s \notin Touched(c)) => shown[s] = saved[s]

\* A setting that was loaded and that no call touches any more is shown as the device has it,
\* whatever failed, was put back, loaded again or answered late, unless the user edits it; or its
\* last calls raced, or failed after the device had served them; or a load failed that the page
\* relies on to show it after a save (awaited, or started, by the handler that saves it); or it is
\* a switch bound one-way and a save of it failed: nothing puts that one back.
Agreement == \A s \in known \ (doubt \cup edited) : ShownAsSaved(s)

\* Settings two calls may save at once: their controls have no flag (WireGuard, the lists) or share
\* one variable, which the toggle of another row takes from them (WireGuard's plugins), a reload
\* makes new rows whose flags are clear (system), the control of one call does not look at the
\* flag of the other (users), or a load clears the flag of a call it runs beside (modem, Wi-Fi:
\* the load that a timer starts).
Racy ==
    {<<"wireguard", "auto">>, <<"wireguard", "skip_on_wifi">>,
     <<"wireguard", "via_wg">>, <<"wireguard", "other.via_wg">>,
     <<"inbox", "messages">>, <<"tracks", "tracks">>,
     <<"system", "status">>, <<"system", "enabled">>, <<"users", "users">>,
     <<"modem", "apn">>, <<"wifi", "mode">>, <<"wifi", "ap">>, <<"wifi", "wifi">>}

\* Flags disable the controls of a setting for as long as a call saves it: no two calls save
\* any other setting at once, of which either might come last.
OneSaver ==
    \A c, d \in calls : \A s \in RacedBy(c, d) :
        s \in H(c.handler).saves \cap H(d.handler).saves => <<page, s>> \in Racy

\* A flag that stays set when the reload after a good action fails (SystemSettingsComponent).
Stuck == {"service.actionLoading"}

\* A flag that is set belongs to a call that has not ended: no control stays disabled, and no
\* spinner turns, for a call that is over.
FlagsHeld == \A f \in busy \ Stuck : \E c \in calls : H(c.handler).flag = f

=============================================================================
