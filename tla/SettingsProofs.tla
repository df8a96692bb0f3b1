--------------------------- MODULE SettingsProofs ---------------------------
(* Proofs about Settings for any number of inputs and failed requests: which   *)
(* rules a table of handlers has to obey for its flags to be cleared, its      *)
(* saves to be kept apart and its settings to be shown as the device has them, *)
(* that every page of SettingsPages obeys them, and that they suffice.         *)
EXTENDS Settings, SequenceTheorems, TLAPS

-----------------------------------------------------------------------------
(* The rules                                                                   *)

Names(p)  == DOMAIN Pages[p].handlers
Of(p, n)  == Pages[p].handlers[n]

\* The handlers one starts without awaiting them.
Spawns(h) == h.starts \cup h.later \cup h.again \cup h.failed

\* All handlers it starts, awaited or not, are in T.
Starts(h, T) == Spawns(h) \subseteq T /\ h.awaits \in Seq(SUBSET T)

\* A page starts with its handler mounted, which nothing else starts.
Closed(p) ==
  /\ "mounted" \in Names(p) /\ "none" \notin Names(p)
  /\ Of(p, "mounted").request = "none" /\ Of(p, "mounted").flag = "none"
  /\ \A n \in Names(p) : Starts(Of(p, n), Names(p) \ {"mounted"})

\* A flag that is left set is taken over by a timer, unless it is one that gets stuck.
HandedOn(p) ==
  \A n \in Names(p) :
    Of(p, n).keeps => \/ Of(p, n).flag \in Stuck
                      \/ /\ Of(p, n).flag \notin RowFlags
                         /\ \E m \in Of(p, n).later : Of(p, m).flag = Of(p, n).flag

\* A handler with a control that its own flag disables, and that nothing else starts.
Guarded(p, g, k, n) == n \in Names(p) /\ Of(p, n).flag = g /\ n # k

AwaitsOnly(p, n, k) == Of(p, n).awaits = <<{k}>>

\* The flag g keeps calls apart: those that set it have a control that it disables, but for k,
\* the load such a call or the start of the page awaits.
Guards(p, g, k) ==
  /\ g \notin RowFlags \cup TogglingPlugin \cup {"none"}
  /\ \A n \in Names(p) : Guarded(p, g, k, n) =>
       g \in Of(p, n).blocks /\ \A m \in Names(p) : Starts(Of(p, m), Names(p) \ {n})
  /\ k \in Names(p) =>
       /\ k \in Pages[p].hidden /\ Of(p, k).flag = g /\ Starts(Of(p, k), {})
       /\ \A m \in Names(p) :
            \/ Starts(Of(p, m), Names(p) \ {k})
            \/ /\ k \notin Spawns(Of(p, m))
               /\ \/ m = "mounted" /\ \A i \in DOMAIN Of(p, m).awaits : i > 1 => k \notin Of(p, m).awaits[i]
                  \/ Guarded(p, g, k, m) /\ AwaitsOnly(p, m, k)

\* The flags that keep calls apart, each with its load.
Guardians ==
  [wireguard |-> {<<"togglingState", "none">>, <<"loading", "loadConfig">>},
   power |-> {<<"chargingProtectionLoading", "none">>, <<"saving", "none">>,
              <<"bleGraceSaving", "none">>, <<"bleBusy", "none">>},
   wifi |-> {}, datetime |-> {<<"ntpSaving", "none">>, <<"timeSaving", "none">>}, system |-> {},
   telegram |-> {<<"loading", "loadConfig">>, <<"usersSaving", "none">>},
   vk |-> {<<"loading", "loadConfig">>, <<"usersSaving", "none">>},
   sms |-> {<<"usersSaving", "none">>}, modem |-> {}, users |-> {},
   camera |-> {<<"saving", "none">>, <<"savingLimit", "none">>, <<"savingStream", "none">>},
   inbox |-> {}, tracks |-> {}, home |-> {}]

\* What is saved under one of them, is saved under no other flag.
Sole(p, s) ==
  \E w \in Guardians[p] : \A m \in Names(p) : s \in Of(p, m).saves => Guarded(p, w[1], w[2], m)

KeptApart(p) == \A n \in Names(p) : \A s \in Of(p, n).saves : <<p, s>> \in Racy \/ Sole(p, s)

\* What comes after a good answer.
Followers(h, left) == h.starts \cup h.later \cup UNION {left[i] : i \in DOMAIN left}

\* The load m comes after a save of s, or puts it right: the failure of m leaves a doubt.
Relied(p, s, m) ==
  \E n \in Names(p) : /\ s \in Of(p, n).saves
                       /\ m \in Followers(Of(p, n), Of(p, n).awaits) \cup Of(p, n).failed

Reloads(p, m, s) ==
  /\ m \in Names(p) \ RowHandlers /\ Of(p, m).request = "load" /\ s \in Of(p, m).fills
  /\ Relied(p, s, m)

\* The settings a form alone saves: the user's input is not lost by a failure.
Typed(p, s) == \A n \in Names(p) : s \in Of(p, n).saves => Of(p, n).shows = "form"

\* A save shows its value before, is taken back or loaded again when it fails, unless its switch is
\* bound one-way; or shows it afterwards, from the answer or by a load.
Mended(p, n, s) ==
  \/ Of(p, n).shows = "form" /\ Typed(p, s)
  \/ /\ Of(p, n).shows = "switch"
     /\ \/ Of(p, n).reverts \/ <<p, s>> \in OneWay
        \/ \E m \in Of(p, n).failed : Reloads(p, m, s)
  \/ /\ Of(p, n).shows = "answer" /\ ~Of(p, n).reverts
     /\ s \in Of(p, n).fills \/ \E m \in Followers(Of(p, n), Of(p, n).awaits) : Reloads(p, m, s)

Saver(p, n) == Of(p, n).request # "none" /\ \E s \in Of(p, n).saves : Of(p, n).saves = {s} /\ Mended(p, n, s)

\* A call that holds a row is about what every load that makes new rows fills.
HoldsRow(p, n) ==
  /\ Of(p, n).fills \subseteq Of(p, n).saves
  /\ \A m \in Names(p) : Of(p, m).replaces => Of(p, n).saves \subseteq Of(p, m).fills

Mends(p) ==
  /\ \A n \in Names(p) :
       /\ Of(p, n).saves # {} => Saver(p, n)
       /\ \A s \in Of(p, n).edits : Typed(p, s)
       /\ \A m \in Spawns(Of(p, n)) \cup Followers(Of(p, n), Of(p, n).awaits) : Of(p, m).saves = {}
       /\ n \in RowHandlers => HoldsRow(p, n)
  /\ \A s \in DOMAIN Pages[p].inputs : Typed(p, s)

Rules(p) == /\ Closed(p) /\ HandedOn(p) /\ KeptApart(p) /\ Mends(p)
            /\ \A w \in Guardians[p] : Guards(p, w[1], w[2])

-----------------------------------------------------------------------------
(* The pages obey the rules                                                    *)

\* What the rules look at in a handler.
Row(h, flag, blocks, saves, starts) ==
  h.flag = flag /\ h.blocks = blocks /\ h.saves = saves /\ Starts(h, starts)

\* A handler that starts no other and clears its flag.
Plain(h, flag, blocks, saves) == Row(h, flag, blocks, saves, {}) /\ ~h.keeps

\* A load, and a call that saves: what it shows from the answer, and when it shows what it saves.
Loading(h, fills) == h.request = "load" /\ h.fills = fills /\ h.edits = {}
Saving(h, fills, shows) ==
  h.request = "save" /\ h.fills = fills /\ h.shows = shows /\ h.edits = {} /\ ~h.replaces

LEMMA Awaited ==
  ASSUME NEW T
  PROVE  /\ <<>> \in Seq(SUBSET T)
         /\ \A v \in SUBSET T : <<v>> \in Seq(SUBSET T)
         /\ \A v, w \in SUBSET T : <<v, w>> \in Seq(SUBSET T)
         /\ \A v, w, x \in SUBSET T : <<v, w, x>> \in Seq(SUBSET T)
OBVIOUS

LEMMA StartsFewer ==
  ASSUME NEW h, NEW T, NEW U, Starts(h, T), T \subseteq U
  PROVE  Starts(h, U)
BY DEF Starts

LEMMA StartsAll ==
  ASSUME NEW h, NEW T, Starts(h, T)
  PROVE  Spawns(h) \cup Followers(h, h.awaits) \subseteq T
BY DEF Starts, Spawns, Followers

LEMMA AwaitedFollow ==
  ASSUME NEW h, NEW m, h.awaits = <<{m}>>
  PROVE  m \in Followers(h, h.awaits)
<1>1. 1 \in DOMAIN h.awaits /\ m \in h.awaits[1]
  OBVIOUS
<1>q. QED
  BY <1>1 DEF Followers

LEMMA MountedHandler ==
  ASSUME NEW a
  PROVE  /\ Mounted(a).request = "none" /\ Mounted(a).flag = "none" /\ ~Mounted(a).keeps
         /\ Mounted(a).saves = {} /\ Mounted(a).awaits = a /\ Spawns(Mounted(a)) = {}
         /\ Mounted(a).edits = {} /\ ~Mounted(a).replaces
BY DEF Spawns, Mounted, Nothing

LEMMA SoleUnder ==
  ASSUME NEW p, NEW g, NEW k, <<g, k>> \in Guardians[p], NEW s,
         \A m \in Names(p) : s \in Of(p, m).saves => Guarded(p, g, k, m)
  PROVE  Sole(p, s)
BY DEF Sole

LEMMA WireguardHandlers ==
  /\ Plain(WgLoadRouting, "routingLoading", {"routingLoading"}, {})
  /\ Plain(WgLoadSettings, "settingsLoading", {"settingsLoading"}, {})
  /\ Plain(WgLoadStatus, "statusLoading", {"statusLoading"}, {})
  /\ Plain(WgLoadConfig, "loading", {"loading"}, {})
  /\ Plain(WgOnTogglePluginRouting, "togglingPlugin", {"routingLoading", "togglingPlugin"},
       {"via_wg"})
  /\ Plain(WgOnToggleOtherRouting, "togglingPlugin.other",
       {"routingLoading", "togglingPlugin.other"}, {"other.via_wg"})
  /\ Row(WgOnToggleState, "togglingState", {"settingsLoading", "togglingState"}, {"active"},
       {"loadRouting", "loadStatus"})
  /\ ~WgOnToggleState.keeps
  /\ Plain(WgOnToggleAuto, "none", {"settingsLoading"}, {"auto"})
  /\ Plain(WgOnToggleSkipOnWifi, "none", {"settingsLoading"}, {"skip_on_wifi"})
  /\ Plain(WgImportConfig, "importing", {"importing"}, {})
  /\ Row(WgSaveConfig, "loading", {"loading"}, {"form"},
       {"loadConfig", "loadRouting", "loadStatus"})
  /\ ~WgSaveConfig.keeps
  /\ WgSaveConfig.awaits = <<{"loadConfig"}>> /\ Spawns(WgSaveConfig) = {"loadRouting",
       "loadStatus"}
  /\ Plain(WgGenerateKeys, "loadingKeys", {"loading", "loadingKeys"}, {})
  /\ Row(Mounted(<<{"loadStatus", "loadConfig", "loadSettings", "loadRouting"}>>), "none", {},
       {}, {"loadConfig", "loadRouting", "loadSettings", "loadStatus"})
BY Awaited DEF Plain, Row, Starts, Spawns, Call, Load, Mounted, Nothing, Save,
  Toggle, WgGenerateKeys, WgImportConfig, WgLoadConfig, WgLoadRouting,
  WgLoadSettings, WgLoadStatus, WgOnToggleAuto, WgOnToggleOtherRouting, WgOnTogglePluginRouting,
  WgOnToggleSkipOnWifi, WgOnToggleState, WgSaveConfig

LEMMA WireguardSettings ==
  /\ Loading(WgLoadRouting, {"via_wg", "other.via_wg"})
  /\ Loading(WgLoadSettings, {"active", "auto", "skip_on_wifi"}) /\ ~WgLoadSettings.replaces
  /\ Loading(WgLoadStatus, {}) /\ ~WgLoadStatus.replaces
  /\ Loading(WgLoadConfig, {"form"}) /\ ~WgLoadConfig.replaces
  /\ Saving(WgOnTogglePluginRouting, {"via_wg"}, "switch") /\ WgOnTogglePluginRouting.reverts
  /\ Saving(WgOnToggleOtherRouting, {"other.via_wg"}, "switch") /\ WgOnToggleOtherRouting.reverts
  /\ Saving(WgOnToggleState, {"active"}, "switch") /\ WgOnToggleState.reverts
  /\ Saving(WgOnToggleAuto, {"auto"}, "switch") /\ WgOnToggleAuto.reverts
  /\ Saving(WgOnToggleSkipOnWifi, {"skip_on_wifi"}, "switch") /\ WgOnToggleSkipOnWifi.reverts
  /\ WgImportConfig.edits = {"form"} /\ ~WgImportConfig.replaces
  /\ Saving(WgSaveConfig, {}, "form")
  /\ WgGenerateKeys.edits = {"form"} /\ ~WgGenerateKeys.replaces
BY DEF Call, Load, Loading, Nothing, Save, Saving, Toggle, WgGenerateKeys, WgImportConfig,
  WgLoadConfig, WgLoadRouting, WgLoadSettings, WgLoadStatus, WgOnToggleAuto,
  WgOnToggleOtherRouting, WgOnTogglePluginRouting, WgOnToggleSkipOnWifi, WgOnToggleState, WgSaveConfig

LEMMA WireguardRules == Rules("wireguard")
<1> DEFINE p == "wireguard"
<1>1. /\ Names(p) = {"loadRouting", "loadSettings", "loadStatus", "loadConfig",
                     "onTogglePluginRouting", "onToggleOtherRouting", "onToggleState",
                     "onToggleAuto", "onToggleSkipOnWifi", "importConfig", "saveConfig", "generateKeys", "mounted"}
      /\ Pages[p].hidden = {"loadConfig", "loadRouting", "loadSettings"}
  BY DEF Names, Pages, Wireguard
<1>2. /\ Of(p, "loadRouting") = WgLoadRouting
      /\ Of(p, "loadSettings") = WgLoadSettings
      /\ Of(p, "loadStatus") = WgLoadStatus
      /\ Of(p, "loadConfig") = WgLoadConfig
      /\ Of(p, "onTogglePluginRouting") = WgOnTogglePluginRouting
      /\ Of(p, "onToggleOtherRouting") = WgOnToggleOtherRouting
      /\ Of(p, "onToggleState") = WgOnToggleState
      /\ Of(p, "onToggleAuto") = WgOnToggleAuto
      /\ Of(p, "onToggleSkipOnWifi") = WgOnToggleSkipOnWifi
      /\ Of(p, "importConfig") = WgImportConfig
      /\ Of(p, "saveConfig") = WgSaveConfig
      /\ Of(p, "generateKeys") = WgGenerateKeys
      /\ Of(p, "mounted") = Mounted(<<{"loadStatus", "loadConfig", "loadSettings", "loadRouting"}>>)
  BY DEF Of, Pages, Wireguard
<1>3. \A n \in Names(p) :
        /\ ~Of(p, n).keeps
        /\ Starts(Of(p, n), {"loadConfig", "loadRouting", "loadSettings", "loadStatus"})
  BY <1>1, <1>2, WireguardHandlers, MountedHandler, StartsFewer DEF Plain, Row
<1>4. Closed(p)
  <2>1. Of(p, "mounted").request = "none" /\ Of(p, "mounted").flag = "none"
    BY <1>2, MountedHandler
  <2>q. QED
    BY <1>1, <1>3, <2>1, StartsFewer DEF Closed
<1>5. HandedOn(p)
  BY <1>3 DEF HandedOn
<1>6. \A n \in Names(p) :
        /\ Of(p, n).flag = "togglingState" <=> n = "onToggleState"
        /\ Of(p, n).flag = "loading" <=> n \in {"loadConfig", "saveConfig"}
  BY <1>1, <1>2, WireguardHandlers, MountedHandler DEF Plain, Row
<1>7. Guards(p, "togglingState", "none")
  <2>1. "togglingState" \in Of(p, "onToggleState").blocks
    BY <1>2, WireguardHandlers DEF Plain, Row
  <2>2. \A m \in Names(p) : Starts(Of(p, m), Names(p) \ {"onToggleState"})
    BY <1>1, <1>3, StartsFewer
  <2>q. QED
    BY <1>1, <1>6, <2>1, <2>2 DEF Guards, Guarded, RowFlags, TogglingPlugin
<1>8. Guards(p, "loading", "loadConfig")
  <2>1. "loading" \in Of(p, "saveConfig").blocks
    BY <1>2, WireguardHandlers DEF Plain, Row
  <2>2. \A m \in Names(p) : Starts(Of(p, m), Names(p) \ {"saveConfig"})
    BY <1>1, <1>3, StartsFewer
  <2>3. /\ Of(p, "loadConfig").flag = "loading" /\ Starts(Of(p, "loadConfig"), {})
        /\ AwaitsOnly(p, "saveConfig", "loadConfig") /\ "loadConfig" \notin Spawns(Of(p, "saveConfig"))
    BY <1>2, WireguardHandlers, StartsFewer DEF Plain, Row, AwaitsOnly
  <2>4. \A m \in Names(p) \ {"saveConfig", "mounted"} : Starts(Of(p, m), Names(p) \ {"loadConfig"})
    BY <1>1, <1>2, WireguardHandlers, StartsFewer DEF Plain, Row
  <2>5. "loadConfig" \notin Spawns(Of(p, "mounted"))
    BY <1>2, MountedHandler
  <2>6. \A i \in DOMAIN Of(p, "mounted").awaits : i > 1 => "loadConfig" \notin Of(p, "mounted").awaits[i]
    BY <1>2, MountedHandler
  <2>q. QED
    BY <1>1, <1>6, <2>1, <2>2, <2>3, <2>4, <2>5, <2>6 DEF Guards, Guarded, RowFlags, TogglingPlugin
<1>9. KeptApart(p)
  <2>1. \A n \in Names(p) : \A s \in Of(p, n).saves :
          \/ s = "active" /\ n = "onToggleState"
          \/ s = "form" /\ n = "saveConfig"
          \/ s \in {"via_wg", "other.via_wg", "auto", "skip_on_wifi"}
    BY <1>1, <1>2, WireguardHandlers, MountedHandler DEF Plain, Row
  <2>2. Sole(p, "active")
    <3>1. <<"togglingState", "none">> \in Guardians[p]
      BY DEF Guardians
    <3>q. QED
      BY <1>6, <2>1, <3>1, SoleUnder DEF Guarded
  <2>3. Sole(p, "form")
    <3>1. <<"loading", "loadConfig">> \in Guardians[p]
      BY DEF Guardians
    <3>q. QED
      BY <1>6, <2>1, <3>1, SoleUnder DEF Guarded
  <2>q. QED
    BY <2>1, <2>2, <2>3 DEF KeptApart, Racy
<1>10. Mends(p)
  <2>1. \A n \in Names(p) : Of(p, n).edits \subseteq {"form"}
    BY <1>1, <1>2, WireguardSettings, MountedHandler DEF Loading, Saving
  <2>2. \A n \in Names(p) : \A m \in Spawns(Of(p, n)) \cup Followers(Of(p, n), Of(p, n).awaits) :
           Of(p, m).saves = {}
    BY <1>2, <1>3, WireguardHandlers, StartsAll DEF Plain, Row
  <2>3. \A s \in {"form"} : Typed(p, s)
    BY <1>1, <1>2, WireguardHandlers, WireguardSettings, MountedHandler DEF Typed, Plain, Row, Saving
  <2>4. \A n \in Names(p) : Of(p, n).saves # {} => Saver(p, n)
    <3>1. Saver(p, "saveConfig")
      BY <1>2, <2>3, WireguardHandlers, WireguardSettings DEF Plain, Row, Saving, Saver, Mended
    <3>2. /\ Saver(p, "onTogglePluginRouting")
          /\ Saver(p, "onToggleOtherRouting")
          /\ Saver(p, "onToggleState")
          /\ Saver(p, "onToggleAuto")
          /\ Saver(p, "onToggleSkipOnWifi")
      BY <1>2, WireguardHandlers, WireguardSettings DEF Plain, Row, Saving, Saver, Mended
    <3>q. QED
      BY <1>1, <1>2, <3>1, <3>2, WireguardHandlers, MountedHandler DEF Plain, Row
  <2>5. \A n \in Names(p) \cap RowHandlers : HoldsRow(p, n)
    <3>1. \A m \in Names(p) : Of(p, m).replaces => m = "loadRouting"
      BY <1>1, <1>2, WireguardSettings, MountedHandler DEF Loading, Saving
    <3>2. Names(p) \cap RowHandlers = {"onTogglePluginRouting", "onToggleOtherRouting"}
      BY <1>1 DEF RowHandlers
    <3>q. QED
      BY <1>2, <3>1, <3>2, WireguardHandlers, WireguardSettings DEF HoldsRow, Plain, Row, Loading, Saving
  <2>6. DOMAIN Pages[p].inputs \subseteq {"form"}
    BY DEF Pages, Wireguard
  <2>q. QED
    BY <2>1, <2>2, <2>3, <2>4, <2>5, <2>6 DEF Mends
<1>q. QED
  BY <1>4, <1>5, <1>7, <1>8, <1>9, <1>10 DEF Rules, Guardians

LEMMA PowerHandlers ==
  /\ Plain(PowerLoadStatus, "statusLoading", {"statusLoading"}, {})
  /\ Plain(PowerLoadSettings, "settingsLoading", {"settingsLoading"}, {})
  /\ Plain(PowerLoadCapabilities, "none", {"none"}, {})
  /\ Plain(PowerLoadBleConfig, "none", {"none"}, {})
  /\ Plain(PowerOnChargingProtectionToggle, "chargingProtectionLoading",
       {"chargingProtectionLoading"}, {"chargingProtection"})
  /\ Row(PowerKeepAlive, "actionLoading", {"actionLoading"}, {}, {"loadStatus"})
  /\ ~PowerKeepAlive.keeps
  /\ Plain(PowerReboot, "actionLoading", {"actionLoading"}, {})
  /\ Plain(PowerShutdown, "actionLoading", {"actionLoading"}, {})
  /\ Plain(PowerSaveWakeup, "saving", {"saving", "settingsLoading"}, {"selectedWakeup"})
  /\ Plain(PowerSaveBleGrace, "bleGraceSaving", {"bleGraceSaving"}, {"bleGraceMinutes"})
  /\ Row(PowerOnBleToggle, "bleBusy", {"bleBusy"}, {"ble.enabled"}, {"loadBleConfig"})
  /\ ~PowerOnBleToggle.keeps
  /\ Plain(PowerScanBle, "bleScanning", {"bleScanning"}, {})
  /\ Row(PowerSelectBeacon, "bleBusy", {"bleBusy"}, {"ble.target"}, {"loadBleConfig"})
  /\ ~PowerSelectBeacon.keeps
  /\ Row(PowerChangeBeacon, "bleBusy", {"bleBusy"}, {"ble.target"}, {"loadBleConfig"})
  /\ ~PowerChangeBeacon.keeps
  /\ Row(Mounted(<<{"loadStatus", "loadSettings", "loadCapabilities", "loadBleConfig"}>>),
       "none", {}, {}, {"loadBleConfig", "loadCapabilities", "loadSettings", "loadStatus"})
BY Awaited DEF Plain, Row, Starts, Spawns, Call, Change, Load, Mounted, Nothing,
  PowerChangeBeacon, PowerKeepAlive, PowerLoadBleConfig, PowerLoadCapabilities,
  PowerLoadSettings, PowerLoadStatus, PowerOnBleToggle,
  PowerOnChargingProtectionToggle, PowerReboot, PowerSaveBleGrace, PowerSaveWakeup,
  PowerScanBle, PowerSelectBeacon, PowerShutdown, Save, Toggle

LEMMA PowerSettings ==
  /\ Loading(PowerLoadStatus, {})
  /\ Loading(PowerLoadSettings, {"selectedWakeup", "chargingProtection"})
  /\ Loading(PowerLoadCapabilities, {})
  /\ Loading(PowerLoadBleConfig, {"ble.enabled", "ble.target", "bleGraceMinutes"})
  /\ Saving(PowerOnChargingProtectionToggle, {"chargingProtection"}, "switch")
  /\ PowerOnChargingProtectionToggle.reverts
  /\ Saving(PowerKeepAlive, {}, "answer")
  /\ Saving(PowerReboot, {}, "answer")
  /\ Saving(PowerShutdown, {}, "answer")
  /\ Saving(PowerSaveWakeup, {}, "form")
  /\ Saving(PowerSaveBleGrace, {"bleGraceMinutes"}, "form")
  /\ Saving(PowerOnBleToggle, {}, "switch") /\ PowerOnBleToggle.reverts
  /\ Saving(PowerScanBle, {}, "answer")
  /\ Saving(PowerSelectBeacon, {}, "answer") /\ ~PowerSelectBeacon.reverts
  /\ PowerSelectBeacon.awaits = <<{"loadBleConfig"}>>
  /\ Saving(PowerChangeBeacon, {}, "answer") /\ ~PowerChangeBeacon.reverts
  /\ PowerChangeBeacon.awaits = <<{"loadBleConfig"}>>
BY DEF Call, Change, Load, Loading, Nothing, Save, Saving, Toggle, PowerChangeBeacon,
  PowerKeepAlive, PowerLoadBleConfig, PowerLoadCapabilities, PowerLoadSettings, PowerLoadStatus,
  PowerOnBleToggle, PowerOnChargingProtectionToggle, PowerReboot, PowerSaveBleGrace,
  PowerSaveWakeup, PowerScanBle, PowerSelectBeacon, PowerShutdown

LEMMA PowerRules == Rules("power")
<1> DEFINE p == "power"
<1>1. /\ Names(p) = {"loadStatus", "loadSettings", "loadCapabilities", "loadBleConfig",
                     "onChargingProtectionToggle", "powerKeepAlive", "powerReboot",
                     "powerShutdown", "saveWakeup", "saveBleGrace", "onBleToggle", "scanBle",
                     "selectBeacon", "changeBeacon", "mounted"}
      /\ Pages[p].hidden = {"loadBleConfig", "loadCapabilities", "loadSettings"}
  BY DEF Names, Pages, Power
<1>2. /\ Of(p, "loadStatus") = PowerLoadStatus
      /\ Of(p, "loadSettings") = PowerLoadSettings
      /\ Of(p, "loadCapabilities") = PowerLoadCapabilities
      /\ Of(p, "loadBleConfig") = PowerLoadBleConfig
      /\ Of(p, "onChargingProtectionToggle") = PowerOnChargingProtectionToggle
      /\ Of(p, "powerKeepAlive") = PowerKeepAlive
      /\ Of(p, "powerReboot") = PowerReboot
      /\ Of(p, "powerShutdown") = PowerShutdown
      /\ Of(p, "saveWakeup") = PowerSaveWakeup
      /\ Of(p, "saveBleGrace") = PowerSaveBleGrace
      /\ Of(p, "onBleToggle") = PowerOnBleToggle
      /\ Of(p, "scanBle") = PowerScanBle
      /\ Of(p, "selectBeacon") = PowerSelectBeacon
      /\ Of(p, "changeBeacon") = PowerChangeBeacon
      /\ Of(p, "mounted") = Mounted(<<{"loadStatus", "loadSettings", "loadCapabilities", "loadBleConfig"}>>)
  BY DEF Of, Pages, Power
<1>3. \A n \in Names(p) :
        /\ ~Of(p, n).keeps
        /\ Starts(Of(p, n), {"loadBleConfig", "loadCapabilities", "loadSettings", "loadStatus"})
  BY <1>1, <1>2, PowerHandlers, MountedHandler, StartsFewer DEF Plain, Row
<1>4. Closed(p)
  <2>1. Of(p, "mounted").request = "none" /\ Of(p, "mounted").flag = "none"
    BY <1>2, MountedHandler
  <2>q. QED
    BY <1>1, <1>3, <2>1, StartsFewer DEF Closed
<1>5. HandedOn(p)
  BY <1>3 DEF HandedOn
<1>6. \A n \in Names(p) :
        /\ Of(p, n).flag = "chargingProtectionLoading" <=> n = "onChargingProtectionToggle"
        /\ Of(p, n).flag = "saving" <=> n = "saveWakeup"
        /\ Of(p, n).flag = "bleGraceSaving" <=> n = "saveBleGrace"
        /\ Of(p, n).flag = "bleBusy" <=> n \in {"onBleToggle", "selectBeacon", "changeBeacon"}
  BY <1>1, <1>2, PowerHandlers, MountedHandler DEF Plain, Row
<1>7. Guards(p, "chargingProtectionLoading", "none")
  <2>1. "chargingProtectionLoading" \in Of(p, "onChargingProtectionToggle").blocks
    BY <1>2, PowerHandlers DEF Plain, Row
  <2>2. \A m \in Names(p) : Starts(Of(p, m), Names(p) \ {"onChargingProtectionToggle"})
    BY <1>1, <1>3, StartsFewer
  <2>q. QED
    BY <1>1, <1>6, <2>1, <2>2 DEF Guards, Guarded, RowFlags, TogglingPlugin
<1>8. Guards(p, "saving", "none")
  <2>1. "saving" \in Of(p, "saveWakeup").blocks
    BY <1>2, PowerHandlers DEF Plain, Row
  <2>2. \A m \in Names(p) : Starts(Of(p, m), Names(p) \ {"saveWakeup"})
    BY <1>1, <1>3, StartsFewer
  <2>q. QED
    BY <1>1, <1>6, <2>1, <2>2 DEF Guards, Guarded, RowFlags, TogglingPlugin
<1>9. Guards(p, "bleGraceSaving", "none")
  <2>1. "bleGraceSaving" \in Of(p, "saveBleGrace").blocks
    BY <1>2, PowerHandlers DEF Plain, Row
  <2>2. \A m \in Names(p) : Starts(Of(p, m), Names(p) \ {"saveBleGrace"})
    BY <1>1, <1>3, StartsFewer
  <2>q. QED
    BY <1>1, <1>6, <2>1, <2>2 DEF Guards, Guarded, RowFlags, TogglingPlugin
<1>10. Guards(p, "bleBusy", "none")
  <2>1. "bleBusy" \in Of(p, "onBleToggle").blocks /\ "bleBusy" \in Of(p, "selectBeacon").blocks /\ "bleBusy" \in Of(p, "changeBeacon").blocks
    BY <1>2, PowerHandlers DEF Plain, Row
  <2>2. \A m \in Names(p) : \A n \in {"onBleToggle", "selectBeacon", "changeBeacon"} : Starts(Of(p, m), Names(p) \ {n})
    BY <1>1, <1>3, StartsFewer
  <2>q. QED
    BY <1>1, <1>6, <2>1, <2>2 DEF Guards, Guarded, RowFlags, TogglingPlugin
<1>11. KeptApart(p)
  <2>1. \A n \in Names(p) : \A s \in Of(p, n).saves :
          \/ s = "chargingProtection" /\ n = "onChargingProtectionToggle"
          \/ s = "selectedWakeup" /\ n = "saveWakeup"
          \/ s = "bleGraceMinutes" /\ n = "saveBleGrace"
          \/ s = "ble.enabled" /\ n = "onBleToggle"
          \/ s = "ble.target" /\ n \in {"selectBeacon", "changeBeacon"}
    BY <1>1, <1>2, PowerHandlers, MountedHandler DEF Plain, Row
  <2>2. Sole(p, "chargingProtection")
    <3>1. <<"chargingProtectionLoading", "none">> \in Guardians[p]
      BY DEF Guardians
    <3>q. QED
      BY <1>6, <2>1, <3>1, SoleUnder DEF Guarded
  <2>3. Sole(p, "selectedWakeup")
    <3>1. <<"saving", "none">> \in Guardians[p]
      BY DEF Guardians
    <3>q. QED
      BY <1>6, <2>1, <3>1, SoleUnder DEF Guarded
  <2>4. Sole(p, "bleGraceMinutes")
    <3>1. <<"bleGraceSaving", "none">> \in Guardians[p]
      BY DEF Guardians
    <3>q. QED
      BY <1>6, <2>1, <3>1, SoleUnder DEF Guarded
  <2>5. Sole(p, "ble.enabled")
    <3>1. <<"bleBusy", "none">> \in Guardians[p]
      BY DEF Guardians
    <3>q. QED
      BY <1>6, <2>1, <3>1, SoleUnder DEF Guarded
  <2>6. Sole(p, "ble.target")
    <3>1. <<"bleBusy", "none">> \in Guardians[p]
      BY DEF Guardians
    <3>q. QED
      BY <1>6, <2>1, <3>1, SoleUnder DEF Guarded
  <2>q. QED
    BY <2>1, <2>2, <2>3, <2>4, <2>5, <2>6 DEF KeptApart
<1>12. Mends(p)
  <2>1. \A n \in Names(p) : Of(p, n).edits = {}
    BY <1>1, <1>2, PowerSettings, MountedHandler DEF Loading, Saving
  <2>2. \A n \in Names(p) : \A m \in Spawns(Of(p, n)) \cup Followers(Of(p, n), Of(p, n).awaits) :
           Of(p, m).saves = {}
    BY <1>2, <1>3, PowerHandlers, StartsAll DEF Plain, Row
  <2>3. \A s \in {"selectedWakeup", "bleGraceMinutes"} : Typed(p, s)
    BY <1>1, <1>2, PowerHandlers, PowerSettings, MountedHandler DEF Typed, Plain, Row, Saving
  <2>4. \A n \in Names(p) : Of(p, n).saves # {} => Saver(p, n)
    <3>1. Saver(p, "saveWakeup") /\ Saver(p, "saveBleGrace")
      BY <1>2, <2>3, PowerHandlers, PowerSettings DEF Plain, Row, Saving, Saver, Mended
    <3>2. Saver(p, "onChargingProtectionToggle")
      <4>1. /\ Of(p, "onChargingProtectionToggle").saves = {"chargingProtection"}
            /\ Of(p, "onChargingProtectionToggle").request = "save"
            /\ Of(p, "onChargingProtectionToggle").shows = "switch"
            /\ Of(p, "onChargingProtectionToggle").reverts
        BY <1>2, PowerHandlers, PowerSettings DEF Plain, Row, Saving
      <4>q. QED
        BY <4>1 DEF Saver, Mended
    <3>3. Saver(p, "onBleToggle")
      BY <1>2, PowerHandlers, PowerSettings DEF Plain, Row, Saving, Saver, Mended
    <3>4. Saver(p, "selectBeacon")
      <4>1. "loadBleConfig" \in Followers(Of(p, "selectBeacon"), Of(p, "selectBeacon").awaits)
        BY <1>2, PowerSettings, AwaitedFollow DEF Followers
      <4>2. Relied(p, "ble.target", "loadBleConfig")
        BY <1>1, <1>2, <4>1, PowerHandlers DEF Plain, Row, Relied
      <4>3. Reloads(p, "loadBleConfig", "ble.target")
        BY <1>1, <1>2, <4>2, PowerSettings DEF Reloads, RowHandlers, Loading
      <4>q. QED
        BY <1>2, <4>1, <4>3, PowerHandlers, PowerSettings DEF Plain, Row, Saving, Saver, Mended
    <3>5. Saver(p, "changeBeacon")
      <4>1. "loadBleConfig" \in Followers(Of(p, "changeBeacon"), Of(p, "changeBeacon").awaits)
        BY <1>2, PowerSettings, AwaitedFollow DEF Followers
      <4>2. Relied(p, "ble.target", "loadBleConfig")
        BY <1>1, <1>2, <4>1, PowerHandlers DEF Plain, Row, Relied
      <4>3. Reloads(p, "loadBleConfig", "ble.target")
        BY <1>1, <1>2, <4>2, PowerSettings DEF Reloads, RowHandlers, Loading
      <4>q. QED
        BY <1>2, <4>1, <4>3, PowerHandlers, PowerSettings DEF Plain, Row, Saving, Saver, Mended
    <3>q. QED
      BY <1>1, <1>2, <3>1, <3>2, <3>3, <3>4, <3>5, PowerHandlers, MountedHandler DEF Plain, Row
  <2>5. Names(p) \cap RowHandlers = {}
    BY <1>1 DEF RowHandlers
  <2>6. DOMAIN Pages[p].inputs \subseteq {"selectedWakeup", "bleGraceMinutes"}
    BY DEF Pages, Power
  <2>q. QED
    BY <2>1, <2>2, <2>3, <2>4, <2>5, <2>6 DEF Mends
<1>q. QED
  BY <1>4, <1>5, <1>7, <1>8, <1>9, <1>10, <1>11, <1>12 DEF Rules, Guardians

LEMMA WiFiHandlers ==
  /\ Plain(WiFiLoadConfig, "loading", {"loading"}, {})
  /\ Row(WiFiOnModeSwitch, "loading", {"loading"}, {"mode"}, {"loadConfig"})
  /\ WiFiOnModeSwitch.later = {"loadConfig"}
  /\ Row(WiFiSaveApConfig, "loading", {"loading"}, {"ap"}, {"loadConfig"})
  /\ ~WiFiSaveApConfig.keeps
  /\ Row(WiFiSaveWifiConfig, "loading", {"loading"}, {"wifi"}, {"loadConfig"})
  /\ ~WiFiSaveWifiConfig.keeps
  /\ Row(Mounted(<<{"loadConfig"}>>), "none", {}, {}, {"loadConfig"})
BY Awaited DEF Plain, Row, Starts, Spawns, Call, Load, Mounted, Nothing, Save,
  Toggle, WiFiLoadConfig, WiFiOnModeSwitch, WiFiSaveApConfig, WiFiSaveWifiConfig

LEMMA WiFiSettings ==
  /\ Loading(WiFiLoadConfig, {"mode", "ap", "wifi"})
  /\ Saving(WiFiOnModeSwitch, {}, "switch") /\ ~WiFiOnModeSwitch.reverts
  /\ WiFiOnModeSwitch.failed = {"loadConfig"}
  /\ Saving(WiFiSaveApConfig, {}, "form")
  /\ Saving(WiFiSaveWifiConfig, {}, "form")
BY DEF Call, Load, Loading, Nothing, Save, Saving, Toggle, WiFiLoadConfig, WiFiOnModeSwitch,
  WiFiSaveApConfig, WiFiSaveWifiConfig

LEMMA WiFiRules == Rules("wifi")
<1> DEFINE p == "wifi"
<1>1. /\ Names(p) = {"loadConfig", "onModeSwitch", "saveApConfig", "saveWifiConfig", "mounted"}
      /\ Pages[p].hidden = {}
  BY DEF Names, Pages, WiFi
<1>2. /\ Of(p, "loadConfig") = WiFiLoadConfig
      /\ Of(p, "onModeSwitch") = WiFiOnModeSwitch
      /\ Of(p, "saveApConfig") = WiFiSaveApConfig
      /\ Of(p, "saveWifiConfig") = WiFiSaveWifiConfig
      /\ Of(p, "mounted") = Mounted(<<{"loadConfig"}>>)
  BY DEF Of, Pages, WiFi
<1>3. \A n \in Names(p) :
        /\ Of(p, n).keeps => n \in {"onModeSwitch"}
        /\ Starts(Of(p, n), {"loadConfig"})
  BY <1>1, <1>2, WiFiHandlers, MountedHandler, StartsFewer DEF Plain, Row
<1>4. Closed(p)
  <2>1. Of(p, "mounted").request = "none" /\ Of(p, "mounted").flag = "none"
    BY <1>2, MountedHandler
  <2>q. QED
    BY <1>1, <1>3, <2>1, StartsFewer DEF Closed
<1>5. HandedOn(p)
  <2>1. /\ Of(p, "onModeSwitch").flag = "loading" /\ Of(p, "onModeSwitch").later = {"loadConfig"}
        /\ Of(p, "loadConfig").flag = "loading"
    BY <1>2, WiFiHandlers DEF Plain, Row
  <2>q. QED
    BY <1>3, <2>1 DEF HandedOn, Stuck, RowFlags
<1>6. KeptApart(p)
  <2>1. \A n \in Names(p) : \A s \in Of(p, n).saves :
          \/ s \in {"mode", "ap", "wifi"}
    BY <1>1, <1>2, WiFiHandlers, MountedHandler DEF Plain, Row
  <2>q. QED
    BY <2>1 DEF KeptApart, Racy
<1>7. Mends(p)
  <2>1. \A n \in Names(p) : Of(p, n).edits = {}
    BY <1>1, <1>2, WiFiSettings, MountedHandler DEF Loading, Saving
  <2>2. \A n \in Names(p) : \A m \in Spawns(Of(p, n)) \cup Followers(Of(p, n), Of(p, n).awaits) :
           Of(p, m).saves = {}
    BY <1>2, <1>3, WiFiHandlers, StartsAll DEF Plain, Row
  <2>3. \A s \in {"ap", "wifi"} : Typed(p, s)
    BY <1>1, <1>2, WiFiHandlers, WiFiSettings, MountedHandler DEF Typed, Plain, Row, Saving
  <2>4. \A n \in Names(p) : Of(p, n).saves # {} => Saver(p, n)
    <3>1. Saver(p, "saveApConfig") /\ Saver(p, "saveWifiConfig")
      BY <1>2, <2>3, WiFiHandlers, WiFiSettings DEF Plain, Row, Saving, Saver, Mended
    <3>2. Saver(p, "onModeSwitch")
      <4>1. "loadConfig" \in Of(p, "onModeSwitch").failed
        BY <1>2, WiFiSettings
      <4>2. Relied(p, "mode", "loadConfig")
        BY <1>1, <1>2, <4>1, WiFiHandlers DEF Plain, Row, Relied
      <4>3. Reloads(p, "loadConfig", "mode")
        BY <1>1, <1>2, <4>2, WiFiSettings DEF Reloads, RowHandlers, Loading
      <4>q. QED
        BY <1>2, <4>1, <4>3, WiFiHandlers, WiFiSettings DEF Plain, Row, Saving, Saver, Mended
    <3>q. QED
      BY <1>1, <1>2, <3>1, <3>2, WiFiHandlers, MountedHandler DEF Plain, Row
  <2>5. Names(p) \cap RowHandlers = {}
    BY <1>1 DEF RowHandlers
  <2>6. DOMAIN Pages[p].inputs \subseteq {"ap", "wifi"}
    BY DEF Pages, WiFi
  <2>q. QED
    BY <2>1, <2>2, <2>3, <2>4, <2>5, <2>6 DEF Mends
<1>q. QED
  BY <1>4, <1>5, <1>6, <1>7 DEF Rules, Guardians

LEMMA DateTimeHandlers ==
  /\ Plain(DateTimeLoad, "loading", {"loading"}, {})
  /\ Plain(DateTimeOnNtpToggle, "ntpSaving", {"ntpSaving"}, {"ntp"})
  /\ Plain(DateTimeSetDatetime, "timeSaving", {"timeSaving"}, {"datetime"})
  /\ Row(Mounted(<<{"load"}>>), "none", {}, {}, {"load"})
BY Awaited DEF Plain, Row, Starts, Spawns, Call, DateTimeLoad,
  DateTimeOnNtpToggle, DateTimeSetDatetime, Load, Mounted, Nothing, Save, Toggle

LEMMA DateTimeSettings ==
  /\ Loading(DateTimeLoad, {"ntp", "datetime"})
  /\ Saving(DateTimeOnNtpToggle, {"ntp", "datetime"}, "switch") /\ DateTimeOnNtpToggle.reverts
  /\ Saving(DateTimeSetDatetime, {"ntp", "datetime"}, "form")
BY DEF Call, Load, Loading, Nothing, Save, Saving, Toggle, DateTimeLoad, DateTimeOnNtpToggle,
  DateTimeSetDatetime

LEMMA DateTimeRules == Rules("datetime")
<1> DEFINE p == "datetime"
<1>1. /\ Names(p) = {"load", "onNtpToggle", "setDatetime", "mounted"}
      /\ Pages[p].hidden = {}
  BY DEF Names, Pages, DateTime
<1>2. /\ Of(p, "load") = DateTimeLoad
      /\ Of(p, "onNtpToggle") = DateTimeOnNtpToggle
      /\ Of(p, "setDatetime") = DateTimeSetDatetime
      /\ Of(p, "mounted") = Mounted(<<{"load"}>>)
  BY DEF Of, Pages, DateTime
<1>3. \A n \in Names(p) :
        /\ ~Of(p, n).keeps
        /\ Starts(Of(p, n), {"load"})
  BY <1>1, <1>2, DateTimeHandlers, MountedHandler, StartsFewer DEF Plain, Row
<1>4. Closed(p)
  <2>1. Of(p, "mounted").request = "none" /\ Of(p, "mounted").flag = "none"
    BY <1>2, MountedHandler
  <2>q. QED
    BY <1>1, <1>3, <2>1, StartsFewer DEF Closed
<1>5. HandedOn(p)
  BY <1>3 DEF HandedOn
<1>6. \A n \in Names(p) :
        /\ Of(p, n).flag = "ntpSaving" <=> n = "onNtpToggle"
        /\ Of(p, n).flag = "timeSaving" <=> n = "setDatetime"
  BY <1>1, <1>2, DateTimeHandlers, MountedHandler DEF Plain, Row
<1>7. Guards(p, "ntpSaving", "none")
  <2>1. "ntpSaving" \in Of(p, "onNtpToggle").blocks
    BY <1>2, DateTimeHandlers DEF Plain, Row
  <2>2. \A m \in Names(p) : Starts(Of(p, m), Names(p) \ {"onNtpToggle"})
    BY <1>1, <1>3, StartsFewer
  <2>q. QED
    BY <1>1, <1>6, <2>1, <2>2 DEF Guards, Guarded, RowFlags, TogglingPlugin
<1>8. Guards(p, "timeSaving", "none")
  <2>1. "timeSaving" \in Of(p, "setDatetime").blocks
    BY <1>2, DateTimeHandlers DEF Plain, Row
  <2>2. \A m \in Names(p) : Starts(Of(p, m), Names(p) \ {"setDatetime"})
    BY <1>1, <1>3, StartsFewer
  <2>q. QED
    BY <1>1, <1>6, <2>1, <2>2 DEF Guards, Guarded, RowFlags, TogglingPlugin
<1>9. KeptApart(p)
  <2>1. \A n \in Names(p) : \A s \in Of(p, n).saves :
          \/ s = "ntp" /\ n = "onNtpToggle"
          \/ s = "datetime" /\ n = "setDatetime"
    BY <1>1, <1>2, DateTimeHandlers, MountedHandler DEF Plain, Row
  <2>2. Sole(p, "ntp")
    <3>1. <<"ntpSaving", "none">> \in Guardians[p]
      BY DEF Guardians
    <3>q. QED
      BY <1>6, <2>1, <3>1, SoleUnder DEF Guarded
  <2>3. Sole(p, "datetime")
    <3>1. <<"timeSaving", "none">> \in Guardians[p]
      BY DEF Guardians
    <3>q. QED
      BY <1>6, <2>1, <3>1, SoleUnder DEF Guarded
  <2>q. QED
    BY <2>1, <2>2, <2>3 DEF KeptApart
<1>10. Mends(p)
  <2>1. \A n \in Names(p) : Of(p, n).edits = {}
    BY <1>1, <1>2, DateTimeSettings, MountedHandler DEF Loading, Saving
  <2>2. \A n \in Names(p) : \A m \in Spawns(Of(p, n)) \cup Followers(Of(p, n), Of(p, n).awaits) :
           Of(p, m).saves = {}
    BY <1>2, <1>3, DateTimeHandlers, StartsAll DEF Plain, Row
  <2>3. \A s \in {"datetime"} : Typed(p, s)
    BY <1>1, <1>2, DateTimeHandlers, DateTimeSettings, MountedHandler DEF Typed, Plain, Row, Saving
  <2>4. \A n \in Names(p) : Of(p, n).saves # {} => Saver(p, n)
    <3>1. Saver(p, "setDatetime")
      BY <1>2, <2>3, DateTimeHandlers, DateTimeSettings DEF Plain, Row, Saving, Saver, Mended
    <3>2. Saver(p, "onNtpToggle")
      BY <1>2, DateTimeHandlers, DateTimeSettings DEF Plain, Row, Saving, Saver, Mended
    <3>q. QED
      BY <1>1, <1>2, <3>1, <3>2, DateTimeHandlers, MountedHandler DEF Plain, Row
  <2>5. Names(p) \cap RowHandlers = {}
    BY <1>1 DEF RowHandlers
  <2>6. DOMAIN Pages[p].inputs \subseteq {"datetime"}
    BY DEF Pages, DateTime
  <2>q. QED
    BY <2>1, <2>2, <2>3, <2>4, <2>5, <2>6 DEF Mends
<1>q. QED
  BY <1>4, <1>5, <1>7, <1>8, <1>9, <1>10 DEF Rules, Guardians

LEMMA SystemHandlers ==
  /\ Plain(SystemLoadData, "loading", {"loading"}, {})
  /\ Row(SystemToggleService, "service.actionLoading", {"loading", "service.actionLoading"},
       {"status"}, {"loadData"})
  /\ SystemToggleService.later = {"loadData"}
  /\ Row(SystemRestartService, "service.actionLoading", {"loading", "service.actionLoading"},
       {}, {"loadData"})
  /\ SystemRestartService.later = {"loadData"}
  /\ Plain(SystemSetPluginEnabled, "plugin.saving", {"loading", "plugin.saving"}, {"enabled"})
  /\ Row(Mounted(<<{"loadData"}>>), "none", {}, {}, {"loadData"})
BY Awaited DEF Plain, Row, Starts, Spawns, Call, Change, Load, Mounted, Nothing,
  SystemLoadData, SystemRestartService, SystemSetPluginEnabled, SystemToggleService, Toggle

LEMMA SystemSettings ==
  /\ Loading(SystemLoadData, {"status", "enabled"})
  /\ Saving(SystemToggleService, {}, "answer") /\ ~SystemToggleService.reverts
  /\ Saving(SystemRestartService, {}, "answer")
  /\ Saving(SystemSetPluginEnabled, {"enabled"}, "switch") /\ <<"system", "enabled">> \in OneWay
BY DEF Call, Change, Load, Loading, Nothing, OneWay, Saving, SystemLoadData, SystemRestartService,
  SystemSetPluginEnabled, SystemToggleService, Toggle

LEMMA SystemRules == Rules("system")
<1> DEFINE p == "system"
<1>1. /\ Names(p) = {"loadData", "toggleService", "restartService", "setPluginEnabled", "mounted"}
      /\ Pages[p].hidden = {}
  BY DEF Names, Pages, System
<1>2. /\ Of(p, "loadData") = SystemLoadData
      /\ Of(p, "toggleService") = SystemToggleService
      /\ Of(p, "restartService") = SystemRestartService
      /\ Of(p, "setPluginEnabled") = SystemSetPluginEnabled
      /\ Of(p, "mounted") = Mounted(<<{"loadData"}>>)
  BY DEF Of, Pages, System
<1>3. \A n \in Names(p) :
        /\ Of(p, n).keeps => n \in {"toggleService", "restartService"}
        /\ Starts(Of(p, n), {"loadData"})
  BY <1>1, <1>2, SystemHandlers, MountedHandler, StartsFewer DEF Plain, Row
<1>4. Closed(p)
  <2>1. Of(p, "mounted").request = "none" /\ Of(p, "mounted").flag = "none"
    BY <1>2, MountedHandler
  <2>q. QED
    BY <1>1, <1>3, <2>1, StartsFewer DEF Closed
<1>5. HandedOn(p)
  <2>1. /\ Of(p, "toggleService").flag = "service.actionLoading" /\ Of(p, "toggleService").later = {"loadData"}
        /\ Of(p, "restartService").flag = "service.actionLoading" /\ Of(p, "restartService").later = {"loadData"}
        /\ Of(p, "loadData").flag = "loading"
    BY <1>2, SystemHandlers DEF Plain, Row
  <2>q. QED
    BY <1>3, <2>1 DEF HandedOn, Stuck, RowFlags
<1>6. KeptApart(p)
  <2>1. \A n \in Names(p) : \A s \in Of(p, n).saves :
          \/ s \in {"status", "enabled"}
    BY <1>1, <1>2, SystemHandlers, MountedHandler DEF Plain, Row
  <2>q. QED
    BY <2>1 DEF KeptApart, Racy
<1>7. Mends(p)
  <2>1. \A n \in Names(p) : Of(p, n).edits = {}
    BY <1>1, <1>2, SystemSettings, MountedHandler DEF Loading, Saving
  <2>2. \A n \in Names(p) : \A m \in Spawns(Of(p, n)) \cup Followers(Of(p, n), Of(p, n).awaits) :
           Of(p, m).saves = {}
    BY <1>2, <1>3, SystemHandlers, StartsAll DEF Plain, Row
  <2>3. \A n \in Names(p) : Of(p, n).saves # {} => Saver(p, n)
    <3>1. Saver(p, "setPluginEnabled")
      BY <1>2, SystemHandlers, SystemSettings DEF Plain, Row, Saving, Saver, Mended
    <3>2. Saver(p, "toggleService")
      <4>1. "loadData" \in Followers(Of(p, "toggleService"), Of(p, "toggleService").awaits)
        BY <1>2, SystemHandlers DEF Followers
      <4>2. Relied(p, "status", "loadData")
        BY <1>1, <1>2, <4>1, SystemHandlers DEF Plain, Row, Relied
      <4>3. Reloads(p, "loadData", "status")
        BY <1>1, <1>2, <4>2, SystemSettings DEF Reloads, RowHandlers, Loading
      <4>q. QED
        BY <1>2, <4>1, <4>3, SystemHandlers, SystemSettings DEF Plain, Row, Saving, Saver, Mended
    <3>q. QED
      BY <1>1, <1>2, <3>1, <3>2, SystemHandlers, MountedHandler DEF Plain, Row
  <2>4. \A n \in Names(p) \cap RowHandlers : HoldsRow(p, n)
    <3>1. \A m \in Names(p) : Of(p, m).replaces => m = "loadData"
      BY <1>1, <1>2, SystemSettings, MountedHandler DEF Loading, Saving
    <3>2. Names(p) \cap RowHandlers = {"toggleService", "restartService", "setPluginEnabled"}
      BY <1>1 DEF RowHandlers
    <3>q. QED
      BY <1>2, <3>1, <3>2, SystemHandlers, SystemSettings DEF HoldsRow, Plain, Row, Loading, Saving
  <2>5. DOMAIN Pages[p].inputs = {}
    BY DEF Pages, System
  <2>q. QED
    BY <2>1, <2>2, <2>3, <2>4, <2>5 DEF Mends
<1>q. QED
  BY <1>4, <1>5, <1>6, <1>7 DEF Rules, Guardians

LEMMA TelegramHandlers ==
  /\ Plain(TelegramLoadStatus, "statusLoading", {"statusLoading"}, {})
  /\ Plain(TelegramLoadConfig, "loading", {"loading"}, {})
  /\ Plain(TelegramSaveConfig, "loading", {"loading"}, {"config"})
  /\ Plain(TelegramLoadUsers, "usersLoading", {}, {})
  /\ Plain(TelegramSaveUsers, "usersSaving", {"usersLoading", "usersSaving"}, {"users"})
  /\ Row(Mounted(<<{"loadConfig"}, {"loadStatus"}>>), "none", {}, {},
       {"loadConfig", "loadStatus"})
BY Awaited DEF Plain, Row, Starts, Spawns, Call, Load, Mounted, Nothing, Save,
  TelegramLoadConfig, TelegramLoadStatus, TelegramLoadUsers, TelegramSaveConfig,
  TelegramSaveUsers

LEMMA TelegramSettings ==
  /\ Loading(TelegramLoadStatus, {})
  /\ Loading(TelegramLoadConfig, {"config"})
  /\ Saving(TelegramSaveConfig, {}, "form")
  /\ Loading(TelegramLoadUsers, {"users"})
  /\ Saving(TelegramSaveUsers, {}, "form")
BY DEF Call, Load, Loading, Nothing, Save, Saving, TelegramLoadConfig, TelegramLoadStatus,
  TelegramLoadUsers, TelegramSaveConfig, TelegramSaveUsers

LEMMA TelegramRules == Rules("telegram")
<1> DEFINE p == "telegram"
<1>1. /\ Names(p) = {"loadStatus", "loadConfig", "saveConfig", "loadUsers", "saveUsers", "mounted"}
      /\ Pages[p].hidden = {"loadConfig"}
  BY DEF Names, Pages, Telegram
<1>2. /\ Of(p, "loadStatus") = TelegramLoadStatus
      /\ Of(p, "loadConfig") = TelegramLoadConfig
      /\ Of(p, "saveConfig") = TelegramSaveConfig
      /\ Of(p, "loadUsers") = TelegramLoadUsers
      /\ Of(p, "saveUsers") = TelegramSaveUsers
      /\ Of(p, "mounted") = Mounted(<<{"loadConfig"}, {"loadStatus"}>>)
  BY DEF Of, Pages, Telegram
<1>3. \A n \in Names(p) :
        /\ ~Of(p, n).keeps
        /\ Starts(Of(p, n), {"loadConfig", "loadStatus"})
  BY <1>1, <1>2, TelegramHandlers, MountedHandler, StartsFewer DEF Plain, Row
<1>4. Closed(p)
  <2>1. Of(p, "mounted").request = "none" /\ Of(p, "mounted").flag = "none"
    BY <1>2, MountedHandler
  <2>q. QED
    BY <1>1, <1>3, <2>1, StartsFewer DEF Closed
<1>5. HandedOn(p)
  BY <1>3 DEF HandedOn
<1>6. \A n \in Names(p) :
        /\ Of(p, n).flag = "loading" <=> n \in {"loadConfig", "saveConfig"}
        /\ Of(p, n).flag = "usersSaving" <=> n = "saveUsers"
  BY <1>1, <1>2, TelegramHandlers, MountedHandler DEF Plain, Row
<1>7. Guards(p, "loading", "loadConfig")
  <2>1. "loading" \in Of(p, "saveConfig").blocks
    BY <1>2, TelegramHandlers DEF Plain, Row
  <2>2. \A m \in Names(p) : Starts(Of(p, m), Names(p) \ {"saveConfig"})
    BY <1>1, <1>3, StartsFewer
  <2>3. /\ Of(p, "loadConfig").flag = "loading" /\ Starts(Of(p, "loadConfig"), {})
    BY <1>2, TelegramHandlers, StartsFewer DEF Plain, Row, AwaitsOnly
  <2>4. \A m \in Names(p) \ {"mounted"} : Starts(Of(p, m), Names(p) \ {"loadConfig"})
    BY <1>1, <1>2, TelegramHandlers, StartsFewer DEF Plain, Row
  <2>5. "loadConfig" \notin Spawns(Of(p, "mounted"))
    BY <1>2, MountedHandler
  <2>6. \A i \in DOMAIN Of(p, "mounted").awaits : i > 1 => "loadConfig" \notin Of(p, "mounted").awaits[i]
    BY <1>2, MountedHandler
  <2>q. QED
    BY <1>1, <1>6, <2>1, <2>2, <2>3, <2>4, <2>5, <2>6 DEF Guards, Guarded, RowFlags, TogglingPlugin
<1>8. Guards(p, "usersSaving", "none")
  <2>1. "usersSaving" \in Of(p, "saveUsers").blocks
    BY <1>2, TelegramHandlers DEF Plain, Row
  <2>2. \A m \in Names(p) : Starts(Of(p, m), Names(p) \ {"saveUsers"})
    BY <1>1, <1>3, StartsFewer
  <2>q. QED
    BY <1>1, <1>6, <2>1, <2>2 DEF Guards, Guarded, RowFlags, TogglingPlugin
<1>9. KeptApart(p)
  <2>1. \A n \in Names(p) : \A s \in Of(p, n).saves :
          \/ s = "config" /\ n = "saveConfig"
          \/ s = "users" /\ n = "saveUsers"
    BY <1>1, <1>2, TelegramHandlers, MountedHandler DEF Plain, Row
  <2>2. Sole(p, "config")
    <3>1. <<"loading", "loadConfig">> \in Guardians[p]
      BY DEF Guardians
    <3>q. QED
      BY <1>6, <2>1, <3>1, SoleUnder DEF Guarded
  <2>3. Sole(p, "users")
    <3>1. <<"usersSaving", "none">> \in Guardians[p]
      BY DEF Guardians
    <3>q. QED
      BY <1>6, <2>1, <3>1, SoleUnder DEF Guarded
  <2>q. QED
    BY <2>1, <2>2, <2>3 DEF KeptApart
<1>10. Mends(p)
  <2>1. \A n \in Names(p) : Of(p, n).edits = {}
    BY <1>1, <1>2, TelegramSettings, MountedHandler DEF Loading, Saving
  <2>2. \A n \in Names(p) : \A m \in Spawns(Of(p, n)) \cup Followers(Of(p, n), Of(p, n).awaits) :
           Of(p, m).saves = {}
    BY <1>2, <1>3, TelegramHandlers, StartsAll DEF Plain, Row
  <2>3. \A s \in {"config", "users"} : Typed(p, s)
    BY <1>1, <1>2, TelegramHandlers, TelegramSettings, MountedHandler DEF Typed, Plain, Row, Saving
  <2>4. \A n \in Names(p) : Of(p, n).saves # {} => Saver(p, n)
    <3>1. Saver(p, "saveConfig") /\ Saver(p, "saveUsers")
      BY <1>2, <2>3, TelegramHandlers, TelegramSettings DEF Plain, Row, Saving, Saver, Mended
    <3>q. QED
      BY <1>1, <1>2, <3>1, TelegramHandlers, MountedHandler DEF Plain, Row
  <2>5. Names(p) \cap RowHandlers = {}
    BY <1>1 DEF RowHandlers
  <2>6. DOMAIN Pages[p].inputs \subseteq {"config", "users"}
    BY DEF Pages, Telegram
  <2>q. QED
    BY <2>1, <2>2, <2>3, <2>4, <2>5, <2>6 DEF Mends
<1>q. QED
  BY <1>4, <1>5, <1>7, <1>8, <1>9, <1>10 DEF Rules, Guardians

LEMMA VkHandlers ==
  /\ Plain(VkLoadStatus, "statusLoading", {"statusLoading"}, {})
  /\ Plain(VkLoadConfig, "loading", {"loading"}, {})
  /\ Plain(VkSaveConfig, "loading", {"loading"}, {"config"})
  /\ Plain(VkLoadUsers, "usersLoading", {}, {})
  /\ Plain(VkSaveUsers, "usersSaving", {"usersLoading", "usersSaving"}, {"users"})
  /\ Row(Mounted(<<{"loadConfig"}, {"loadStatus"}>>), "none", {}, {},
       {"loadConfig", "loadStatus"})
BY Awaited DEF Plain, Row, Starts, Spawns, Call, Load, Mounted, Nothing, Save,
  VkLoadConfig, VkLoadStatus, VkLoadUsers, VkSaveConfig, VkSaveUsers

LEMMA VkSettings ==
  /\ Loading(VkLoadStatus, {})
  /\ Loading(VkLoadConfig, {"config"})
  /\ Saving(VkSaveConfig, {}, "form")
  /\ Loading(VkLoadUsers, {"users"})
  /\ Saving(VkSaveUsers, {}, "form")
BY DEF Call, Load, Loading, Nothing, Save, Saving, VkLoadConfig, VkLoadStatus, VkLoadUsers,
  VkSaveConfig, VkSaveUsers

LEMMA VkRules == Rules("vk")
<1> DEFINE p == "vk"
<1>1. /\ Names(p) = {"loadStatus", "loadConfig", "saveConfig", "loadUsers", "saveUsers", "mounted"}
      /\ Pages[p].hidden = {"loadConfig"}
  BY DEF Names, Pages, Vk, Telegram
<1>2. /\ Of(p, "loadStatus") = VkLoadStatus
      /\ Of(p, "loadConfig") = VkLoadConfig
      /\ Of(p, "saveConfig") = VkSaveConfig
      /\ Of(p, "loadUsers") = VkLoadUsers
      /\ Of(p, "saveUsers") = VkSaveUsers
      /\ Of(p, "mounted") = Mounted(<<{"loadConfig"}, {"loadStatus"}>>)
  BY DEF Of, Pages, Vk, Telegram
<1>3. \A n \in Names(p) :
        /\ ~Of(p, n).keeps
        /\ Starts(Of(p, n), {"loadConfig", "loadStatus"})
  BY <1>1, <1>2, VkHandlers, MountedHandler, StartsFewer DEF Plain, Row
<1>4. Closed(p)
  <2>1. Of(p, "mounted").request = "none" /\ Of(p, "mounted").flag = "none"
    BY <1>2, MountedHandler
  <2>q. QED
    BY <1>1, <1>3, <2>1, StartsFewer DEF Closed
<1>5. HandedOn(p)
  BY <1>3 DEF HandedOn
<1>6. \A n \in Names(p) :
        /\ Of(p, n).flag = "loading" <=> n \in {"loadConfig", "saveConfig"}
        /\ Of(p, n).flag = "usersSaving" <=> n = "saveUsers"
  BY <1>1, <1>2, VkHandlers, MountedHandler DEF Plain, Row
<1>7. Guards(p, "loading", "loadConfig")
  <2>1. "loading" \in Of(p, "saveConfig").blocks
    BY <1>2, VkHandlers DEF Plain, Row
  <2>2. \A m \in Names(p) : Starts(Of(p, m), Names(p) \ {"saveConfig"})
    BY <1>1, <1>3, StartsFewer
  <2>3. /\ Of(p, "loadConfig").flag = "loading" /\ Starts(Of(p, "loadConfig"), {})
    BY <1>2, VkHandlers, StartsFewer DEF Plain, Row, AwaitsOnly
  <2>4. \A m \in Names(p) \ {"mounted"} : Starts(Of(p, m), Names(p) \ {"loadConfig"})
    BY <1>1, <1>2, VkHandlers, StartsFewer DEF Plain, Row
  <2>5. "loadConfig" \notin Spawns(Of(p, "mounted"))
    BY <1>2, MountedHandler
  <2>6. \A i \in DOMAIN Of(p, "mounted").awaits : i > 1 => "loadConfig" \notin Of(p, "mounted").awaits[i]
    BY <1>2, MountedHandler
  <2>q. QED
    BY <1>1, <1>6, <2>1, <2>2, <2>3, <2>4, <2>5, <2>6 DEF Guards, Guarded, RowFlags, TogglingPlugin
<1>8. Guards(p, "usersSaving", "none")
  <2>1. "usersSaving" \in Of(p, "saveUsers").blocks
    BY <1>2, VkHandlers DEF Plain, Row
  <2>2. \A m \in Names(p) : Starts(Of(p, m), Names(p) \ {"saveUsers"})
    BY <1>1, <1>3, StartsFewer
  <2>q. QED
    BY <1>1, <1>6, <2>1, <2>2 DEF Guards, Guarded, RowFlags, TogglingPlugin
<1>9. KeptApart(p)
  <2>1. \A n \in Names(p) : \A s \in Of(p, n).saves :
          \/ s = "config" /\ n = "saveConfig"
          \/ s = "users" /\ n = "saveUsers"
    BY <1>1, <1>2, VkHandlers, MountedHandler DEF Plain, Row
  <2>2. Sole(p, "config")
    <3>1. <<"loading", "loadConfig">> \in Guardians[p]
      BY DEF Guardians
    <3>q. QED
      BY <1>6, <2>1, <3>1, SoleUnder DEF Guarded
  <2>3. Sole(p, "users")
    <3>1. <<"usersSaving", "none">> \in Guardians[p]
      BY DEF Guardians
    <3>q. QED
      BY <1>6, <2>1, <3>1, SoleUnder DEF Guarded
  <2>q. QED
    BY <2>1, <2>2, <2>3 DEF KeptApart
<1>10. Mends(p)
  <2>1. \A n \in Names(p) : Of(p, n).edits = {}
    BY <1>1, <1>2, VkSettings, MountedHandler DEF Loading, Saving
  <2>2. \A n \in Names(p) : \A m \in Spawns(Of(p, n)) \cup Followers(Of(p, n), Of(p, n).awaits) :
           Of(p, m).saves = {}
    BY <1>2, <1>3, VkHandlers, StartsAll DEF Plain, Row
  <2>3. \A s \in {"config", "users"} : Typed(p, s)
    BY <1>1, <1>2, VkHandlers, VkSettings, MountedHandler DEF Typed, Plain, Row, Saving
  <2>4. \A n \in Names(p) : Of(p, n).saves # {} => Saver(p, n)
    <3>1. Saver(p, "saveConfig") /\ Saver(p, "saveUsers")
      BY <1>2, <2>3, VkHandlers, VkSettings DEF Plain, Row, Saving, Saver, Mended
    <3>q. QED
      BY <1>1, <1>2, <3>1, VkHandlers, MountedHandler DEF Plain, Row
  <2>5. Names(p) \cap RowHandlers = {}
    BY <1>1 DEF RowHandlers
  <2>6. DOMAIN Pages[p].inputs \subseteq {"config", "users"}
    BY DEF Pages, Vk, Telegram
  <2>q. QED
    BY <2>1, <2>2, <2>3, <2>4, <2>5, <2>6 DEF Mends
<1>q. QED
  BY <1>4, <1>5, <1>7, <1>8, <1>9, <1>10 DEF Rules, Guardians

LEMMA SmsHandlers ==
  /\ Plain(SmsLoadUsers, "usersLoading", {"usersLoading"}, {})
  /\ Plain(SmsSaveUsers, "usersSaving", {"usersLoading", "usersSaving"}, {"users"})
  /\ Row(Mounted(<<{"loadUsers"}>>), "none", {}, {}, {"loadUsers"})
BY Awaited DEF Plain, Row, Starts, Spawns, Call, Load, Mounted, Nothing, Save,
  SmsLoadUsers, SmsSaveUsers

LEMMA SmsSettings ==
  /\ Loading(SmsLoadUsers, {"users"})
  /\ Saving(SmsSaveUsers, {}, "form")
BY DEF Call, Load, Loading, Nothing, Save, Saving, SmsLoadUsers, SmsSaveUsers

LEMMA SmsRules == Rules("sms")
<1> DEFINE p == "sms"
<1>1. /\ Names(p) = {"loadUsers", "saveUsers", "mounted"}
      /\ Pages[p].hidden = {"loadUsers"}
  BY DEF Names, Pages, Sms
<1>2. /\ Of(p, "loadUsers") = SmsLoadUsers
      /\ Of(p, "saveUsers") = SmsSaveUsers
      /\ Of(p, "mounted") = Mounted(<<{"loadUsers"}>>)
  BY DEF Of, Pages, Sms
<1>3. \A n \in Names(p) :
        /\ ~Of(p, n).keeps
        /\ Starts(Of(p, n), {"loadUsers"})
  BY <1>1, <1>2, SmsHandlers, MountedHandler, StartsFewer DEF Plain, Row
<1>4. Closed(p)
  <2>1. Of(p, "mounted").request = "none" /\ Of(p, "mounted").flag = "none"
    BY <1>2, MountedHandler
  <2>q. QED
    BY <1>1, <1>3, <2>1, StartsFewer DEF Closed
<1>5. HandedOn(p)
  BY <1>3 DEF HandedOn
<1>6. \A n \in Names(p) :
        /\ Of(p, n).flag = "usersSaving" <=> n = "saveUsers"
  BY <1>1, <1>2, SmsHandlers, MountedHandler DEF Plain, Row
<1>7. Guards(p, "usersSaving", "none")
  <2>1. "usersSaving" \in Of(p, "saveUsers").blocks
    BY <1>2, SmsHandlers DEF Plain, Row
  <2>2. \A m \in Names(p) : Starts(Of(p, m), Names(p) \ {"saveUsers"})
    BY <1>1, <1>3, StartsFewer
  <2>q. QED
    BY <1>1, <1>6, <2>1, <2>2 DEF Guards, Guarded, RowFlags, TogglingPlugin
<1>8. KeptApart(p)
  <2>1. \A n \in Names(p) : \A s \in Of(p, n).saves :
          \/ s = "users" /\ n = "saveUsers"
    BY <1>1, <1>2, SmsHandlers, MountedHandler DEF Plain, Row
  <2>2. Sole(p, "users")
    <3>1. <<"usersSaving", "none">> \in Guardians[p]
      BY DEF Guardians
    <3>q. QED
      BY <1>6, <2>1, <3>1, SoleUnder DEF Guarded
  <2>q. QED
    BY <2>1, <2>2 DEF KeptApart
<1>9. Mends(p)
  <2>1. \A n \in Names(p) : Of(p, n).edits = {}
    BY <1>1, <1>2, SmsSettings, MountedHandler DEF Loading, Saving
  <2>2. \A n \in Names(p) : \A m \in Spawns(Of(p, n)) \cup Followers(Of(p, n), Of(p, n).awaits) :
           Of(p, m).saves = {}
    BY <1>2, <1>3, SmsHandlers, StartsAll DEF Plain, Row
  <2>3. \A s \in {"users"} : Typed(p, s)
    BY <1>1, <1>2, SmsHandlers, SmsSettings, MountedHandler DEF Typed, Plain, Row, Saving
  <2>4. \A n \in Names(p) : Of(p, n).saves # {} => Saver(p, n)
    <3>1. Saver(p, "saveUsers")
      BY <1>2, <2>3, SmsHandlers, SmsSettings DEF Plain, Row, Saving, Saver, Mended
    <3>q. QED
      BY <1>1, <1>2, <3>1, SmsHandlers, MountedHandler DEF Plain, Row
  <2>5. Names(p) \cap RowHandlers = {}
    BY <1>1 DEF RowHandlers
  <2>6. DOMAIN Pages[p].inputs \subseteq {"users"}
    BY DEF Pages, Sms
  <2>q. QED
    BY <2>1, <2>2, <2>3, <2>4, <2>5, <2>6 DEF Mends
<1>q. QED
  BY <1>4, <1>5, <1>7, <1>8, <1>9 DEF Rules, Guardians

LEMMA ModemHandlers ==
  /\ Plain(ModemLoadModemInfo, "modemInfoLoading", {"modemInfoLoading"}, {})
  /\ Plain(ModemLoadApn, "loading", {"loading"}, {})
  /\ Plain(ModemLoadConnection, "none", {"none"}, {})
  /\ Plain(ModemSaveApn, "loading", {"loading", "modemInfoLoading"}, {"apn"})
  /\ Row(ModemRefreshAll, "none", {"modemInfoLoading"}, {},
       {"loadApn", "loadConnection", "loadModemInfo"})
  /\ ~ModemRefreshAll.keeps
  /\ Row(Mounted(<<{"loadApn"}, {"loadModemInfo"}, {"loadConnection"}>>), "none", {}, {},
       {"loadApn", "loadConnection", "loadModemInfo"})
BY Awaited DEF Plain, Row, Starts, Spawns, Call, Load, ModemLoadApn,
  ModemLoadConnection, ModemLoadModemInfo, ModemRefreshAll, ModemSaveApn, Mounted,
  Nothing, Save

LEMMA ModemSettings ==
  /\ Loading(ModemLoadModemInfo, {})
  /\ Loading(ModemLoadApn, {"apn"})
  /\ Loading(ModemLoadConnection, {})
  /\ Saving(ModemSaveApn, {}, "form")
  /\ ModemRefreshAll.edits = {}
BY DEF Call, Load, Loading, Mounted, Nothing, Save, Saving, ModemLoadApn, ModemLoadConnection,
  ModemLoadModemInfo, ModemRefreshAll, ModemSaveApn

LEMMA ModemRules == Rules("modem")
<1> DEFINE p == "modem"
<1>1. /\ Names(p) = {"loadModemInfo", "loadApn", "loadConnection", "saveApn", "refreshAll",
                     "mounted"}
      /\ Pages[p].hidden = {"loadApn", "loadConnection", "loadModemInfo"}
  BY DEF Names, Pages, Modem
<1>2. /\ Of(p, "loadModemInfo") = ModemLoadModemInfo
      /\ Of(p, "loadApn") = ModemLoadApn
      /\ Of(p, "loadConnection") = ModemLoadConnection
      /\ Of(p, "saveApn") = ModemSaveApn
      /\ Of(p, "refreshAll") = ModemRefreshAll
      /\ Of(p, "mounted") = Mounted(<<{"loadApn"}, {"loadModemInfo"}, {"loadConnection"}>>)
  BY DEF Of, Pages, Modem
<1>3. \A n \in Names(p) :
        /\ ~Of(p, n).keeps
        /\ Starts(Of(p, n), {"loadApn", "loadConnection", "loadModemInfo"})
  BY <1>1, <1>2, ModemHandlers, MountedHandler, StartsFewer DEF Plain, Row
<1>4. Closed(p)
  <2>1. Of(p, "mounted").request = "none" /\ Of(p, "mounted").flag = "none"
    BY <1>2, MountedHandler
  <2>q. QED
    BY <1>1, <1>3, <2>1, StartsFewer DEF Closed
<1>5. HandedOn(p)
  BY <1>3 DEF HandedOn
<1>6. KeptApart(p)
  <2>1. \A n \in Names(p) : \A s \in Of(p, n).saves :
          \/ s = "apn"
    BY <1>1, <1>2, ModemHandlers, MountedHandler DEF Plain, Row
  <2>q. QED
    BY <2>1 DEF KeptApart, Racy
<1>7. Mends(p)
  <2>1. \A n \in Names(p) : Of(p, n).edits = {}
    BY <1>1, <1>2, ModemSettings, MountedHandler DEF Loading, Saving
  <2>2. \A n \in Names(p) : \A m \in Spawns(Of(p, n)) \cup Followers(Of(p, n), Of(p, n).awaits) :
           Of(p, m).saves = {}
    BY <1>2, <1>3, ModemHandlers, StartsAll DEF Plain, Row
  <2>3. \A s \in {"apn"} : Typed(p, s)
    BY <1>1, <1>2, ModemHandlers, ModemSettings, MountedHandler DEF Typed, Plain, Row, Saving
  <2>4. \A n \in Names(p) : Of(p, n).saves # {} => Saver(p, n)
    <3>1. Saver(p, "saveApn")
      BY <1>2, <2>3, ModemHandlers, ModemSettings DEF Plain, Row, Saving, Saver, Mended
    <3>q. QED
      BY <1>1, <1>2, <3>1, ModemHandlers, MountedHandler DEF Plain, Row
  <2>5. Names(p) \cap RowHandlers = {}
    BY <1>1 DEF RowHandlers
  <2>6. DOMAIN Pages[p].inputs \subseteq {"apn"}
    BY DEF Pages, Modem
  <2>q. QED
    BY <2>1, <2>2, <2>3, <2>4, <2>5, <2>6 DEF Mends
<1>q. QED
  BY <1>4, <1>5, <1>6, <1>7 DEF Rules, Guardians

LEMMA UsersHandlers ==
  /\ Plain(UsersLoadUsers, "loading", {"loading"}, {})
  /\ Row(UsersAddUser, "addLoading", {"addLoading"}, {"users"}, {"loadUsers"})
  /\ ~UsersAddUser.keeps
  /\ Row(UsersDeleteUser, "loading", {"loading"}, {"users"}, {"loadUsers"})
  /\ ~UsersDeleteUser.keeps
  /\ Row(Mounted(<<{"loadUsers"}>>), "none", {}, {}, {"loadUsers"})
BY Awaited DEF Plain, Row, Starts, Spawns, Call, Change, Load, Mounted, Nothing,
  UsersAddUser, UsersDeleteUser, UsersLoadUsers

LEMMA UsersSettings ==
  /\ Loading(UsersLoadUsers, {"users"})
  /\ Saving(UsersAddUser, {}, "answer") /\ ~UsersAddUser.reverts
  /\ UsersAddUser.awaits = <<{"loadUsers"}>>
  /\ Saving(UsersDeleteUser, {}, "answer") /\ ~UsersDeleteUser.reverts
  /\ UsersDeleteUser.awaits = <<{"loadUsers"}>>
BY DEF Call, Change, Load, Loading, Nothing, Saving, UsersAddUser, UsersDeleteUser,
  UsersLoadUsers

LEMMA UsersRules == Rules("users")
<1> DEFINE p == "users"
<1>1. /\ Names(p) = {"loadUsers", "addUser", "deleteUser", "mounted"}
      /\ Pages[p].hidden = {}
  BY DEF Names, Pages, Users
<1>2. /\ Of(p, "loadUsers") = UsersLoadUsers
      /\ Of(p, "addUser") = UsersAddUser
      /\ Of(p, "deleteUser") = UsersDeleteUser
      /\ Of(p, "mounted") = Mounted(<<{"loadUsers"}>>)
  BY DEF Of, Pages, Users
<1>3. \A n \in Names(p) :
        /\ ~Of(p, n).keeps
        /\ Starts(Of(p, n), {"loadUsers"})
  BY <1>1, <1>2, UsersHandlers, MountedHandler, StartsFewer DEF Plain, Row
<1>4. Closed(p)
  <2>1. Of(p, "mounted").request = "none" /\ Of(p, "mounted").flag = "none"
    BY <1>2, MountedHandler
  <2>q. QED
    BY <1>1, <1>3, <2>1, StartsFewer DEF Closed
<1>5. HandedOn(p)
  BY <1>3 DEF HandedOn
<1>6. KeptApart(p)
  <2>1. \A n \in Names(p) : \A s \in Of(p, n).saves :
          \/ s = "users"
    BY <1>1, <1>2, UsersHandlers, MountedHandler DEF Plain, Row
  <2>q. QED
    BY <2>1 DEF KeptApart, Racy
<1>7. Mends(p)
  <2>1. \A n \in Names(p) : Of(p, n).edits = {}
    BY <1>1, <1>2, UsersSettings, MountedHandler DEF Loading, Saving
  <2>2. \A n \in Names(p) : \A m \in Spawns(Of(p, n)) \cup Followers(Of(p, n), Of(p, n).awaits) :
           Of(p, m).saves = {}
    BY <1>2, <1>3, UsersHandlers, StartsAll DEF Plain, Row
  <2>3. \A n \in Names(p) : Of(p, n).saves # {} => Saver(p, n)
    <3>1. Saver(p, "addUser")
      <4>1. "loadUsers" \in Followers(Of(p, "addUser"), Of(p, "addUser").awaits)
        BY <1>2, UsersSettings, AwaitedFollow DEF Followers
      <4>2. Relied(p, "users", "loadUsers")
        BY <1>1, <1>2, <4>1, UsersHandlers DEF Plain, Row, Relied
      <4>3. Reloads(p, "loadUsers", "users")
        BY <1>1, <1>2, <4>2, UsersSettings DEF Reloads, RowHandlers, Loading
      <4>q. QED
        BY <1>2, <4>1, <4>3, UsersHandlers, UsersSettings DEF Plain, Row, Saving, Saver, Mended
    <3>2. Saver(p, "deleteUser")
      <4>1. "loadUsers" \in Followers(Of(p, "deleteUser"), Of(p, "deleteUser").awaits)
        BY <1>2, UsersSettings, AwaitedFollow DEF Followers
      <4>2. Relied(p, "users", "loadUsers")
        BY <1>1, <1>2, <4>1, UsersHandlers DEF Plain, Row, Relied
      <4>3. Reloads(p, "loadUsers", "users")
        BY <1>1, <1>2, <4>2, UsersSettings DEF Reloads, RowHandlers, Loading
      <4>q. QED
        BY <1>2, <4>1, <4>3, UsersHandlers, UsersSettings DEF Plain, Row, Saving, Saver, Mended
    <3>q. QED
      BY <1>1, <1>2, <3>1, <3>2, UsersHandlers, MountedHandler DEF Plain, Row
  <2>4. Names(p) \cap RowHandlers = {}
    BY <1>1 DEF RowHandlers
  <2>5. DOMAIN Pages[p].inputs = {}
    BY DEF Pages, Users
  <2>q. QED
    BY <2>1, <2>2, <2>3, <2>4, <2>5 DEF Mends
<1>q. QED
  BY <1>4, <1>5, <1>6, <1>7 DEF Rules, Guardians

LEMMA CameraHandlers ==
  /\ Plain(CameraLoadInfo, "loading", {"loading"}, {})
  /\ Plain(CameraLoadSettings, "loadingSettings", {"loadingSettings"}, {})
  /\ Row(CameraVideoStart, "actionLoading", {"actionLoading", "loading", "loadingSettings"},
       {}, {"loadInfo"})
  /\ ~CameraVideoStart.keeps
  /\ Row(CameraVideoPause, "actionLoading", {"actionLoading", "loading", "loadingSettings"},
       {}, {"loadInfo"})
  /\ ~CameraVideoPause.keeps
  /\ Plain(CameraSaveSettings, "saving", {"loading", "loadingSettings", "saving"}, {"settings"})
  /\ Plain(CameraLoadStorageStats, "none", {"none"}, {})
  /\ Plain(CameraSaveFilesLimit, "savingLimit", {"loading", "loadingSettings", "savingLimit"},
       {"filesLimit"})
  /\ Plain(CameraSaveStreamSettings, "savingStream",
       {"loading", "loadingSettings", "savingStream"}, {"streamSettings"})
  /\ Row(CameraRefresh, "none", {"loading", "loadingSettings"}, {},
       {"loadInfo", "loadSettings"})
  /\ ~CameraRefresh.keeps
  /\ Row(Mounted(<<{"loadInfo", "loadSettings", "loadStorageStats"}>>), "none", {}, {},
       {"loadInfo", "loadSettings", "loadStorageStats"})
BY Awaited DEF Plain, Row, Starts, Spawns, Call, CameraHidden, CameraLoadInfo,
  CameraLoadSettings, CameraLoadStorageStats, CameraRefresh, CameraSaveFilesLimit,
  CameraSaveSettings, CameraSaveStreamSettings, CameraVideoPause, CameraVideoStart,
  Load, Mounted, Nothing, Save

LEMMA CameraSettings ==
  /\ Loading(CameraLoadInfo, {})
  /\ Loading(CameraLoadSettings, {"settings", "streamSettings"})
  /\ Saving(CameraVideoStart, {}, "answer")
  /\ Saving(CameraVideoPause, {}, "answer")
  /\ Saving(CameraSaveSettings, {}, "form")
  /\ Loading(CameraLoadStorageStats, {"filesLimit"})
  /\ Saving(CameraSaveFilesLimit, {}, "form")
  /\ Saving(CameraSaveStreamSettings, {}, "form")
  /\ CameraRefresh.edits = {}
BY DEF Call, Load, Loading, Nothing, Save, Saving, CameraLoadInfo, CameraLoadSettings,
  CameraLoadStorageStats, CameraRefresh, CameraSaveFilesLimit, CameraSaveSettings,
  CameraSaveStreamSettings, CameraVideoPause, CameraVideoStart

LEMMA CameraRules == Rules("camera")
<1> DEFINE p == "camera"
<1>1. /\ Names(p) = {"loadInfo", "loadSettings", "videoStart", "videoPause", "saveSettings",
                     "loadStorageStats", "saveFilesLimit", "saveStreamSettings", "refresh",
                     "mounted"}
      /\ Pages[p].hidden = {"loadInfo", "loadSettings", "loadStorageStats"}
  BY DEF Names, Pages, Camera
<1>2. /\ Of(p, "loadInfo") = CameraLoadInfo
      /\ Of(p, "loadSettings") = CameraLoadSettings
      /\ Of(p, "videoStart") = CameraVideoStart
      /\ Of(p, "videoPause") = CameraVideoPause
      /\ Of(p, "saveSettings") = CameraSaveSettings
      /\ Of(p, "loadStorageStats") = CameraLoadStorageStats
      /\ Of(p, "saveFilesLimit") = CameraSaveFilesLimit
      /\ Of(p, "saveStreamSettings") = CameraSaveStreamSettings
      /\ Of(p, "refresh") = CameraRefresh
      /\ Of(p, "mounted") = Mounted(<<{"loadInfo", "loadSettings", "loadStorageStats"}>>)
  BY DEF Of, Pages, Camera
<1>3. \A n \in Names(p) :
        /\ ~Of(p, n).keeps
        /\ Starts(Of(p, n), {"loadInfo", "loadSettings", "loadStorageStats"})
  BY <1>1, <1>2, CameraHandlers, MountedHandler, StartsFewer DEF Plain, Row
<1>4. Closed(p)
  <2>1. Of(p, "mounted").request = "none" /\ Of(p, "mounted").flag = "none"
    BY <1>2, MountedHandler
  <2>q. QED
    BY <1>1, <1>3, <2>1, StartsFewer DEF Closed
<1>5. HandedOn(p)
  BY <1>3 DEF HandedOn
<1>6. \A n \in Names(p) :
        /\ Of(p, n).flag = "saving" <=> n = "saveSettings"
        /\ Of(p, n).flag = "savingLimit" <=> n = "saveFilesLimit"
        /\ Of(p, n).flag = "savingStream" <=> n = "saveStreamSettings"
  BY <1>1, <1>2, CameraHandlers, MountedHandler DEF Plain, Row
<1>7. Guards(p, "saving", "none")
  <2>1. "saving" \in Of(p, "saveSettings").blocks
    BY <1>2, CameraHandlers DEF Plain, Row
  <2>2. \A m \in Names(p) : Starts(Of(p, m), Names(p) \ {"saveSettings"})
    BY <1>1, <1>3, StartsFewer
  <2>q. QED
    BY <1>1, <1>6, <2>1, <2>2 DEF Guards, Guarded, RowFlags, TogglingPlugin
<1>8. Guards(p, "savingLimit", "none")
  <2>1. "savingLimit" \in Of(p, "saveFilesLimit").blocks
    BY <1>2, CameraHandlers DEF Plain, Row
  <2>2. \A m \in Names(p) : Starts(Of(p, m), Names(p) \ {"saveFilesLimit"})
    BY <1>1, <1>3, StartsFewer
  <2>q. QED
    BY <1>1, <1>6, <2>1, <2>2 DEF Guards, Guarded, RowFlags, TogglingPlugin
<1>9. Guards(p, "savingStream", "none")
  <2>1. "savingStream" \in Of(p, "saveStreamSettings").blocks
    BY <1>2, CameraHandlers DEF Plain, Row
  <2>2. \A m \in Names(p) : Starts(Of(p, m), Names(p) \ {"saveStreamSettings"})
    BY <1>1, <1>3, StartsFewer
  <2>q. QED
    BY <1>1, <1>6, <2>1, <2>2 DEF Guards, Guarded, RowFlags, TogglingPlugin
<1>10. KeptApart(p)
  <2>1. \A n \in Names(p) : \A s \in Of(p, n).saves :
          \/ s = "settings" /\ n = "saveSettings"
          \/ s = "filesLimit" /\ n = "saveFilesLimit"
          \/ s = "streamSettings" /\ n = "saveStreamSettings"
    BY <1>1, <1>2, CameraHandlers, MountedHandler DEF Plain, Row
  <2>2. Sole(p, "settings")
    <3>1. <<"saving", "none">> \in Guardians[p]
      BY DEF Guardians
    <3>q. QED
      BY <1>6, <2>1, <3>1, SoleUnder DEF Guarded
  <2>3. Sole(p, "filesLimit")
    <3>1. <<"savingLimit", "none">> \in Guardians[p]
      BY DEF Guardians
    <3>q. QED
      BY <1>6, <2>1, <3>1, SoleUnder DEF Guarded
  <2>4. Sole(p, "streamSettings")
    <3>1. <<"savingStream", "none">> \in Guardians[p]
      BY DEF Guardians
    <3>q. QED
      BY <1>6, <2>1, <3>1, SoleUnder DEF Guarded
  <2>q. QED
    BY <2>1, <2>2, <2>3, <2>4 DEF KeptApart
<1>11. Mends(p)
  <2>1. \A n \in Names(p) : Of(p, n).edits = {}
    BY <1>1, <1>2, CameraSettings, MountedHandler DEF Loading, Saving
  <2>2. \A n \in Names(p) : \A m \in Spawns(Of(p, n)) \cup Followers(Of(p, n), Of(p, n).awaits) :
           Of(p, m).saves = {}
    BY <1>2, <1>3, CameraHandlers, StartsAll DEF Plain, Row
  <2>3. \A s \in {"settings", "filesLimit", "streamSettings"} : Typed(p, s)
    BY <1>1, <1>2, CameraHandlers, CameraSettings, MountedHandler DEF Typed, Plain, Row, Saving
  <2>4. \A n \in Names(p) : Of(p, n).saves # {} => Saver(p, n)
    <3>1. /\ Saver(p, "saveSettings")
          /\ Saver(p, "saveFilesLimit")
          /\ Saver(p, "saveStreamSettings")
      BY <1>2, <2>3, CameraHandlers, CameraSettings DEF Plain, Row, Saving, Saver, Mended
    <3>q. QED
      BY <1>1, <1>2, <3>1, CameraHandlers, MountedHandler DEF Plain, Row
  <2>5. Names(p) \cap RowHandlers = {}
    BY <1>1 DEF RowHandlers
  <2>6. DOMAIN Pages[p].inputs \subseteq {"settings", "filesLimit", "streamSettings"}
    BY DEF Pages, Camera
  <2>q. QED
    BY <2>1, <2>2, <2>3, <2>4, <2>5, <2>6 DEF Mends
<1>q. QED
  BY <1>4, <1>5, <1>7, <1>8, <1>9, <1>10, <1>11 DEF Rules, Guardians

LEMMA InboxHandlers ==
  /\ Plain(InboxLoad, "loading", {"loading"}, {})
  /\ Plain(InboxDeleteMsg, "none", {}, {"messages"})
  /\ Row(Mounted(<<{"load"}>>), "none", {}, {}, {"load"})
BY Awaited DEF Plain, Row, Starts, Spawns, Call, Change, InboxDeleteMsg,
  InboxLoad, Load, Mounted, Nothing

LEMMA InboxSettings ==
  /\ Loading(InboxLoad, {"messages"})
  /\ Saving(InboxDeleteMsg, {"messages"}, "answer") /\ ~InboxDeleteMsg.reverts
BY DEF Call, Change, Load, Loading, Nothing, Saving, InboxDeleteMsg, InboxLoad

LEMMA InboxRules == Rules("inbox")
<1> DEFINE p == "inbox"
<1>1. /\ Names(p) = {"load", "deleteMsg", "mounted"}
      /\ Pages[p].hidden = {}
  BY DEF Names, Pages, Inbox
<1>2. /\ Of(p, "load") = InboxLoad
      /\ Of(p, "deleteMsg") = InboxDeleteMsg
      /\ Of(p, "mounted") = Mounted(<<{"load"}>>)
  BY DEF Of, Pages, Inbox
<1>3. \A n \in Names(p) :
        /\ ~Of(p, n).keeps
        /\ Starts(Of(p, n), {"load"})
  BY <1>1, <1>2, InboxHandlers, MountedHandler, StartsFewer DEF Plain, Row
<1>4. Closed(p)
  <2>1. Of(p, "mounted").request = "none" /\ Of(p, "mounted").flag = "none"
    BY <1>2, MountedHandler
  <2>q. QED
    BY <1>1, <1>3, <2>1, StartsFewer DEF Closed
<1>5. HandedOn(p)
  BY <1>3 DEF HandedOn
<1>6. KeptApart(p)
  <2>1. \A n \in Names(p) : \A s \in Of(p, n).saves :
          \/ s = "messages"
    BY <1>1, <1>2, InboxHandlers, MountedHandler DEF Plain, Row
  <2>q. QED
    BY <2>1 DEF KeptApart, Racy
<1>7. Mends(p)
  <2>1. \A n \in Names(p) : Of(p, n).edits = {}
    BY <1>1, <1>2, InboxSettings, MountedHandler DEF Loading, Saving
  <2>2. \A n \in Names(p) : \A m \in Spawns(Of(p, n)) \cup Followers(Of(p, n), Of(p, n).awaits) :
           Of(p, m).saves = {}
    BY <1>2, <1>3, InboxHandlers, StartsAll DEF Plain, Row
  <2>3. \A n \in Names(p) : Of(p, n).saves # {} => Saver(p, n)
    <3>1. Saver(p, "deleteMsg")
      BY <1>2, InboxHandlers, InboxSettings DEF Plain, Row, Saving, Saver, Mended
    <3>q. QED
      BY <1>1, <1>2, <3>1, InboxHandlers, MountedHandler DEF Plain, Row
  <2>4. Names(p) \cap RowHandlers = {}
    BY <1>1 DEF RowHandlers
  <2>5. DOMAIN Pages[p].inputs = {}
    BY DEF Pages, Inbox
  <2>q. QED
    BY <2>1, <2>2, <2>3, <2>4, <2>5 DEF Mends
<1>q. QED
  BY <1>4, <1>5, <1>6, <1>7 DEF Rules, Guardians

LEMMA TracksHandlers ==
  /\ Plain(TracksLoad, "loading", {"loading"}, {})
  /\ Plain(TracksDeleteTrack, "none", {}, {"tracks"})
  /\ Row(Mounted(<<{"load"}>>), "none", {}, {}, {"load"})
BY Awaited DEF Plain, Row, Starts, Spawns, Call, Change, Load, Mounted, Nothing,
  TracksDeleteTrack, TracksLoad

LEMMA TracksSettings ==
  /\ Loading(TracksLoad, {"tracks"})
  /\ Saving(TracksDeleteTrack, {"tracks"}, "answer") /\ ~TracksDeleteTrack.reverts
BY DEF Call, Change, Load, Loading, Nothing, Saving, TracksDeleteTrack, TracksLoad

LEMMA TracksRules == Rules("tracks")
<1> DEFINE p == "tracks"
<1>1. /\ Names(p) = {"load", "deleteTrack", "mounted"}
      /\ Pages[p].hidden = {}
  BY DEF Names, Pages, Tracks
<1>2. /\ Of(p, "load") = TracksLoad
      /\ Of(p, "deleteTrack") = TracksDeleteTrack
      /\ Of(p, "mounted") = Mounted(<<{"load"}>>)
  BY DEF Of, Pages, Tracks
<1>3. \A n \in Names(p) :
        /\ ~Of(p, n).keeps
        /\ Starts(Of(p, n), {"load"})
  BY <1>1, <1>2, TracksHandlers, MountedHandler, StartsFewer DEF Plain, Row
<1>4. Closed(p)
  <2>1. Of(p, "mounted").request = "none" /\ Of(p, "mounted").flag = "none"
    BY <1>2, MountedHandler
  <2>q. QED
    BY <1>1, <1>3, <2>1, StartsFewer DEF Closed
<1>5. HandedOn(p)
  BY <1>3 DEF HandedOn
<1>6. KeptApart(p)
  <2>1. \A n \in Names(p) : \A s \in Of(p, n).saves :
          \/ s = "tracks"
    BY <1>1, <1>2, TracksHandlers, MountedHandler DEF Plain, Row
  <2>q. QED
    BY <2>1 DEF KeptApart, Racy
<1>7. Mends(p)
  <2>1. \A n \in Names(p) : Of(p, n).edits = {}
    BY <1>1, <1>2, TracksSettings, MountedHandler DEF Loading, Saving
  <2>2. \A n \in Names(p) : \A m \in Spawns(Of(p, n)) \cup Followers(Of(p, n), Of(p, n).awaits) :
           Of(p, m).saves = {}
    BY <1>2, <1>3, TracksHandlers, StartsAll DEF Plain, Row
  <2>3. \A n \in Names(p) : Of(p, n).saves # {} => Saver(p, n)
    <3>1. Saver(p, "deleteTrack")
      BY <1>2, TracksHandlers, TracksSettings DEF Plain, Row, Saving, Saver, Mended
    <3>q. QED
      BY <1>1, <1>2, <3>1, TracksHandlers, MountedHandler DEF Plain, Row
  <2>4. Names(p) \cap RowHandlers = {}
    BY <1>1 DEF RowHandlers
  <2>5. DOMAIN Pages[p].inputs = {}
    BY DEF Pages, Tracks
  <2>q. QED
    BY <2>1, <2>2, <2>3, <2>4, <2>5 DEF Mends
<1>q. QED
  BY <1>4, <1>5, <1>6, <1>7 DEF Rules, Guardians

LEMMA HomeHandlers ==
  /\ Row(HomeFetchStatusData, "none", {"none"}, {}, {"fetchStatusData"})
  /\ ~HomeFetchStatusData.keeps
  /\ Row(HomeCameraStart, "cameraActionLoading", {"cameraActionLoading"}, {},
       {"fetchStatusData"})
  /\ ~HomeCameraStart.keeps
  /\ Row(HomeCameraPause, "cameraActionLoading", {"cameraActionLoading"}, {},
       {"fetchStatusData"})
  /\ ~HomeCameraPause.keeps
  /\ Plain(HomePowerReboot, "powerActionLoading", {"powerActionLoading"}, {})
  /\ Plain(HomePowerShutdown, "powerActionLoading", {"powerActionLoading"}, {})
  /\ Plain(HomePowerKeepAlive, "powerActionLoading", {"powerActionLoading"}, {})
  /\ Plain(HomeLoad, "loading", {"loading"}, {})
  /\ Plain(HomeTakePhoto, "takingPhoto", {"takingPhoto"}, {})
  /\ Plain(HomeTakeShortVideo, "takingShortVideo", {"takingShortVideo"}, {})
  /\ Row(Mounted(<<{"fetchStatusData", "load"}>>), "none", {}, {}, {"fetchStatusData", "load"})
BY Awaited DEF Plain, Row, Starts, Spawns, Call, HomeCameraPause,
  HomeCameraStart, HomeFetchStatusData, HomeLoad, HomePowerKeepAlive,
  HomePowerReboot, HomePowerShutdown, HomeTakePhoto, HomeTakeShortVideo, Load,
  Mounted, Nothing

LEMMA HomeSettings ==
  /\ Loading(HomeFetchStatusData, {})
  /\ Saving(HomeCameraStart, {}, "answer")
  /\ Saving(HomeCameraPause, {}, "answer")
  /\ Saving(HomePowerReboot, {}, "answer")
  /\ Saving(HomePowerShutdown, {}, "answer")
  /\ Saving(HomePowerKeepAlive, {}, "answer")
  /\ Loading(HomeLoad, {})
  /\ Saving(HomeTakePhoto, {}, "answer")
  /\ Saving(HomeTakeShortVideo, {}, "answer")
BY DEF Call, Load, Loading, Nothing, Saving, HomeCameraPause, HomeCameraStart,
  HomeFetchStatusData, HomeLoad, HomePowerKeepAlive, HomePowerReboot, HomePowerShutdown,
  HomeTakePhoto, HomeTakeShortVideo

LEMMA HomeRules == Rules("home")
<1> DEFINE p == "home"
<1>1. /\ Names(p) = {"fetchStatusData", "cameraStart", "cameraPause", "powerReboot",
                     "powerShutdown", "powerKeepAlive", "load", "takePhoto", "takeShortVideo",
                     "mounted"}
      /\ Pages[p].hidden = {"fetchStatusData"}
  BY DEF Names, Pages, Home
<1>2. /\ Of(p, "fetchStatusData") = HomeFetchStatusData
      /\ Of(p, "cameraStart") = HomeCameraStart
      /\ Of(p, "cameraPause") = HomeCameraPause
      /\ Of(p, "powerReboot") = HomePowerReboot
      /\ Of(p, "powerShutdown") = HomePowerShutdown
      /\ Of(p, "powerKeepAlive") = HomePowerKeepAlive
      /\ Of(p, "load") = HomeLoad
      /\ Of(p, "takePhoto") = HomeTakePhoto
      /\ Of(p, "takeShortVideo") = HomeTakeShortVideo
      /\ Of(p, "mounted") = Mounted(<<{"fetchStatusData", "load"}>>)
  BY DEF Of, Pages, Home
<1>3. \A n \in Names(p) :
        /\ ~Of(p, n).keeps
        /\ Starts(Of(p, n), {"fetchStatusData", "load"})
  BY <1>1, <1>2, HomeHandlers, MountedHandler, StartsFewer DEF Plain, Row
<1>4. Closed(p)
  <2>1. Of(p, "mounted").request = "none" /\ Of(p, "mounted").flag = "none"
    BY <1>2, MountedHandler
  <2>q. QED
    BY <1>1, <1>3, <2>1, StartsFewer DEF Closed
<1>5. HandedOn(p)
  BY <1>3 DEF HandedOn
<1>6. KeptApart(p)
  <2>1. \A n \in Names(p) : Of(p, n).saves = {}
    BY <1>1, <1>2, HomeHandlers, MountedHandler DEF Plain, Row
  <2>q. QED
    BY <2>1 DEF KeptApart
<1>7. Mends(p)
  <2>1. \A n \in Names(p) : Of(p, n).edits = {}
    BY <1>1, <1>2, HomeSettings, MountedHandler DEF Loading, Saving
  <2>2. \A n \in Names(p) : \A m \in Spawns(Of(p, n)) \cup Followers(Of(p, n), Of(p, n).awaits) :
           Of(p, m).saves = {}
    BY <1>2, <1>3, HomeHandlers, StartsAll DEF Plain, Row
  <2>3. \A n \in Names(p) : Of(p, n).saves = {}
    BY <1>1, <1>2, HomeHandlers, MountedHandler DEF Plain, Row
  <2>4. Names(p) \cap RowHandlers = {}
    BY <1>1 DEF RowHandlers
  <2>5. DOMAIN Pages[p].inputs = {}
    BY DEF Pages, Home
  <2>q. QED
    BY <2>1, <2>2, <2>3, <2>4, <2>5 DEF Mends
<1>q. QED
  BY <1>4, <1>5, <1>6, <1>7 DEF Rules, Guardians

\* Every page obeys them.
LEMMA PagesObey == \A p \in DOMAIN Pages : Rules(p)
<1>1. DOMAIN Pages = {"wireguard", "power", "wifi", "datetime", "system", "telegram", "vk", "sms",
                      "modem", "users", "camera", "inbox", "tracks", "home"}
  BY DEF Pages
<1>q. QED
  BY <1>1, WireguardRules, PowerRules, WiFiRules, DateTimeRules, SystemRules, TelegramRules,
     VkRules, SmsRules, ModemRules, UsersRules, CameraRules, InboxRules, TracksRules, HomeRules
-----------------------------------------------------------------------------
(* Calls                                                                       *)

Record(c) == c = [handler |-> c.handler, parent |-> c.parent, value |-> c.value, answer |-> c.answer,
                  left |-> c.left, raced |-> c.raced, orphan |-> c.orphan, id |-> c.id, stage |-> c.stage]

\* What c still awaits: everything, or what is behind the first set.
Remaining(all, left) ==
  \/ left = all
  \/ Len(left) < Len(all) /\ \A i \in DOMAIN left : \E j \in DOMAIN all : j > 1 /\ left[i] = all[j]

CallOK(p, c) ==
  /\ Record(c) /\ c.handler \in Names(p) /\ c.orphan \in BOOLEAN
  /\ c.handler = "mounted" => c.stage = "awaiting"
  /\ c.left \in Seq(SUBSET (Names(p) \ {"mounted"}))
  /\ Remaining(Of(p, c.handler).awaits, c.left)

\* Nothing runs before mounted has started the first calls.
Unstarted(p, c) == c.handler = "mounted" /\ c.left = Of(p, c.handler).awaits
FirstThings(p, S) ==
  \A c \in S : Unstarted(p, c) => S = {c} /\ c.stage = "awaiting" /\ c.parent = "none"

\* A flag that is set belongs to a call, one of a row to a call that holds the row.
Held(p, S, B) ==
  \A f \in B \ Stuck : \E c \in S : Of(p, c.handler).flag = f /\ (f \in RowFlags => ~c.orphan)

\* At most one guarded call and one load; while there is one its flag is set, but between the
\* end of the load and what follows at once.
OneGuarded(p, S, g, k) ==
  \A c, d \in S : Guarded(p, g, k, c.handler) /\ Guarded(p, g, k, d.handler) => c = d
OneLoad(S, k) == \A c, d \in S : c.handler = k /\ d.handler = k => c = d
GuardedSet(p, S, B, g, k) ==
  \A c \in S : Guarded(p, g, k, c.handler) =>
    \/ g \in B
    \/ c.stage = "awaiting" /\ c.left = <<>> /\ \A d \in S : d.parent # c.handler
LoadSet(S, B, g, k) == \A c \in S : c.handler = k => g \in B
LoadAwaited(p, S, g, k) ==
  \A c, d \in S : Guarded(p, g, k, c.handler) /\ d.handler = k =>
    /\ d.parent = c.handler /\ c.stage = "awaiting" /\ c.left = <<>>
    /\ AwaitsOnly(p, c.handler, k)
NoTimers(p, S, g, k) ==
  \A c \in S : Guarded(p, g, k, c.handler) \/ c.handler = k => c.stage # "timer"
OnlyLoads(p, S, g, k) ==
  \A c, d \in S :
    Guarded(p, g, k, c.handler) /\ d.parent = c.handler /\ AwaitsOnly(p, c.handler, k) => d.handler = k
ParentsStay(p, S, g, k) ==
  \A d \in S : Guarded(p, g, k, d.parent) => \E c \in S : c.handler = d.parent /\ c.stage = "awaiting"

Apart(p, S, B, g, k) ==
  /\ OneGuarded(p, S, g, k) /\ OneLoad(S, k) /\ GuardedSet(p, S, B, g, k) /\ LoadSet(S, B, g, k)
  /\ LoadAwaited(p, S, g, k) /\ NoTimers(p, S, g, k) /\ OnlyLoads(p, S, g, k) /\ ParentsStay(p, S, g, k)

Good(p, S, B) ==
  /\ \A c \in S : CallOK(p, c)
  /\ FirstThings(p, S) /\ Held(p, S, B)
  /\ \A w \in Guardians[p] : Apart(p, S, B, w[1], w[2])

-----------------------------------------------------------------------------
(* Changing, ending and starting calls, for the flags that keep calls apart   *)

\* Calls go on.
GoOn(S, F, T) ==
  /\ T = {F[c] : c \in S}
  /\ \A c \in S : /\ F[c].handler = c.handler /\ F[c].parent = c.parent
                  /\ c.stage = "awaiting" => F[c].stage = "awaiting"
                  /\ c.stage # "timer" => F[c].stage # "timer"
                  /\ c.left = <<>> => F[c].left = <<>>

LEMMA ApartChanged ==
  ASSUME NEW p, NEW S, NEW B, NEW C, NEW g, NEW k, Apart(p, S, B, g, k), NEW F, NEW T, GoOn(S, F, T),
         g \in B => g \in C
  PROVE  Apart(p, T, C, g, k)
<1> USE DEF GoOn
<1>1. (\A t \in T : \E c \in S : t = F[c]) /\ \A c \in S : F[c] \in T
  OBVIOUS
<1>2. OneGuarded(p, T, g, k)
  BY <1>1 DEF Apart, OneGuarded
<1>3. OneLoad(T, k)
  BY <1>1 DEF Apart, OneLoad
<1>4. GuardedSet(p, T, C, g, k)
  BY <1>1 DEF Apart, GuardedSet
<1>5. LoadSet(T, C, g, k)
  BY <1>1 DEF Apart, LoadSet
<1>6. LoadAwaited(p, T, g, k)
  <2>1. ASSUME NEW x \in S, NEW y \in S, Guarded(p, g, k, x.handler), y.handler = k
        PROVE  /\ F[y].parent = F[x].handler /\ F[x].stage = "awaiting" /\ F[x].left = <<>>
               /\ AwaitsOnly(p, F[x].handler, k)
    <3>1. /\ y.parent = x.handler /\ x.stage = "awaiting" /\ x.left = <<>>
          /\ AwaitsOnly(p, x.handler, k)
      BY <2>1 DEF Apart, LoadAwaited
    <3>q. QED
      BY <3>1
  <2>2. ASSUME NEW c \in T, NEW d \in T, Guarded(p, g, k, c.handler), d.handler = k
        PROVE  /\ d.parent = c.handler /\ c.stage = "awaiting" /\ c.left = <<>>
               /\ AwaitsOnly(p, c.handler, k)
    <3>1. PICK x \in S, y \in S : c = F[x] /\ d = F[y]
      BY <1>1
    <3>2. Guarded(p, g, k, x.handler) /\ y.handler = k
      BY <2>2, <3>1
    <3>q. QED
      BY <2>1, <3>1, <3>2
  <2>q. QED
    BY <2>2 DEF LoadAwaited
<1>7. NoTimers(p, T, g, k)
  BY <1>1 DEF Apart, NoTimers
<1>8. OnlyLoads(p, T, g, k)
  BY <1>1 DEF Apart, OnlyLoads
<1>9. ParentsStay(p, T, g, k)
  BY <1>1 DEF Apart, ParentsStay
<1>q. QED
  BY <1>2, <1>3, <1>4, <1>5, <1>6, <1>7, <1>8, <1>9 DEF Apart

\* Fewer calls keep what is said of all of them.
LEMMA ApartFewer ==
  ASSUME NEW p, NEW S, NEW B, NEW g, NEW k, Apart(p, S, B, g, k), NEW T \in SUBSET S
  PROVE  /\ OneGuarded(p, T, g, k) /\ OneLoad(T, k) /\ LoadAwaited(p, T, g, k)
         /\ NoTimers(p, T, g, k) /\ OnlyLoads(p, T, g, k)
<1>1. OneGuarded(p, T, g, k) /\ OneLoad(T, k)
  BY DEF Apart, OneGuarded, OneLoad
<1>2. LoadAwaited(p, T, g, k)
  BY DEF Apart, LoadAwaited
<1>3. NoTimers(p, T, g, k) /\ OnlyLoads(p, T, g, k)
  BY DEF Apart, NoTimers, OnlyLoads
<1>q. QED
  BY <1>1, <1>2, <1>3

\* A call ends that does not set the flag.
LEMMA ApartLeft ==
  ASSUME NEW p, NEW S, NEW B, NEW C, NEW g, NEW k, Apart(p, S, B, g, k), NEW c \in S,
         ~Guarded(p, g, k, c.handler), c.handler # k, g \in B => g \in C
  PROVE  Apart(p, S \ {c}, C, g, k)
<1>1. ParentsStay(p, S \ {c}, g, k)
  BY DEF Apart, ParentsStay
<1>2. GuardedSet(p, S \ {c}, C, g, k) /\ LoadSet(S \ {c}, C, g, k)
  BY DEF Apart, GuardedSet, LoadSet
<1>q. QED
  BY <1>1, <1>2, ApartFewer DEF Apart

\* A guarded call ends that awaits nothing.
LEMMA ApartEnded ==
  ASSUME NEW p, NEW S, NEW B, NEW C, NEW g, NEW k, Apart(p, S, B, g, k), NEW c \in S,
         Guarded(p, g, k, c.handler), c.stage # "awaiting" \/ \A d \in S : d.parent # c.handler
  PROVE  Apart(p, S \ {c}, C, g, k)
<1>1. \A d \in S : d.parent # c.handler
  BY DEF Apart, ParentsStay, OneGuarded
<1>2. \A d \in S \ {c} : ~Guarded(p, g, k, d.handler) /\ d.handler # k
  BY <1>1 DEF Apart, OneGuarded, LoadAwaited
<1>3. ParentsStay(p, S \ {c}, g, k)
  BY <1>1 DEF Apart, ParentsStay
<1>4. GuardedSet(p, S \ {c}, C, g, k) /\ LoadSet(S \ {c}, C, g, k)
  BY <1>2 DEF GuardedSet, LoadSet
<1>q. QED
  BY <1>3, <1>4, ApartFewer DEF Apart

\* The load ends.
LEMMA ApartLoaded ==
  ASSUME NEW p, NEW S, NEW B, NEW C, NEW g, NEW k, Apart(p, S, B, g, k), NEW c \in S, c.handler = k
  PROVE  Apart(p, S \ {c}, C, g, k)
<1>1. \A d \in S \ {c} : d.handler # k
  BY DEF Apart, OneLoad
<1>2. \A r \in S : Guarded(p, g, k, r.handler) =>
        /\ r.stage = "awaiting" /\ r.left = <<>> /\ AwaitsOnly(p, r.handler, k)
  BY DEF Apart, LoadAwaited
<1>3. \A r \in S : Guarded(p, g, k, r.handler) => \A d \in S \ {c} : d.parent # r.handler
  BY <1>1, <1>2 DEF Apart, OnlyLoads
<1>4. GuardedSet(p, S \ {c}, C, g, k)
  BY <1>2, <1>3 DEF GuardedSet
<1>5. LoadSet(S \ {c}, C, g, k)
  BY <1>1 DEF LoadSet
<1>6. ParentsStay(p, S \ {c}, g, k)
  BY DEF Apart, ParentsStay, Guarded
<1>q. QED
  BY <1>4, <1>5, <1>6, ApartFewer DEF Apart

\* Calls start that do not set the flag.
LEMMA ApartJoined ==
  ASSUME NEW p, NEW S, NEW B, NEW C, NEW g, NEW k, Apart(p, S, B, g, k), NEW N,
         \A n \in N : /\ ~Guarded(p, g, k, n.handler) /\ n.handler # k
                      /\ Guarded(p, g, k, n.parent) =>
                           /\ g \in B
                           /\ ~AwaitsOnly(p, n.parent, k)
                           /\ \E c \in S : c.handler = n.parent /\ c.stage = "awaiting",
         g \in B => g \in C
  PROVE  Apart(p, S \cup N, C, g, k)
<1>1. OneGuarded(p, S \cup N, g, k)
  BY DEF Apart, OneGuarded
<1>2. OneLoad(S \cup N, k)
  BY DEF Apart, OneLoad
<1>3. GuardedSet(p, S \cup N, C, g, k)
  BY DEF Apart, GuardedSet
<1>4. LoadSet(S \cup N, C, g, k)
  BY DEF Apart, LoadSet
<1>5. LoadAwaited(p, S \cup N, g, k)
  BY DEF Apart, LoadAwaited
<1>6. NoTimers(p, S \cup N, g, k)
  BY DEF Apart, NoTimers
<1>7. OnlyLoads(p, S \cup N, g, k)
  BY DEF Apart, OnlyLoads
<1>8. ParentsStay(p, S \cup N, g, k)
  BY DEF Apart, ParentsStay
<1>q. QED
  BY <1>1, <1>2, <1>3, <1>4, <1>5, <1>6, <1>7, <1>8 DEF Apart

\* A control is used: nothing that sets its flag runs.
LEMMA ApartPressed ==
  ASSUME NEW p, NEW S, NEW B, NEW C, NEW g, NEW k, Apart(p, S, B, g, k), NEW n,
         \A c \in S : ~Guarded(p, g, k, c.handler) /\ c.handler # k,
         Guarded(p, g, k, n.handler), ~Guarded(p, g, k, n.parent), n.stage # "timer", g \in C
  PROVE  Apart(p, S \cup {n}, C, g, k)
<1>1. n.handler # k
  BY DEF Guarded
<1>2. \A d \in S \cup {n} : ~Guarded(p, g, k, d.parent)
  BY DEF Apart, ParentsStay
<1>3. OneGuarded(p, S \cup {n}, g, k)
  BY DEF OneGuarded
<1>4. OneLoad(S \cup {n}, k) /\ LoadSet(S \cup {n}, C, g, k)
  BY <1>1 DEF OneLoad, LoadSet
<1>5. GuardedSet(p, S \cup {n}, C, g, k)
  BY DEF GuardedSet
<1>6. LoadAwaited(p, S \cup {n}, g, k)
  BY <1>1 DEF LoadAwaited
<1>7. NoTimers(p, S \cup {n}, g, k)
  BY DEF NoTimers
<1>8. OnlyLoads(p, S \cup {n}, g, k)
  BY <1>2 DEF OnlyLoads
<1>9. ParentsStay(p, S \cup {n}, g, k)
  BY <1>2 DEF ParentsStay
<1>q. QED
  BY <1>3, <1>4, <1>5, <1>6, <1>7, <1>8, <1>9 DEF Apart

\* The load starts: for a guarded call, or where there is none.
LEMMA ApartLoads ==
  ASSUME NEW p, NEW S, NEW B, NEW C, NEW g, NEW k, Apart(p, S, B, g, k), NEW n, n.handler = k,
         \A c \in S : c.handler # k,
         \A c \in S : Guarded(p, g, k, c.handler) =>
           /\ n.parent = c.handler /\ c.stage = "awaiting" /\ c.left = <<>>
           /\ AwaitsOnly(p, c.handler, k),
         Guarded(p, g, k, n.parent) => \E c \in S : c.handler = n.parent,
         n.stage # "timer", g \in C
  PROVE  Apart(p, S \cup {n}, C, g, k)
<1>1. ~Guarded(p, g, k, n.handler)
  BY DEF Guarded
<1>2. OneGuarded(p, S \cup {n}, g, k)
  BY <1>1 DEF Apart, OneGuarded
<1>3. OneLoad(S \cup {n}, k) /\ LoadSet(S \cup {n}, C, g, k)
  BY DEF OneLoad, LoadSet
<1>4. GuardedSet(p, S \cup {n}, C, g, k)
  BY DEF GuardedSet
<1>5. LoadAwaited(p, S \cup {n}, g, k)
  BY <1>1 DEF LoadAwaited
<1>6. NoTimers(p, S \cup {n}, g, k)
  BY DEF Apart, NoTimers
<1>7. OnlyLoads(p, S \cup {n}, g, k)
  BY <1>1 DEF Apart, OnlyLoads
<1>8. ParentsStay(p, S \cup {n}, g, k)
  BY DEF Apart, ParentsStay
<1>q. QED
  BY <1>2, <1>3, <1>4, <1>5, <1>6, <1>7, <1>8 DEF Apart


-----------------------------------------------------------------------------
(* New calls                                                                   *)

LEMMA HOf == ASSUME NEW h PROVE H(h) = Of(page, h)
BY DEF H, Of

LEMMA NewFields ==
  ASSUME NEW h, NEW parent, NEW value, NEW others, NEW n, n = NewCall(h, parent, value, others)
  PROVE  /\ Record(n) /\ n.handler = h /\ n.parent = parent /\ n.left = Of(page, h).awaits
         /\ n.orphan = FALSE /\ n.stage # "timer"
         /\ Of(page, h).request = "none" => n.stage = "awaiting"
BY HOf DEF NewCall, Record

LEMMA TimerFields ==
  ASSUME NEW T, NEW others, NEW n \in Timers(T, others)
  PROVE  /\ Record(n) /\ n.handler \in T /\ n.parent = "none" /\ n.left = Of(page, n.handler).awaits
         /\ n.orphan = FALSE
<1>1. PICK h \in T : n = [NewCall(h, "none", FALSE, others) EXCEPT !.stage = "timer"]
  BY DEF Timers
<1>2. PICK m : m = NewCall(h, "none", FALSE, others)
  OBVIOUS
<1>3. Record(m) /\ m.handler = h /\ m.parent = "none" /\ m.left = Of(page, h).awaits /\ m.orphan = FALSE
  BY <1>2, HOf DEF NewCall, Record
<1>4. n = [m EXCEPT !.stage = "timer"]
  BY <1>1, <1>2
<1>q. QED
  BY <1>3, <1>4 DEF Record

\* For every handler there is a timer.
LEMMA TimerOf ==
  ASSUME NEW T, NEW others, NEW h \in T
  PROVE  \E n \in Timers(T, others) : n.handler = h
<1>1. PICK m : m = NewCall(h, "none", FALSE, others)
  OBVIOUS
<1>2. Record(m) /\ m.handler = h
  BY <1>1 DEF NewCall, Record
<1>3. [m EXCEPT !.stage = "timer"].handler = h
  BY <1>2 DEF Record
<1>4. [m EXCEPT !.stage = "timer"] \in Timers(T, others)
  BY <1>1 DEF Timers
<1>q. QED
  BY <1>3, <1>4

\* A call that starts is well formed.
LEMMA NewOK ==
  ASSUME Closed(page), NEW n, Record(n), n.handler \in Names(page) \ {"mounted"},
         n.left = Of(page, n.handler).awaits, n.orphan = FALSE
  PROVE  CallOK(page, n) /\ ~Unstarted(page, n)
BY DEF CallOK, Closed, Starts, Remaining, Unstarted

\* What a handler starts.
LEMMA Started ==
  ASSUME Closed(page), NEW h \in Names(page)
  PROVE  /\ Spawns(Of(page, h)) \subseteq Names(page) \ {"mounted"}
         /\ Of(page, h).awaits \in Seq(SUBSET (Names(page) \ {"mounted"}))
BY DEF Closed, Starts

-----------------------------------------------------------------------------
(* Beginning                                                                   *)

\* Calls that notice a race are the same calls.
LEMMA GoodSame ==
  ASSUME NEW p, NEW S, NEW B, NEW F, NEW T, Good(p, S, B), T = {F[c] : c \in S},
         \A c \in S : /\ CallOK(p, F[c]) /\ F[c].handler = c.handler /\ F[c].parent = c.parent
                      /\ F[c].left = c.left /\ F[c].stage = c.stage /\ F[c].orphan = c.orphan
  PROVE  Good(p, T, B)
<1>1. (\A t \in T : \E c \in S : t = F[c]) /\ \A c \in S : F[c] \in T
  OBVIOUS
<1>2. \A c \in T : CallOK(p, c)
  BY <1>1
<1>3. FirstThings(p, T)
  <2>1. ASSUME NEW t \in T, Unstarted(p, t)
        PROVE  T = {t} /\ t.stage = "awaiting" /\ t.parent = "none"
    <3>1. PICK c \in S : t = F[c]
      BY <1>1
    <3>2. Unstarted(p, c)
      BY <2>1, <3>1 DEF Unstarted
    <3>3. S = {c} /\ c.stage = "awaiting" /\ c.parent = "none"
      BY <3>2 DEF Good, FirstThings
    <3>q. QED
      BY <3>1, <3>3
  <2>q. QED
    BY <2>1 DEF FirstThings
<1>4. Held(p, T, B)
  BY <1>1 DEF Good, Held
<1>5. ASSUME NEW w \in Guardians[p] PROVE Apart(p, T, B, w[1], w[2])
  <2>1. GoOn(S, F, T)
    BY DEF GoOn
  <2>q. QED
    BY <2>1, ApartChanged DEF Good
<1>q. QED
  BY <1>2, <1>3, <1>4, <1>5 DEF Good

Flags(new) == {Of(page, c.handler).flag : c \in new} \ {"none"}

LEMMA BeginGood ==
  ASSUME NEW new, NEW others, NEW flags, Begin(new, others, flags),
         Good(page, others \cup new, flags \cup Flags(new))
  PROVE  Good(page, calls', busy')
<1> DEFINE all == others \cup new
           with(c) == UNION {RacedBy(c, d) : d \in all}
           F == [c \in all |-> [c EXCEPT !.raced = @ \cup with(c)]]
<1>1. calls' = {F[c] : c \in all} /\ busy' = flags \cup Flags(new)
  BY HOf DEF Begin, Flags
<1>2. \A c \in all : F[c] = [c EXCEPT !.raced = c.raced \cup with(c)]
  OBVIOUS
<1>3. \A c \in all : CallOK(page, c)
  BY DEF Good
<1>4. \A c \in all : \A X : LET d == [c EXCEPT !.raced = X] IN
        /\ CallOK(page, d) /\ d.handler = c.handler /\ d.parent = c.parent
        /\ d.left = c.left /\ d.stage = c.stage /\ d.orphan = c.orphan
  BY <1>3 DEF CallOK, Record
<1>5. \A c \in all : /\ CallOK(page, F[c]) /\ F[c].handler = c.handler /\ F[c].parent = c.parent
                     /\ F[c].left = c.left /\ F[c].stage = c.stage /\ F[c].orphan = c.orphan
  BY <1>2, <1>4
<1> HIDE DEF F
<1>6. Good(page, {F[c] : c \in all}, flags \cup Flags(new))
  BY <1>5, GoodSame
<1>q. QED
  BY <1>1, <1>6

\* The calls that start for the handlers T.
News(T, parent, others) == {NewCall(h, parent, FALSE, others) : h \in T}

Began(n, T, parent) ==
  /\ Record(n) /\ n.handler \in T /\ n.parent = parent
  /\ n.left = Of(page, n.handler).awaits /\ n.orphan = FALSE /\ n.stage # "timer"

LEMMA NewCalls ==
  ASSUME NEW T, NEW parent, NEW others
  PROVE  \A n \in News(T, parent, others) : Began(n, T, parent)
<1>1. ASSUME NEW h \in T, NEW m, m = NewCall(h, parent, FALSE, others)
      PROVE  Began(m, T, parent)
  BY <1>1, HOf DEF NewCall, Record, Began
<1>q. QED
  BY <1>1 DEF News

\* A call whose request is answered.
Answered(c, e) ==
  /\ Record(e) /\ e.handler = c.handler /\ e.parent = c.parent /\ e.left = c.left /\ e.orphan = c.orphan

LEMMA Answering ==
  ASSUME NEW p, NEW c, CallOK(p, c), c.stage # "awaiting", NEW e, Answered(c, e)
  PROVE  CallOK(p, e)
BY DEF CallOK, Answered

-----------------------------------------------------------------------------
(* The user                                                                    *)

\* Nothing happens before mounted has started the first calls.
LEMMA SettledStarted ==
  ASSUME Good(page, calls, busy), Settled, Closed(page)
  PROVE  \A c \in calls : ~Unstarted(page, c)
<1> SUFFICES ASSUME NEW c \in calls, Unstarted(page, c) PROVE FALSE
  OBVIOUS
<1>1. calls = {c} /\ c.stage = "awaiting" /\ c.parent = "none" /\ c.handler = "mounted"
  BY DEF Good, FirstThings, Unstarted
<1>2. \E d \in calls : d.parent = c.handler
  BY <1>1 DEF Settled
<1>q. QED
  BY <1>1, <1>2

LEMMA PressGood ==
  ASSUME Good(page, calls, busy), Rules(page), NEW h \in Names(page), Press(h)
  PROVE  Good(page, calls', busy')
<1> DEFINE n == NewCall(h, "none", Asked(h), calls)
           C == (busy \ Variable(Of(page, h).flag)) \cup Flags({n})
<1>1. /\ Settled /\ Begin({n}, calls, busy \ Variable(Of(page, h).flag)) /\ h # "mounted" /\ h \notin Pages[page].hidden
      /\ Of(page, h).blocks \cap busy = {}
  BY HOf DEF Press
<1>2. /\ Record(n) /\ n.handler = h /\ n.parent = "none" /\ n.left = Of(page, h).awaits
      /\ n.orphan = FALSE /\ n.stage # "timer"
  BY HOf DEF NewCall, Record
<1> HIDE DEF n
<1>3. Closed(page) /\ \A c \in calls : ~Unstarted(page, c)
  BY <1>1, SettledStarted DEF Rules
<1>4. CallOK(page, n) /\ ~Unstarted(page, n)
  BY <1>1, <1>2, <1>3, NewOK
<1>5. Held(page, calls \cup {n}, C)
  <2>1. Flags({n}) = {Of(page, h).flag} \ {"none"}
    BY <1>2 DEF Flags
  <2>2. \A f \in busy \ Stuck : \E c \in calls : Of(page, c.handler).flag = f /\ (f \in RowFlags => ~c.orphan)
    BY DEF Good, Held
  <2>q. QED
    BY <1>2, <2>1, <2>2 DEF Held
<1>6. ASSUME NEW w \in Guardians[page] PROVE Apart(page, calls \cup {n}, C, w[1], w[2])
  <2> DEFINE g == w[1]
             k == w[2]
  <2>1. Apart(page, calls, busy, g, k) /\ Guards(page, g, k) /\ ~Guarded(page, g, k, "none")
    BY <1>3 DEF Good, Rules, Closed, Guarded
  <2> HIDE DEF g, k
  <2>2. h # k
    BY <1>1, <2>1 DEF Guards
  <2>3. CASE Guarded(page, g, k, h)
    <3>1. g \notin busy /\ g \in C
      BY <1>1, <1>2, <2>1, <2>3 DEF Guards, Guarded, Flags
    <3>2. \A c \in calls : ~Guarded(page, g, k, c.handler) /\ c.handler # k
      BY <1>1, <2>1, <3>1 DEF Apart, GuardedSet, LoadSet, Settled
    <3>q. QED
      BY <1>2, <2>1, <2>3, <3>1, <3>2, ApartPressed DEF g, k
  <2>4. CASE ~Guarded(page, g, k, h)
    <3>1. \A m \in {n} : /\ ~Guarded(page, g, k, m.handler) /\ m.handler # k
                         /\ ~Guarded(page, g, k, m.parent)
      BY <1>2, <2>1, <2>2, <2>4
    <3>2. g \in busy => g \in C
      BY <1>2, <2>1 DEF Guards, Variable, Flags
    <3>q. QED
      BY <2>1, <3>1, <3>2, ApartJoined DEF g, k
  <2>q. QED
    BY <2>3, <2>4
<1>7. Good(page, calls \cup {n}, C)
  BY <1>3, <1>4, <1>5, <1>6 DEF Good, FirstThings
<1>q. QED
  BY <1>1, <1>7, BeginGood

-----------------------------------------------------------------------------
(* The device and its answers                                                  *)

LEMMA ServeGood ==
  ASSUME Good(page, calls, busy), Rules(page), NEW c \in calls, Serve(c)
  PROVE  Good(page, calls', busy')
<1> DEFINE a == [s \in H(c.handler).fills |-> saved'[s]]
           e == [c EXCEPT !.stage = "answered", !.answer = a]
           F == [d \in calls |-> IF d = c THEN e ELSE d]
<1>1. Settled /\ c.stage = "asked" /\ calls' = (calls \ {c}) \cup {e} /\ busy' = busy
  BY DEF Serve
<1>2. \A d \in calls : CallOK(page, d) /\ ~Unstarted(page, d)
  BY <1>1, SettledStarted DEF Rules, Good
<1>3. /\ CallOK(page, e) /\ e.handler = c.handler /\ e.parent = c.parent /\ e.left = c.left
      /\ e.stage = "answered" /\ e.orphan = c.orphan
  <2>1. CallOK(page, c)
    BY <1>2
  <2>2. PICK b : b = a
    OBVIOUS
  <2>3. e = [c EXCEPT !.stage = "answered", !.answer = b]
    BY <2>2
  <2> HIDE DEF e
  <2>4. e = [handler |-> c.handler, parent |-> c.parent, value |-> c.value, answer |-> b, left |-> c.left,
             raced |-> c.raced, orphan |-> c.orphan, id |-> c.id, stage |-> "answered"]
    BY <2>1, <2>3 DEF CallOK, Record
  <2>5. Answered(c, e) /\ e.stage = "answered"
    BY <2>4 DEF Record, Answered
  <2>q. QED
    BY <1>1, <2>1, <2>5, Answering DEF Answered
<1> HIDE DEF e
<1>4. GoOn(calls, F, calls')
  BY <1>1, <1>3 DEF GoOn
<1>5. \A d \in calls' : CallOK(page, d) /\ ~Unstarted(page, d)
  BY <1>1, <1>2, <1>3 DEF Unstarted
<1>6. Held(page, calls', busy')
  BY <1>1, <1>3 DEF Good, Held
<1>7. \A w \in Guardians[page] : Apart(page, calls', busy', w[1], w[2])
  BY <1>1, <1>4, ApartChanged DEF Good
<1>q. QED
  BY <1>5, <1>6, <1>7 DEF Good, FirstThings

LEMMA DeliverGood ==
  ASSUME Good(page, calls, busy), Rules(page), NEW c \in calls, Deliver(c)
  PROVE  Good(page, calls', busy')
<1> DEFINE e == [c EXCEPT !.stage = "awaiting", !.answer = <<>>]
           R == H(c.handler).replaces
           O(d) == [d EXCEPT !.orphan = d.handler \in RowHandlers]
           F == [d \in calls |-> IF d = c THEN e ELSE IF R THEN O(d) ELSE d]
<1>1. /\ Settled /\ c.stage = "answered"
      /\ calls' = (IF R THEN {O(d) : d \in calls \ {c}} ELSE calls \ {c}) \cup {e}
      /\ busy' = IF R THEN busy \ RowFlags ELSE busy
  BY DEF Deliver
<1>2. \A d \in calls : CallOK(page, d) /\ ~Unstarted(page, d)
  BY <1>1, SettledStarted DEF Rules, Good
<1>3. /\ CallOK(page, e) /\ e.handler = c.handler /\ e.parent = c.parent /\ e.left = c.left
      /\ e.stage = "awaiting" /\ e.orphan = c.orphan
  <2>1. CallOK(page, c)
    BY <1>2
  <2>2. PICK b : b = <<>>
    OBVIOUS
  <2>3. e = [c EXCEPT !.stage = "awaiting", !.answer = b]
    BY <2>2
  <2> HIDE DEF e
  <2>4. e = [handler |-> c.handler, parent |-> c.parent, value |-> c.value, answer |-> b, left |-> c.left,
             raced |-> c.raced, orphan |-> c.orphan, id |-> c.id, stage |-> "awaiting"]
    BY <2>1, <2>3 DEF CallOK, Record
  <2>5. Answered(c, e) /\ e.stage = "awaiting"
    BY <2>4 DEF Record, Answered
  <2>q. QED
    BY <1>1, <2>1, <2>5, Answering DEF Answered
<1>4. \A d \in calls : /\ CallOK(page, O(d)) /\ O(d).handler = d.handler /\ O(d).parent = d.parent
                       /\ O(d).left = d.left /\ O(d).stage = d.stage
  BY <1>2 DEF CallOK, Record
<1> HIDE DEF e, O, R
<1>5. \A d \in calls : /\ CallOK(page, F[d]) /\ F[d].handler = d.handler /\ F[d].parent = d.parent
                       /\ F[d].left = d.left /\ (~R => F[d].orphan = d.orphan)
                       /\ (d.stage = "awaiting" => F[d].stage = "awaiting")
                       /\ (d.stage # "timer" => F[d].stage # "timer")
  BY <1>1, <1>2, <1>3, <1>4
<1>6. calls' = {F[d] : d \in calls}
  BY <1>1
<1> HIDE DEF F
<1>7. GoOn(calls, F, calls')
  BY <1>5, <1>6 DEF GoOn
<1>8. \A d \in calls' : CallOK(page, d) /\ ~Unstarted(page, d)
  BY <1>2, <1>5, <1>6 DEF Unstarted
<1>9. Held(page, calls', busy')
  <2>1. ASSUME NEW f \in busy' \ Stuck
        PROVE  \E d \in calls' : Of(page, d.handler).flag = f /\ (f \in RowFlags => ~d.orphan)
    <3>1. f \in busy /\ (R => f \notin RowFlags)
      BY <1>1
    <3>2. PICK d \in calls : Of(page, d.handler).flag = f /\ (f \in RowFlags => ~d.orphan)
      BY <3>1 DEF Good, Held
    <3>3. F[d] \in calls' /\ F[d].handler = d.handler /\ (~R => F[d].orphan = d.orphan)
      BY <1>5, <1>6
    <3>q. QED
      BY <3>1, <3>2, <3>3
  <2>q. QED
    BY <2>1 DEF Held
<1>10. ASSUME NEW w \in Guardians[page] PROVE Apart(page, calls', busy', w[1], w[2])
  <2>1. w[1] \notin RowFlags
    BY DEF Rules, Guards
  <2>q. QED
    BY <1>1, <1>7, <2>1, ApartChanged DEF Good
<1>q. QED
  BY <1>8, <1>9, <1>10 DEF Good, FirstThings

-----------------------------------------------------------------------------
(* Ends                                                                        *)

\* A call ends that is not awaiting another.
LEMMA ApartWithout ==
  ASSUME NEW p, NEW S, NEW B, NEW C, NEW g, NEW k, Apart(p, S, B, g, k), NEW c \in S, CallOK(p, c),
         c.stage # "awaiting" \/ \A d \in S : d.parent # c.handler,
         g \in B /\ g # Of(p, c.handler).flag => g \in C
  PROVE  Apart(p, S \ {c}, C, g, k)
<1>1. CASE Guarded(p, g, k, c.handler)
  BY <1>1, ApartEnded
<1>2. CASE c.handler = k
  BY <1>2, ApartLoaded
<1>3. CASE ~Guarded(p, g, k, c.handler) /\ c.handler # k
  <2>1. g \in B => g \in C
    BY <1>3 DEF Guarded, CallOK
  <2>q. QED
    BY <1>3, <2>1, ApartLeft
<1>q. QED
  BY <1>1, <1>2, <1>3

\* What a handler starts without awaiting it sets no flag that keeps calls apart.
LEMMA SpawnedApart ==
  ASSUME NEW p, Closed(p), NEW g, NEW k, Guards(p, g, k), NEW m \in Names(p), NEW n \in Spawns(Of(p, m))
  PROVE  ~Guarded(p, g, k, n) /\ n # k
<1>1. n \in Names(p)
  BY DEF Closed, Starts
<1>2. ~Guarded(p, g, k, n)
  <2>1. SUFFICES ASSUME Guarded(p, g, k, n) PROVE FALSE
    OBVIOUS
  <2>2. \A i \in Names(p) : Starts(Of(p, i), Names(p) \ {n})
    BY <1>1, <2>1 DEF Guards
  <2>q. QED
    BY <2>2 DEF Starts
<1>3. n # k
  BY <1>1 DEF Guards, Starts
<1>q. QED
  BY <1>2, <1>3

\* Who holds a flag that c does not clear.
LEMMA HeldWithout ==
  ASSUME Held(page, calls, busy), NEW c \in calls, NEW f \in (busy \ Cleared(c)) \ Stuck
  PROVE  \E d \in calls \ {c} : Of(page, d.handler).flag = f /\ (f \in RowFlags => ~d.orphan)
<1>1. PICK d \in calls : Of(page, d.handler).flag = f /\ (f \in RowFlags => ~d.orphan)
  BY DEF Held
<1>2. d # c
  BY <1>1, HOf DEF Cleared, Variable
<1>q. QED
  BY <1>1, <1>2

\* Flags of calls that start are held by them.
LEMMA FlagsOfNew ==
  ASSUME NEW N, \A n \in N : n.orphan = FALSE, NEW f \in Flags(N)
  PROVE  \E n \in N : Of(page, n.handler).flag = f /\ (f \in RowFlags => ~n.orphan)
BY DEF Flags

LEMMA FailGood ==
  ASSUME Good(page, calls, busy), Rules(page), NEW c \in calls, Fail(c)
  PROVE  Good(page, calls', busy')
<1> DEFINE rest == calls \ {c}
           E == Of(page, c.handler).failed
           N == News(E, c.parent, rest)
           W == Timers(Of(page, c.handler).again, rest)
           B == busy \ Cleared(c)
           C == B \cup Flags(N)
<1>1. Settled /\ c.stage \notin {"awaiting", "timer"} /\ Begin(N, rest \cup W, B)
  BY HOf DEF Fail, Asking, News
<1>2. Closed(page) /\ (\A d \in calls : ~Unstarted(page, d)) /\ \A d \in calls : CallOK(page, d)
  BY <1>1, SettledStarted DEF Rules, Good
<1>3. c.handler \in Names(page) /\ Spawns(Of(page, c.handler)) \subseteq Names(page) \ {"mounted"}
  BY <1>2, Started DEF CallOK
<1>4. \A n \in N : /\ Record(n) /\ n.handler \in E /\ n.parent = c.parent
                   /\ n.left = Of(page, n.handler).awaits /\ n.orphan = FALSE
  <2> HIDE DEF E, rest, W
  <2>1. \A n \in News(E, c.parent, rest) : Began(n, E, c.parent)
    BY NewCalls
  <2>q. QED
    BY <2>1 DEF Began
<1>5. \A n \in W : /\ Record(n) /\ n.handler \in Of(page, c.handler).again /\ n.parent = "none"
                   /\ n.left = Of(page, n.handler).awaits /\ n.orphan = FALSE
  BY TimerFields
<1> HIDE DEF N, W
<1>6. \A n \in N \cup W : n.handler \in Spawns(Of(page, c.handler))
  BY <1>4, <1>5 DEF Spawns
<1>7. \A n \in N \cup W : CallOK(page, n) /\ ~Unstarted(page, n)
  BY <1>2, <1>3, <1>4, <1>5, <1>6, NewOK
<1>8. Held(page, (rest \cup W) \cup N, C)
  <2>1. ASSUME NEW f \in C \ Stuck
        PROVE  \E d \in (rest \cup W) \cup N : Of(page, d.handler).flag = f /\ (f \in RowFlags => ~d.orphan)
    <3>1. CASE f \in Flags(N)
      BY <1>4, <3>1, FlagsOfNew
    <3>2. CASE f \in B
      BY <3>2, HeldWithout DEF Good
    <3>q. QED
      BY <3>1, <3>2
  <2>q. QED
    BY <2>1 DEF Held
<1>9. ASSUME NEW w \in Guardians[page] PROVE Apart(page, (rest \cup W) \cup N, C, w[1], w[2])
  <2> DEFINE g == w[1]
             k == w[2]
  <2>1. Apart(page, calls, busy, g, k) /\ Guards(page, g, k) /\ ~Guarded(page, g, k, "none")
    BY <1>2 DEF Good, Rules, Closed, Guarded
  <2> HIDE DEF g, k
  <2>2. Apart(page, rest, B, g, k)
    <3>1. g \in busy /\ g # Of(page, c.handler).flag => g \in B
      BY <2>1, HOf DEF Cleared, Variable, Guards
    <3>q. QED
      BY <1>1, <1>2, <2>1, <3>1, ApartWithout
  <2>3. \A n \in N \cup W : ~Guarded(page, g, k, n.handler) /\ n.handler # k
    BY <1>2, <1>3, <1>6, <2>1, SpawnedApart
  <2>4. ASSUME NEW n \in N, Guarded(page, g, k, n.parent)
        PROVE  /\ g \in B /\ ~AwaitsOnly(page, n.parent, k)
               /\ \E r \in rest : r.handler = n.parent /\ r.stage = "awaiting"
    <3>1. n.parent = c.parent /\ n.handler \in Of(page, c.handler).failed
      BY <1>4
    <3>2. c.handler # k
      BY <1>3, <2>1, <3>1 DEF Guards, Starts, Spawns
    <3>3. PICK r \in calls : r.handler = c.parent /\ r.stage = "awaiting"
      BY <2>1, <2>4, <3>1 DEF Apart, ParentsStay
    <3>4. r # c
      BY <1>1, <3>3
    <3>5. ~Guarded(page, g, k, c.handler)
      BY <2>1, <2>4, <3>1, <3>3, <3>4 DEF Apart, OneGuarded
    <3>6. g \in busy
      BY <2>1, <2>4, <3>1, <3>3 DEF Apart, GuardedSet
    <3>7. g \in B
      BY <1>3, <2>1, <3>2, <3>5, <3>6, HOf DEF Guarded, Guards, Cleared, Variable
    <3>8. ~AwaitsOnly(page, n.parent, k)
      BY <2>1, <2>4, <3>1, <3>2, <3>3 DEF Apart, OnlyLoads
    <3>q. QED
      BY <3>1, <3>3, <3>4, <3>7, <3>8
  <2>5. \A n \in N \cup W : Guarded(page, g, k, n.parent) =>
          /\ g \in B /\ ~AwaitsOnly(page, n.parent, k)
          /\ \E r \in rest : r.handler = n.parent /\ r.stage = "awaiting"
    BY <1>5, <2>1, <2>4
  <2>6. Apart(page, rest \cup (N \cup W), C, g, k)
    BY <2>2, <2>3, <2>5, ApartJoined
  <2>7. rest \cup (N \cup W) = (rest \cup W) \cup N
    OBVIOUS
  <2>q. QED
    BY <2>6, <2>7 DEF g, k
<1>10. Good(page, (rest \cup W) \cup N, C)
  BY <1>2, <1>7, <1>8, <1>9 DEF Good, FirstThings
<1>q. QED
  BY <1>1, <1>10, BeginGood

LEMMA FireGood ==
  ASSUME Good(page, calls, busy), Rules(page), NEW c \in calls, Fire(c)
  PROVE  Good(page, calls', busy')
<1> DEFINE rest == calls \ {c}
           n == NewCall(c.handler, "none", FALSE, rest)
           C == busy \cup Flags({n})
<1>1. Settled /\ c.stage = "timer" /\ Begin({n}, rest, busy)
  BY DEF Fire
<1>2. Closed(page) /\ (\A d \in calls : ~Unstarted(page, d)) /\ \A d \in calls : CallOK(page, d)
  BY <1>1, SettledStarted DEF Rules, Good
<1>3. c.handler \in Names(page) \ {"mounted"}
  BY <1>1, <1>2 DEF CallOK
<1>4. /\ Record(n) /\ n.handler = c.handler /\ n.parent = "none"
      /\ n.left = Of(page, n.handler).awaits /\ n.orphan = FALSE
  BY HOf DEF NewCall, Record
<1> HIDE DEF n
<1>5. CallOK(page, n) /\ ~Unstarted(page, n)
  BY <1>2, <1>3, <1>4, NewOK
<1>6. Held(page, rest \cup {n}, C)
  <2>1. Flags({n}) = {Of(page, c.handler).flag} \ {"none"}
    BY <1>4 DEF Flags
  <2>2. \A f \in busy \ Stuck : \E d \in calls : Of(page, d.handler).flag = f /\ (f \in RowFlags => ~d.orphan)
    BY DEF Good, Held
  <2>q. QED
    BY <1>4, <2>1, <2>2 DEF Held
<1>7. ASSUME NEW w \in Guardians[page] PROVE Apart(page, rest \cup {n}, C, w[1], w[2])
  <2> DEFINE g == w[1]
             k == w[2]
  <2>1. Apart(page, calls, busy, g, k) /\ ~Guarded(page, g, k, "none")
    BY <1>2 DEF Good, Closed, Guarded
  <2> HIDE DEF g, k
  <2>2. ~Guarded(page, g, k, c.handler) /\ c.handler # k
    BY <1>1, <2>1 DEF Apart, NoTimers
  <2>3. Apart(page, rest, busy, g, k)
    BY <2>1, <2>2, ApartLeft
  <2>4. \A m \in {n} : /\ ~Guarded(page, g, k, m.handler) /\ m.handler # k
                       /\ ~Guarded(page, g, k, m.parent)
    BY <1>4, <2>1, <2>2
  <2>q. QED
    BY <2>3, <2>4, ApartJoined DEF g, k
<1>8. Good(page, rest \cup {n}, C)
  BY <1>2, <1>5, <1>6, <1>7 DEF Good, FirstThings
<1>q. QED
  BY <1>1, <1>8, BeginGood

LEMMA OverGood ==
  ASSUME Good(page, calls, busy), Rules(page), NEW c \in calls, Resume(c), c.left = <<>>
  PROVE  Good(page, calls', busy')
<1> DEFINE rest == calls \ {c}
           L == Of(page, c.handler).later \cup Of(page, c.handler).again
           W == Timers(L, rest)
           E == Of(page, c.handler).starts
           N == News(E, "none", rest \cup W)
           B == IF ~Of(page, c.handler).keeps THEN busy \ Cleared(c) ELSE busy
           C == B \cup Flags(N)
<1>1. c.stage = "awaiting" /\ (\A d \in calls : d.parent # c.handler) /\ Begin(N, rest \cup W, B)
  BY HOf DEF Resume, News
<1>2. Closed(page) /\ \A d \in calls : CallOK(page, d)
  BY DEF Rules, Good
<1>3. c.handler \in Names(page) /\ Spawns(Of(page, c.handler)) \subseteq Names(page) \ {"mounted"}
  BY <1>2, Started DEF CallOK
<1>4. \A n \in N : /\ Record(n) /\ n.handler \in E /\ n.parent = "none"
                   /\ n.left = Of(page, n.handler).awaits /\ n.orphan = FALSE
  <2> HIDE DEF E, rest, W
  <2>1. \A n \in News(E, "none", rest \cup W) : Began(n, E, "none")
    BY NewCalls
  <2>q. QED
    BY <2>1 DEF Began
<1>5. \A n \in W : /\ Record(n) /\ n.parent = "none"
                   /\ n.handler \in L /\ n.left = Of(page, n.handler).awaits /\ n.orphan = FALSE
  <2> HIDE DEF L, rest
  <2>q. QED
    BY TimerFields
<1>6. \A h \in Of(page, c.handler).later : \E n \in W : n.handler = h
  <2>1. \A h \in L : \E n \in W : n.handler = h
    <3> HIDE DEF L, rest
    <3>q. QED
      BY TimerOf
  <2>q. QED
    BY <2>1
<1> HIDE DEF N, W
<1>7. \A n \in N \cup W : n.handler \in Spawns(Of(page, c.handler))
  BY <1>4, <1>5 DEF Spawns
<1>8. \A n \in N \cup W : CallOK(page, n) /\ ~Unstarted(page, n)
  BY <1>2, <1>3, <1>4, <1>5, <1>7, NewOK
<1>9. Held(page, (rest \cup W) \cup N, C)
  <2>1. ASSUME NEW f \in C \ Stuck
        PROVE  \E d \in (rest \cup W) \cup N : Of(page, d.handler).flag = f /\ (f \in RowFlags => ~d.orphan)
    <3>1. CASE f \in Flags(N)
      BY <1>4, <3>1, FlagsOfNew
    <3>2. CASE f \in B /\ ~Of(page, c.handler).keeps
      BY <3>2, HeldWithout DEF Good
    <3>3. CASE f \in B /\ Of(page, c.handler).keeps
      <4>1. PICK d \in calls : Of(page, d.handler).flag = f /\ (f \in RowFlags => ~d.orphan)
        BY <3>3 DEF Good, Held
      <4>2. CASE d = c
        <5>1. \E m \in Of(page, c.handler).later : Of(page, m).flag = f
          BY <1>3, <3>3, <4>1, <4>2 DEF Rules, HandedOn
        <5>q. QED
          BY <1>5, <1>6, <5>1
      <4>q. QED
        BY <4>1, <4>2
    <3>q. QED
      BY <3>1, <3>2, <3>3
  <2>q. QED
    BY <2>1 DEF Held
<1>10. ASSUME NEW w \in Guardians[page] PROVE Apart(page, (rest \cup W) \cup N, C, w[1], w[2])
  <2> DEFINE g == w[1]
             k == w[2]
  <2>1. Apart(page, calls, busy, g, k) /\ Guards(page, g, k) /\ ~Guarded(page, g, k, "none")
    BY <1>2 DEF Good, Rules, Closed, Guarded
  <2> HIDE DEF g, k
  <2>2. Apart(page, rest, B, g, k)
    <3>1. g \in busy /\ g # Of(page, c.handler).flag => g \in B
      BY <2>1, HOf DEF Cleared, Variable, Guards
    <3>q. QED
      BY <1>1, <1>2, <2>1, <3>1, ApartWithout
  <2>3. \A n \in N \cup W : ~Guarded(page, g, k, n.handler) /\ n.handler # k
    BY <1>2, <1>3, <1>7, <2>1, SpawnedApart
  <2>4. \A n \in N \cup W : ~Guarded(page, g, k, n.parent)
    BY <1>4, <1>5, <2>1
  <2>5. Apart(page, rest \cup (N \cup W), C, g, k)
    BY <2>2, <2>3, <2>4, ApartJoined
  <2>6. rest \cup (N \cup W) = (rest \cup W) \cup N
    OBVIOUS
  <2>q. QED
    BY <2>5, <2>6 DEF g, k
<1>11. FirstThings(page, (rest \cup W) \cup N)
  BY <1>8 DEF Good, FirstThings
<1>12. Good(page, (rest \cup W) \cup N, C)
  BY <1>2, <1>8, <1>9, <1>10, <1>11 DEF Good
<1>q. QED
  BY <1>1, <1>12, BeginGood

-----------------------------------------------------------------------------
(* Going on                                                                    *)

\* What is still awaited is some of what the handler awaits.
LEMMA StillAwaited ==
  ASSUME NEW A, NEW T, A \in Seq(SUBSET T), NEW L, NEW U, L \in Seq(U), L # <<>>, Remaining(A, L)
  PROVE  /\ Head(L) \subseteq T /\ Tail(L) \in Seq(U) /\ Remaining(A, Tail(L)) /\ Tail(L) # A
         /\ (L # A => \E j \in DOMAIN A : j > 1 /\ Head(L) = A[j])
         /\ \E j \in DOMAIN A : Head(L) = A[j]
<1>1. /\ Len(L) \in Nat /\ Len(L) > 0 /\ Len(A) \in Nat /\ DOMAIN L = 1..Len(L) /\ DOMAIN A = 1..Len(A)
      /\ Head(L) = L[1]
  OBVIOUS
<1>2. /\ Tail(L) \in Seq(U) /\ Len(Tail(L)) = Len(L) - 1 /\ DOMAIN Tail(L) = 1..Len(Tail(L))
      /\ \A i \in DOMAIN Tail(L) : Tail(L)[i] = L[i + 1] /\ i + 1 \in DOMAIN L
  BY <1>1
<1>3. Len(Tail(L)) < Len(A)
  BY <1>1, <1>2 DEF Remaining
<1>4. \A i \in DOMAIN Tail(L) : \E j \in DOMAIN A : j > 1 /\ Tail(L)[i] = A[j]
  <2>1. CASE L = A
    <3>1. \A i \in DOMAIN Tail(L) : i + 1 \in DOMAIN A /\ i + 1 > 1 /\ Tail(L)[i] = A[i + 1]
      BY <1>1, <1>2, <2>1
    <3>q. QED
      BY <3>1
  <2>2. CASE L # A
    <3>1. \A i \in DOMAIN L : \E j \in DOMAIN A : j > 1 /\ L[i] = A[j]
      BY <2>2 DEF Remaining
    <3>q. QED
      BY <1>2, <3>1
  <2>q. QED
    BY <2>1, <2>2
<1>5. L # A => \E j \in DOMAIN A : j > 1 /\ Head(L) = A[j]
  BY <1>1 DEF Remaining
<1>6. \E j \in DOMAIN A : Head(L) = A[j]
  BY <1>1, <1>5
<1>7. Head(L) \subseteq T
  BY <1>1, <1>6
<1>q. QED
  BY <1>2, <1>3, <1>4, <1>5, <1>6, <1>7 DEF Remaining

\* What only a load is left to be awaited of.
LEMMA OnlyOne ==
  ASSUME NEW A, NEW k, A = <<{k}>>, NEW L, NEW U, L \in Seq(U), L # <<>>, Remaining(A, L)
  PROVE  Head(L) = {k} /\ Tail(L) = <<>>
<1>1. Len(A) = 1 /\ Len(L) > 0
  OBVIOUS
<1>2. L = A
  BY <1>1 DEF Remaining
<1>q. QED
  BY <1>2

\* A call goes on to the calls N, which it awaits.
OnTo(c, N) ==
  /\ \A n \in N : n.handler \in Head(c.left) /\ n.parent = c.handler /\ n.stage # "timer"
  /\ \A m, n \in N : m.handler = n.handler => m = n

LEMMA ApartNext ==
  ASSUME NEW p, NEW S, NEW B, NEW C, NEW g, NEW k, Apart(p, S, B, g, k), Guards(p, g, k), Closed(p),
         FirstThings(p, S), NEW c \in S, CallOK(p, c), c.stage = "awaiting", c.left # <<>>,
         NEW F, NEW T, GoOn(S, F, T), \A d \in S : d # c => F[d] = d, F[c].left = Tail(c.left),
         NEW N, OnTo(c, N),
         g \in B => g \in C, \A n \in N : Of(p, n.handler).flag = g => g \in C
  PROVE  Apart(p, T \cup N, C, g, k)
<1> DEFINE A == Of(p, c.handler).awaits
           M == {n \in N : n.handler # k}
<1> USE DEF OnTo
<1>1. /\ c.handler \in Names(p) /\ c.left \in Seq(SUBSET (Names(p) \ {"mounted"})) /\ Remaining(A, c.left)
  BY DEF CallOK
<1>2. \A X : Starts(Of(p, c.handler), X) => Head(c.left) \subseteq X
  <2>1. ASSUME NEW X, Starts(Of(p, c.handler), X) PROVE Head(c.left) \subseteq X
    <3>1. A \in Seq(SUBSET X)
      BY <2>1 DEF Starts
    <3> HIDE DEF A
    <3>q. QED
      BY <1>1, <3>1, StillAwaited
  <2>q. QED
    BY <2>1
<1>3. Head(c.left) \subseteq Names(p) \ {"mounted"}
  BY <1>1, <1>2 DEF Closed
<1>4. \A n \in N : ~Guarded(p, g, k, n.handler)
  <2>1. SUFFICES ASSUME NEW n \in N, Guarded(p, g, k, n.handler) PROVE FALSE
    OBVIOUS
  <2>2. Starts(Of(p, c.handler), Names(p) \ {n.handler})
    BY <1>1, <2>1 DEF Guards
  <2>q. QED
    BY <1>2, <2>2
<1>5. AwaitsOnly(p, c.handler, k) => Head(c.left) = {k} /\ Tail(c.left) = <<>>
  <2>1. SUFFICES ASSUME A = <<{k}>> PROVE Head(c.left) = {k} /\ Tail(c.left) = <<>>
    BY DEF AwaitsOnly
  <2> HIDE DEF A
  <2>q. QED
    BY <1>1, <2>1, OnlyOne
<1>6. F[c] \in T /\ F[c].handler = c.handler /\ F[c].stage = "awaiting"
  BY DEF GoOn
<1>7. Apart(p, T, B, g, k)
  BY ApartChanged
<1>8. Apart(p, T \cup M, C, g, k)
  <2>1. \A n \in M : /\ ~Guarded(p, g, k, n.handler) /\ n.handler # k
                     /\ Guarded(p, g, k, n.parent) =>
                          /\ g \in B /\ ~AwaitsOnly(p, n.parent, k)
                          /\ \E r \in T : r.handler = n.parent /\ r.stage = "awaiting"
    <3>1. Guarded(p, g, k, c.handler) => g \in B
      BY DEF Apart, GuardedSet
    <3>q. QED
      BY <1>4, <1>5, <1>6, <3>1
  <2> HIDE DEF M
  <2>q. QED
    BY <1>7, <2>1, ApartJoined
<1>9. CASE M = N
  BY <1>8, <1>9
<1>10. CASE M # N
  <2>1. PICK n \in N : n.handler = k
    BY <1>10
  <2>2. N = M \cup {n}
    BY <2>1
  <2>3. k \in Names(p) /\ k # "mounted" /\ k \in Head(c.left)
    BY <1>3, <2>1
  <2>4. Of(p, k).flag = g /\ g \in C
    BY <2>1, <2>3 DEF Guards
  <2>5. ~Starts(Of(p, c.handler), Names(p) \ {k})
    BY <1>2, <2>3
  <2>6. \/ c.handler = "mounted" /\ \A i \in DOMAIN A : i > 1 => k \notin A[i]
        \/ Guarded(p, g, k, c.handler) /\ AwaitsOnly(p, c.handler, k)
    BY <1>1, <2>3, <2>5 DEF Guards
  <2>7. ASSUME c.handler = "mounted", \A i \in DOMAIN A : i > 1 => k \notin A[i] PROVE S = {c}
    <3>1. A \in Seq(SUBSET Names(p))
      BY <1>1 DEF Closed, Starts
    <3>2. c.left = A
      <4> HIDE DEF A
      <4>1. c.left # A => \E j \in DOMAIN A : j > 1 /\ Head(c.left) = A[j]
        BY <1>1, <3>1, StillAwaited
      <4>q. QED
        BY <2>3, <2>7, <4>1
    <3>q. QED
      BY <2>7, <3>2 DEF FirstThings, Unstarted
  <2>8. \A d \in T \cup M : d.handler # k
    <3>1. \A d \in S : d.handler # k
      BY <2>3, <2>6, <2>7 DEF Apart, LoadAwaited
    <3>q. QED
      BY <3>1 DEF GoOn
  <2>9. ASSUME NEW r \in T \cup M, Guarded(p, g, k, r.handler)
        PROVE  n.parent = r.handler /\ r.stage = "awaiting" /\ r.left = <<>> /\ AwaitsOnly(p, r.handler, k)
    <3>1. PICK d \in S : r = F[d] /\ r.handler = d.handler
      BY <1>4, <2>9 DEF GoOn
    <3>2. ~Guarded(p, g, k, "mounted")
      BY DEF Guarded, Guards, Closed
    <3>3. Guarded(p, g, k, c.handler) /\ AwaitsOnly(p, c.handler, k)
      BY <2>6, <2>7, <2>9, <3>1, <3>2
    <3>4. d = c
      BY <2>9, <3>1, <3>3 DEF Apart, OneGuarded
    <3>q. QED
      BY <1>5, <1>6, <3>1, <3>3, <3>4
  <2>10. Guarded(p, g, k, n.parent) => \E r \in T \cup M : r.handler = n.parent
    BY <1>6, <2>1
  <2>11. n.stage # "timer"
    OBVIOUS
  <2> HIDE DEF M
  <2>12. Apart(p, (T \cup M) \cup {n}, C, g, k)
    BY <1>8, <2>1, <2>4, <2>8, <2>9, <2>10, <2>11, ApartLoads
  <2>13. (T \cup M) \cup {n} = T \cup N
    BY <2>2
  <2>q. QED
    BY <2>12, <2>13
<1>q. QED
  BY <1>9, <1>10

\* Each handler starts once.
LEMMA NewOnce ==
  ASSUME NEW T, NEW parent, NEW others, NEW m \in News(T, parent, others), NEW n \in News(T, parent, others),
         m.handler = n.handler
  PROVE  m = n
<1>1. PICK h \in T : m = NewCall(h, parent, FALSE, others)
  BY DEF News
<1>2. PICK i \in T : n = NewCall(i, parent, FALSE, others)
  BY DEF News
<1>3. m.handler = h
  BY <1>1 DEF NewCall
<1>4. n.handler = i
  BY <1>2 DEF NewCall
<1>q. QED
  BY <1>1, <1>2, <1>3, <1>4

LEMMA GoesOnGood ==
  ASSUME Good(page, calls, busy), Rules(page), NEW c \in calls, Resume(c), c.left # <<>>
  PROVE  Good(page, calls', busy')
<1> DEFINE e == [c EXCEPT !.left = Tail(c.left)]
           F == [d \in calls |-> IF d = c THEN e ELSE d]
           rest == (calls \ {c}) \cup {e}
           E == Head(c.left)
           N == News(E, c.handler, rest)
           C == busy \cup Flags(N)
<1>1. c.stage = "awaiting" /\ Begin(N, rest, busy)
  BY DEF Resume, News
<1>2. Closed(page) /\ (\A d \in calls : CallOK(page, d)) /\ FirstThings(page, calls)
  BY DEF Rules, Good
<1>3. /\ Record(e) /\ e.handler = c.handler /\ e.parent = c.parent /\ e.orphan = c.orphan
      /\ e.stage = c.stage /\ e.left = Tail(c.left)
  BY <1>2 DEF CallOK, Record
<1> HIDE DEF e
<1>4. /\ E \subseteq Names(page) \ {"mounted"} /\ CallOK(page, e) /\ ~Unstarted(page, e)
  <2> DEFINE A == Of(page, c.handler).awaits
             V == Names(page) \ {"mounted"}
           U == SUBSET V
  <2>1. A \in Seq(U) /\ c.left \in Seq(U) /\ Remaining(A, c.left)
    BY <1>2, Started DEF CallOK
  <2>2. E \subseteq Names(page) \ {"mounted"} /\ Tail(c.left) \in Seq(U) /\ Remaining(A, Tail(c.left))
        /\ Tail(c.left) # A
    <3> HIDE DEF A, V
    <3>1. E \subseteq V /\ Tail(c.left) \in Seq(U) /\ Remaining(A, Tail(c.left)) /\ Tail(c.left) # A
      BY <2>1, StillAwaited
    <3>q. QED
      BY <3>1 DEF V
  <2>q. QED
    BY <1>1, <1>2, <1>3, <2>2 DEF CallOK, Unstarted
<1>5. \A n \in N : /\ Record(n) /\ n.handler \in E /\ n.parent = c.handler
                   /\ n.left = Of(page, n.handler).awaits /\ n.orphan = FALSE /\ n.stage # "timer"
  <2> HIDE DEF E, rest
  <2>1. \A n \in News(E, c.handler, rest) : Began(n, E, c.handler)
    BY NewCalls
  <2>q. QED
    BY <2>1 DEF Began
<1>6. \A m, n \in N : m.handler = n.handler => m = n
  <2> HIDE DEF E, rest
  <2>q. QED
    BY NewOnce
<1> HIDE DEF N, E
<1>7. \A n \in N : CallOK(page, n) /\ ~Unstarted(page, n)
  BY <1>2, <1>4, <1>5, NewOK
<1>8. FirstThings(page, rest \cup N) /\ \A d \in rest \cup N : CallOK(page, d)
  <2>1. \A d \in calls \ {c} : ~Unstarted(page, d)
    BY <1>2 DEF FirstThings
  <2>q. QED
    BY <1>2, <1>4, <1>7, <2>1 DEF FirstThings
<1>9. Held(page, rest \cup N, C)
  <2>1. ASSUME NEW f \in C \ Stuck
        PROVE  \E d \in rest \cup N : Of(page, d.handler).flag = f /\ (f \in RowFlags => ~d.orphan)
    <3>1. CASE f \in Flags(N)
      BY <1>5, <3>1, FlagsOfNew
    <3>2. CASE f \in busy
      BY <1>3, <3>2 DEF Good, Held
    <3>q. QED
      BY <3>1, <3>2
  <2>q. QED
    BY <2>1 DEF Held
<1>10. ASSUME NEW w \in Guardians[page] PROVE Apart(page, rest \cup N, C, w[1], w[2])
  <2> DEFINE g == w[1]
             k == w[2]
  <2>1. Apart(page, calls, busy, g, k) /\ Guards(page, g, k) /\ g # "none"
    BY DEF Good, Rules, Guards
  <2> HIDE DEF g, k
  <2>2. GoOn(calls, F, rest)
    BY <1>1, <1>3 DEF GoOn
  <2>3. (\A d \in calls : d # c => F[d] = d) /\ F[c].left = Tail(c.left)
    BY <1>3
  <2>4. \A n \in N : Of(page, n.handler).flag = g => g \in C
    BY <2>1 DEF Flags
  <2>5. OnTo(c, N)
    BY <1>5, <1>6 DEF E, OnTo
  <2>6. CallOK(page, c) /\ (g \in busy => g \in C)
    BY <1>2
  <2> HIDE DEF F, rest, C
  <2>7. Apart(page, rest \cup N, C, g, k)
    BY <1>1, <1>2, <2>1, <2>2, <2>3, <2>4, <2>5, <2>6, ApartNext
  <2>q. QED
    BY <2>7 DEF g, k
<1>11. Good(page, rest \cup N, C)
  BY <1>8, <1>9, <1>10 DEF Good
<1>q. QED
  BY <1>1, <1>11, BeginGood

-----------------------------------------------------------------------------
(* The invariant                                                               *)

IInv == page \in DOMAIN Pages /\ Good(page, calls, busy)

LEMMA InitIInv == Init => IInv
<1> SUFFICES ASSUME Init PROVE IInv
  OBVIOUS
<1> DEFINE n == NewCall("mounted", "none", FALSE, {})
<1>1. page \in DOMAIN Pages /\ busy = {} /\ calls = {n}
  BY DEF Init
<1>2. Rules(page)
  BY <1>1, PagesObey
<1>3. /\ "mounted" \in Names(page) /\ Of(page, "mounted").request = "none" /\ Of(page, "mounted").flag = "none"
      /\ Of(page, "mounted").awaits \in Seq(SUBSET (Names(page) \ {"mounted"})) /\ "none" \notin Names(page)
  BY <1>2, Started DEF Rules, Closed
<1>4. /\ Record(n) /\ n.handler = "mounted" /\ n.parent = "none" /\ n.left = Of(page, "mounted").awaits
      /\ n.orphan = FALSE /\ n.stage = "awaiting"
  BY <1>3, HOf DEF NewCall, Record
<1> HIDE DEF n
<1>5. CallOK(page, n)
  BY <1>3, <1>4 DEF CallOK, Remaining
<1>6. FirstThings(page, calls) /\ Held(page, calls, busy)
  BY <1>1, <1>4 DEF FirstThings, Held
<1>7. ASSUME NEW w \in Guardians[page] PROVE Apart(page, calls, busy, w[1], w[2])
  <2> DEFINE g == w[1]
             k == w[2]
  <2>1. Guards(page, g, k)
    BY <1>2 DEF Rules
  <2> HIDE DEF g, k
  <2>2. ~Guarded(page, g, k, "mounted") /\ ~Guarded(page, g, k, "none") /\ k # "mounted"
    BY <1>3, <2>1 DEF Guarded, Guards
  <2>3. OneGuarded(page, calls, g, k) /\ OneLoad(calls, k) /\ GuardedSet(page, calls, busy, g, k)
    BY <1>1, <1>4, <2>2 DEF OneGuarded, OneLoad, GuardedSet
  <2>4. LoadSet(calls, busy, g, k) /\ LoadAwaited(page, calls, g, k) /\ NoTimers(page, calls, g, k)
    BY <1>1, <1>4, <2>2 DEF LoadSet, LoadAwaited, NoTimers
  <2>5. OnlyLoads(page, calls, g, k) /\ ParentsStay(page, calls, g, k)
    BY <1>1, <1>4, <2>2 DEF OnlyLoads, ParentsStay
  <2>q. QED
    BY <2>3, <2>4, <2>5 DEF Apart, g, k
<1>q. QED
  BY <1>1, <1>5, <1>6, <1>7 DEF IInv, Good

LEMMA NextIInv == IInv /\ [Next]_vars => IInv'
<1> SUFFICES ASSUME IInv, [Next]_vars PROVE IInv'
  OBVIOUS
<1>1. page \in DOMAIN Pages /\ Good(page, calls, busy) /\ Rules(page)
  BY PagesObey DEF IInv
<1>2. page' = page
  BY DEF Next, vars, Press, Edit, Serve, Deliver, Fail, Resume, Fire
<1>3. Good(page, calls', busy')
  <2>1. ASSUME NEW h \in DOMAIN Pages[page].handlers, Press(h) PROVE Good(page, calls', busy')
    BY <1>1, <2>1, PressGood DEF Names
  <2>2. ASSUME NEW s \in DOMAIN Pages[page].inputs, Edit(s) PROVE Good(page, calls', busy')
    BY <1>1, <2>2 DEF Edit
  <2>3. ASSUME NEW c \in calls, Serve(c) PROVE Good(page, calls', busy')
    BY <1>1, <2>3, ServeGood
  <2>4. ASSUME NEW c \in calls, Deliver(c) PROVE Good(page, calls', busy')
    BY <1>1, <2>4, DeliverGood
  <2>5. ASSUME NEW c \in calls, Fail(c) PROVE Good(page, calls', busy')
    BY <1>1, <2>5, FailGood
  <2>6. ASSUME NEW c \in calls, Resume(c) PROVE Good(page, calls', busy')
    <3>1. CASE c.left = <<>>
      BY <1>1, <2>6, <3>1, OverGood
    <3>2. CASE c.left # <<>>
      BY <1>1, <2>6, <3>2, GoesOnGood
    <3>q. QED
      BY <3>1, <3>2
  <2>7. ASSUME NEW c \in calls, Fire(c) PROVE Good(page, calls', busy')
    BY <1>1, <2>7, FireGood
  <2>8. CASE UNCHANGED vars
    BY <1>1, <2>8 DEF vars
  <2>q. QED
    BY <2>1, <2>2, <2>3, <2>4, <2>5, <2>6, <2>7, <2>8 DEF Next
<1>q. QED
  BY <1>1, <1>2, <1>3 DEF IInv

LEMMA AlwaysIInv == Spec => []IInv
BY InitIInv, NextIInv, PTL DEF Spec

-----------------------------------------------------------------------------
(* The theorems                                                                *)

\* A flag that is set belongs to a call that has not ended, whatever failed and in whatever order
\* answers came: no control of a page stays disabled for a call that is over (the finally of
\* every handler of the pages, and the timers some of them leave their flag to).
THEOREM FlagsEndWithCalls == Spec => []FlagsHeld
<1>1. IInv => FlagsHeld
  BY HOf DEF IInv, Good, Held, FlagsHeld
<1>q. QED
  BY <1>1, AlwaysIInv, PTL

\* No two calls that are under way save the same setting, but for the settings in Racy: the flags
\* that disable the controls of the pages are enough, although loads clear some of them.
THEOREM SavesAreKeptApart == Spec => []OneSaver
<1>1. IInv => OneSaver
  <2> SUFFICES ASSUME IInv, NEW c \in calls, NEW d \in calls, NEW s \in RacedBy(c, d),
                      s \in H(c.handler).saves, s \in H(d.handler).saves, <<page, s>> \notin Racy
               PROVE  FALSE
    BY DEF OneSaver
  <2>1. c # d
    BY DEF RacedBy
  <2>2. /\ c.handler \in Names(page) /\ s \in Of(page, c.handler).saves
        /\ d.handler \in Names(page) /\ s \in Of(page, d.handler).saves
    BY HOf DEF IInv, Good, CallOK
  <2>3. Sole(page, s)
    BY <2>2, PagesObey DEF IInv, Rules, KeptApart
  <2>4. PICK w \in Guardians[page] : \A m \in Names(page) : s \in Of(page, m).saves => Guarded(page, w[1], w[2], m)
    BY <2>3 DEF Sole
  <2>5. OneGuarded(page, calls, w[1], w[2])
    BY DEF IInv, Good, Apart
  <2>q. QED
    BY <2>1, <2>2, <2>4, <2>5 DEF OneGuarded
<1>q. QED
  BY <1>1, AlwaysIInv, PTL

-----------------------------------------------------------------------------
(* The invariant of one setting s: it is x on the device and y on the page     *)

Saves(p, c, s) == Asking(c) /\ s \in Of(p, c.handler).saves
About(p, c, s) == Asking(c) /\ s \in Of(p, c.handler).fills \cup Of(p, c.handler).saves

Rival(p, c, d, s) == c # d /\ About(p, c, s) /\ About(p, d, s) /\ (Saves(p, c, s) \/ Saves(p, d, s))

\* What calls that are under way know of themselves.
CallFits(p, c) ==
  /\ c.value \in BOOLEAN
  /\ c.stage = "timer" => Of(p, c.handler).saves = {}
  /\ c.stage = "answered" => \A s \in Of(p, c.handler).fills : c.answer[s] \in BOOLEAN
  /\ c.stage # "awaiting" => c.left = Of(p, c.handler).awaits
  /\ c.orphan => c.handler \in RowHandlers

\* Rivals know of each other, and the page is in doubt as long as one of them saves.
Noticed(p, S, D, s) ==
  /\ \A c, d \in S : Rival(p, c, d, s) => s \in c.raced /\ s \in D
  /\ \A c \in S : Saves(p, c, s) /\ s \in c.raced => s \in D

\* An answer that has no rival is what the device has.
Current(p, S, s, x) ==
  \A c \in S : c.stage = "answered" /\ s \notin c.raced =>
    /\ s \in Of(p, c.handler).fills => c.answer[s] = x
    /\ s \in Of(p, c.handler).saves => c.value = x

\* A value that is shown before its answer is shown until then.
Ahead(p, S, E, s, y) ==
  \A c \in S : Saves(p, c, s) /\ s \notin c.raced /\ s \notin E /\ Of(p, c.handler).shows # "answer" =>
    c.value = y

\* A call that lost its row has met the load that replaced it.
Replaced(p, S, s) ==
  \A c \in S : c.orphan /\ About(p, c, s) => s \in c.raced

\* c will load the setting.
Due(p, c, s) ==
  \/ c.stage # "awaiting" /\ Reloads(p, c.handler, s)
  \/ /\ c.stage = "awaiting" /\ s \in Of(p, c.handler).saves
     /\ \E m \in Followers(Of(p, c.handler), c.left) : Reloads(p, m, s)

\* c will save it; until it is served the device has the other value.
Changes(p, c, s, x, y) ==
  /\ Saves(p, c, s)
  /\ c.stage = "asked" /\ Of(p, c.handler).shows # "form" => c.value # x
  /\ Of(p, c.handler).shows = "answer" => c.value # y

Explained(p, S, s, x, y) ==
  \/ \E c \in S : Due(p, c, s)
  \/ \E c \in S : Changes(p, c, s, x, y)
  \/ x = y /\ \A c \in S : ~Saves(p, c, s)

Fits(p, S, D, K, E, s, x, y) ==
  /\ Noticed(p, S, D, s) /\ Current(p, S, s, x) /\ Ahead(p, S, E, s, y) /\ Replaced(p, S, s)
  /\ s \in E => Typed(p, s)
  /\ s \in K \ (D \cup E) => Explained(p, S, s, x, y)

Agrees(p, S, X, Y, D, K, E) ==
  /\ K \subseteq SettingsOf(p)
  /\ X \in [SettingsOf(p) -> BOOLEAN] /\ Y \in [SettingsOf(p) -> BOOLEAN]
  /\ \A c \in S : CallFits(p, c)
  /\ \A s \in SettingsOf(p) : Fits(p, S, D, K, E, s, X[s], Y[s])

Agreeing == Agrees(page, calls, saved, shown, doubt, known, edited)

\* A switch bound one-way shows the opposite of the page's data only while a call saves it, or in
\* doubt.
Flipping == \A s \in flipped : s \in Bare /\ (s \in doubt \/ \E c \in calls : Saves(page, c, s))

-----------------------------------------------------------------------------
(* Calls that begin                                                            *)

\* e differs from c in its races only.
Alike(e, c) ==
  /\ e.handler = c.handler /\ e.value = c.value /\ e.answer = c.answer /\ e.left = c.left
  /\ e.orphan = c.orphan /\ e.stage = c.stage

LEMMA AlikeIs ==
  ASSUME NEW e, NEW c, Alike(e, c), NEW s
  PROVE  /\ Asking(e) <=> Asking(c)
         /\ Saves(page, e, s) <=> Saves(page, c, s)
         /\ About(page, e, s) <=> About(page, c, s)
         /\ Due(page, e, s) <=> Due(page, c, s)
         /\ \A x, y : Changes(page, e, s, x, y) <=> Changes(page, c, s, x, y)
BY DEF Alike, Asking, Saves, About, Due, Changes

LEMMA RacedIs ==
  ASSUME NEW c, NEW d, NEW s
  PROVE  s \in RacedBy(c, d) <=> Rival(page, c, d, s)
BY HOf DEF RacedBy, Touched, Rival, About, Saves

\* The calls T are those of S, which have noticed their rivals in S.
Noting(S, F, T) ==
  /\ T = {F[c] : c \in S}
  /\ \A c \in S : /\ Alike(F[c], c)
                  /\ \A s : s \in F[c].raced <=> s \in c.raced \/ \E d \in S : Rival(page, c, d, s)

LEMMA BeginNoting ==
  ASSUME NEW new, NEW others, NEW flags, Begin(new, others, flags), \A c \in others \cup new : Record(c)
  PROVE  \E F : Noting(others \cup new, F, calls')
<1> DEFINE all == others \cup new
           with(c) == UNION {RacedBy(c, d) : d \in all}
           F == [c \in all |-> [c EXCEPT !.raced = @ \cup with(c)]]
<1>1. calls' = {F[c] : c \in all}
  BY DEF Begin
<1>2. \A c \in all : F[c] = [c EXCEPT !.raced = c.raced \cup with(c)]
  OBVIOUS
<1>3. \A c, s : s \in with(c) <=> \E d \in all : Rival(page, c, d, s)
  BY RacedIs
<1>4. \A c \in all : \A X : Alike([c EXCEPT !.raced = X], c) /\ [c EXCEPT !.raced = X].raced = X
  BY DEF Record, Alike
<1> HIDE DEF with
<1>5. \A c \in all : Alike(F[c], c) /\ F[c].raced = c.raced \cup with(c)
  BY <1>2, <1>4
<1> HIDE DEF F
<1>6. Noting(all, F, calls')
  BY <1>1, <1>3, <1>5 DEF Noting
<1>q. QED
  BY <1>6

\* c has no rival that it knows or will notice.
Alone(S, c, s) == s \notin c.raced /\ \A d \in S : ~Rival(page, c, d, s)

LEMMA NotingFits ==
  ASSUME NEW S, NEW F, NEW T, Noting(S, F, T), NEW s, NEW D, NEW K, NEW E, NEW x, NEW y,
         \A c, d \in S : Rival(page, c, d, s) => s \in D,
         \A c \in S : Saves(page, c, s) /\ s \in c.raced => s \in D,
         \A c \in S : Alone(S, c, s) =>
           /\ c.stage = "answered" /\ s \in Of(page, c.handler).fills => c.answer[s] = x
           /\ c.stage = "answered" /\ s \in Of(page, c.handler).saves => c.value = x
           /\ Saves(page, c, s) /\ s \notin E /\ Of(page, c.handler).shows # "answer" => c.value = y,
         Replaced(page, S, s), s \in E => Typed(page, s),
         s \in K \ (D \cup E) => Explained(page, S, s, x, y)
  PROVE  Fits(page, T, D, K, E, s, x, y)
<1>1. \A t \in T : \E c \in S : t = F[c]
  BY DEF Noting
<1>2. \A c \in S : F[c] \in T /\ Alike(F[c], c)
  BY DEF Noting
<1>3. \A c \in S : /\ Asking(F[c]) <=> Asking(c)
                   /\ Saves(page, F[c], s) <=> Saves(page, c, s)
                   /\ About(page, F[c], s) <=> About(page, c, s)
                   /\ Due(page, F[c], s) <=> Due(page, c, s)
                   /\ Changes(page, F[c], s, x, y) <=> Changes(page, c, s, x, y)
  BY <1>2, AlikeIs
<1>4. \A c, d \in S : Rival(page, F[c], F[d], s) => Rival(page, c, d, s)
  BY <1>3 DEF Rival
<1>5. \A c \in S : s \in F[c].raced <=> ~Alone(S, c, s)
  BY DEF Noting, Alone
<1>6. \A c \in S : Saves(page, c, s) /\ ~Alone(S, c, s) => s \in D
  BY DEF Alone
<1>7. Noticed(page, T, D, s)
  <2>1. ASSUME NEW t \in T, NEW u \in T, Rival(page, t, u, s) PROVE s \in t.raced /\ s \in D
    <3>1. PICK c \in S : t = F[c]
      BY <1>1
    <3>2. PICK d \in S : u = F[d]
      BY <1>1
    <3>3. Rival(page, c, d, s)
      BY <1>4, <2>1, <3>1, <3>2
    <3>q. QED
      BY <1>5, <3>1, <3>3 DEF Alone
  <2>2. ASSUME NEW t \in T, Saves(page, t, s), s \in t.raced PROVE s \in D
    <3>1. PICK c \in S : t = F[c]
      BY <1>1
    <3>q. QED
      BY <1>3, <1>5, <1>6, <2>2, <3>1
  <2>q. QED
    BY <2>1, <2>2 DEF Noticed
<1>8. Current(page, T, s, x)
  <2>1. ASSUME NEW t \in T, t.stage = "answered", s \notin t.raced
        PROVE  /\ s \in Of(page, t.handler).fills => t.answer[s] = x
               /\ s \in Of(page, t.handler).saves => t.value = x
    <3>1. PICK c \in S : t = F[c]
      BY <1>1
    <3>2. Alone(S, c, s) /\ Alike(t, c)
      BY <1>2, <1>5, <2>1, <3>1
    <3>q. QED
      BY <2>1, <3>2 DEF Alike
  <2>q. QED
    BY <2>1 DEF Current
<1>9. Ahead(page, T, E, s, y)
  <2>1. ASSUME NEW t \in T, Saves(page, t, s), s \notin t.raced, s \notin E,
               Of(page, t.handler).shows # "answer"
        PROVE  t.value = y
    <3>1. PICK c \in S : t = F[c]
      BY <1>1
    <3>2. Alone(S, c, s) /\ Alike(t, c) /\ Saves(page, c, s)
      BY <1>2, <1>3, <1>5, <2>1, <3>1
    <3>q. QED
      BY <2>1, <3>2 DEF Alike
  <2>q. QED
    BY <2>1 DEF Ahead
<1>10. Replaced(page, T, s)
  <2>1. ASSUME NEW t \in T, t.orphan, About(page, t, s) PROVE s \in t.raced
    <3>1. PICK c \in S : t = F[c]
      BY <1>1
    <3>2. Alike(t, c) /\ (About(page, t, s) <=> About(page, c, s)) /\ (s \in c.raced => s \in t.raced)
      BY <1>2, <1>3, <1>5, <3>1 DEF Alone
    <3>q. QED
      BY <2>1, <3>2 DEF Alike, Replaced
  <2>q. QED
    BY <2>1 DEF Replaced
<1>11. ASSUME s \in K \ (D \cup E) PROVE Explained(page, T, s, x, y)
  <2>1. Explained(page, S, s, x, y)
    BY <1>11
  <2>2. (\A c \in S : ~Saves(page, c, s)) => \A t \in T : ~Saves(page, t, s)
    BY <1>1, <1>3
  <2>q. QED
    BY <1>2, <1>3, <2>1, <2>2 DEF Explained
<1>q. QED
  BY <1>7, <1>8, <1>9, <1>10, <1>11 DEF Fits

LEMMA NotingCalls ==
  ASSUME NEW S, NEW F, NEW T, Noting(S, F, T), \A c \in S : CallFits(page, c)
  PROVE  \A t \in T : CallFits(page, t)
BY DEF Noting, Alike, CallFits

LEMMA RivalsRace ==
  ASSUME NEW new, NEW others, NEW c \in new, NEW d \in others \cup new, NEW s,
         Rival(page, c, d, s) \/ Rival(page, d, c, s)
  PROVE  s \in Races(new, others)
<1>1. Rival(page, c, d, s)
  BY DEF Rival
<1>2. s \in RacedBy(c, d)
  BY <1>1, RacedIs
<1>q. QED
  BY <1>2 DEF Races

\* A call as it begins.
Fresh(n, h, value) ==
  /\ Record(n) /\ n.handler = h /\ n.value = value /\ n.raced = {} /\ n.orphan = FALSE
  /\ n.left = Of(page, h).awaits /\ n.stage # "timer"
  /\ n.stage = "answered" => Of(page, h).fills \cup Of(page, h).saves = {}
  /\ Of(page, h).request # "none" /\ Of(page, h).fills \cup Of(page, h).saves # {} => n.stage = "asked"

LEMMA NewIs ==
  ASSUME NEW h, NEW parent, NEW value, NEW others, NEW n, n = NewCall(h, parent, value, others)
  PROVE  Fresh(n, h, value)
BY HOf DEF NewCall, Record, Fresh

LEMMA TimerIs ==
  ASSUME NEW T, NEW others, NEW n \in Timers(T, others)
  PROVE  /\ Record(n) /\ n.handler \in T /\ n.value = FALSE /\ n.raced = {} /\ n.orphan = FALSE
         /\ n.left = Of(page, n.handler).awaits /\ n.stage = "timer"
<1>1. PICK h \in T : n = [NewCall(h, "none", FALSE, others) EXCEPT !.stage = "timer"]
  BY DEF Timers
<1>2. PICK m : m = NewCall(h, "none", FALSE, others)
  OBVIOUS
<1>3. /\ Record(m) /\ m.handler = h /\ m.value = FALSE /\ m.raced = {} /\ m.orphan = FALSE
      /\ m.left = Of(page, h).awaits
  BY <1>2, HOf DEF NewCall, Record
<1>4. n = [m EXCEPT !.stage = "timer"]
  BY <1>1, <1>2
<1>q. QED
  BY <1>3, <1>4 DEF Record

\* The settings of a page are those of its handlers.
LEMMA SettingsAre ==
  ASSUME NEW n \in Names(page)
  PROVE  Of(page, n).fills \cup Of(page, n).saves \cup Of(page, n).edits \subseteq SettingsOf(page)
BY DEF SettingsOf, Names, Of

-----------------------------------------------------------------------------
(* The user                                                                    *)

\* What a control asks for: what the form shows, or the other value.
LEMMA AskedIs ==
  ASSUME shown \in [SettingsOf(page) -> BOOLEAN], Mends(page), NEW h \in Names(page)
  PROVE  /\ Asked(h) \in BOOLEAN
         /\ \A s \in Of(page, h).saves :
              /\ Of(page, h).shows = "form" => Asked(h) = shown[s]
              /\ Of(page, h).shows # "form" => Asked(h) # shown[s]
<1>1. CASE Of(page, h).saves = {}
  <2>1. Asked(h) = FALSE
    BY <1>1, HOf DEF Asked
  <2>q. QED
    BY <1>1, <2>1
<1>2. CASE Of(page, h).saves # {}
  <2>1. PICK s \in Of(page, h).saves : Of(page, h).saves = {s}
    BY <1>2 DEF Mends, Saver
  <2>2. s \in SettingsOf(page) /\ shown[s] \in BOOLEAN
    BY <2>1, SettingsAre
  <2>3. (CHOOSE z \in Of(page, h).saves : TRUE) = s
    BY <2>1
  <2>4. Of(page, h).shows = "form" => Asked(h) = shown[s]
    BY <1>2, <2>3, HOf DEF Asked
  <2>5. Of(page, h).shows # "form" => Asked(h) = ~shown[s]
    BY <1>2, <2>3, HOf DEF Asked
  <2>6. (~shown[s]) \in BOOLEAN /\ (~shown[s]) # shown[s]
    BY <2>2
  <2>q. QED
    BY <2>1, <2>2, <2>4, <2>5, <2>6
<1>q. QED
  BY <1>1, <1>2

LEMMA SwitchShows ==
  ASSUME NEW X, shown \in [X -> BOOLEAN], NEW T, NEW s \in X
  PROVE  /\ [z \in DOMAIN shown |-> shown[z] # (z \in T)] \in [X -> BOOLEAN]
         /\ s \in T => [z \in DOMAIN shown |-> shown[z] # (z \in T)][s] # shown[s]
         /\ s \notin T => [z \in DOMAIN shown |-> shown[z] # (z \in T)][s] = shown[s]
<1>1. DOMAIN shown = X
  OBVIOUS
<1>q. QED
  BY <1>1

LEMMA PressAgrees ==
  ASSUME Good(page, calls, busy), Mends(page), Agreeing, NEW h \in Names(page), Press(h)
  PROVE  Agrees(page, calls', saved', shown', doubt', known', edited')
<1> DEFINE m == NewCall(h, "none", Asked(h), calls)
<1>1. PICK n : n = m
  OBVIOUS
<1>2. /\ Begin({n}, calls, busy \ Variable(Of(page, h).flag)) /\ doubt' = doubt \cup Races({n}, calls)
      /\ saved' = saved /\ known' = known /\ edited' = edited \ Of(page, h).saves
      /\ shown' = IF Of(page, h).shows = "switch"
                  THEN [z \in DOMAIN shown |-> shown[z] # (z \in Of(page, h).saves)] ELSE shown
  BY <1>1, HOf DEF Press, device
<1>3. /\ Record(n) /\ n.handler = h /\ n.value = Asked(h) /\ n.raced = {} /\ n.orphan = FALSE
      /\ n.left = Of(page, h).awaits /\ n.stage # "timer"
      /\ n.stage = "answered" => Of(page, h).fills \cup Of(page, h).saves = {}
      /\ Of(page, h).saves # {} => n.stage = "asked"
  <2>1. Of(page, h).saves # {} => Of(page, h).request # "none"
    BY DEF Mends, Saver
  <2>2. Fresh(n, h, Asked(h))
    <3> HIDE DEF m
    <3>1. n = NewCall(h, "none", Asked(h), calls)
      BY <1>1 DEF m
    <3>q. QED
      BY <3>1, NewIs
  <2>q. QED
    BY <2>1, <2>2 DEF Fresh
<1> HIDE DEF m
<1>4. /\ known \subseteq SettingsOf(page) /\ saved \in [SettingsOf(page) -> BOOLEAN]
      /\ shown \in [SettingsOf(page) -> BOOLEAN] /\ \A c \in calls : CallFits(page, c)
      /\ \A s \in SettingsOf(page) : Fits(page, calls, doubt, known, edited, s, saved[s], shown[s])
  BY DEF Agreeing, Agrees
<1>5. /\ n.value \in BOOLEAN
      /\ \A s \in Of(page, h).saves : /\ Of(page, h).shows = "form" => n.value = shown[s]
                                      /\ Of(page, h).shows # "form" => n.value # shown[s]
  BY <1>3, <1>4, AskedIs
<1>6. /\ shown' \in [SettingsOf(page) -> BOOLEAN]
      /\ \A s \in SettingsOf(page) :
           /\ s \in Of(page, h).saves /\ Of(page, h).shows = "switch" => shown'[s] = n.value
           /\ s \notin Of(page, h).saves \/ Of(page, h).shows # "switch" => shown'[s] = shown[s]
  <2>1. CASE Of(page, h).shows = "switch"
    <3>1. shown' \in [SettingsOf(page) -> BOOLEAN]
      BY <1>2, <1>4, <2>1
    <3>2. \A s \in SettingsOf(page) : /\ s \in Of(page, h).saves => shown'[s] # shown[s]
                                      /\ s \notin Of(page, h).saves => shown'[s] = shown[s]
      BY <1>2, <1>4, <2>1, SwitchShows
    <3>3. ASSUME NEW s \in SettingsOf(page), s \in Of(page, h).saves PROVE shown'[s] = n.value
      <4>1. shown'[s] # shown[s] /\ n.value # shown[s]
        BY <1>5, <2>1, <3>2, <3>3
      <4>2. shown'[s] \in BOOLEAN /\ shown[s] \in BOOLEAN
        BY <1>4, <3>1
      <4>q. QED
        BY <1>5, <4>1, <4>2
    <3>q. QED
      BY <2>1, <3>1, <3>2, <3>3
  <2>2. CASE Of(page, h).shows # "switch"
    BY <1>2, <1>4, <2>2
  <2>q. QED
    BY <2>1, <2>2
<1>7. \A c \in calls \cup {n} : Record(c)
  BY <1>3 DEF Good, CallOK
<1>8. PICK F : Noting(calls \cup {n}, F, calls')
  BY <1>2, <1>7, BeginNoting
<1>9. \A c \in calls' : CallFits(page, c)
  <2>1. CallFits(page, n)
    BY <1>3, <1>5 DEF CallFits
  <2>q. QED
    BY <1>4, <1>8, <2>1, NotingCalls
<1>10. ASSUME NEW s \in SettingsOf(page)
       PROVE  Fits(page, calls', doubt', known', edited', s, saved'[s], shown'[s])
  <2> DEFINE x == saved[s]
             y == shown'[s]
             S == calls \cup {n}
  <2>1. /\ Noticed(page, calls, doubt, s) /\ Current(page, calls, s, x)
        /\ Ahead(page, calls, edited, s, shown[s]) /\ Replaced(page, calls, s)
        /\ s \in edited => Typed(page, s)
        /\ s \in known \ (doubt \cup edited) => Explained(page, calls, s, x, shown[s])
    BY <1>4 DEF Fits
  <2>2. \A d \in S : Rival(page, n, d, s) \/ Rival(page, d, n, s) => s \in doubt'
    BY <1>2, RivalsRace
  <2>3. \A c, d \in S : Rival(page, c, d, s) => s \in doubt'
    BY <1>2, <2>1, <2>2 DEF Noticed
  <2>4. \A c \in S : Saves(page, c, s) /\ s \in c.raced => s \in doubt'
    BY <1>2, <1>3, <2>1 DEF Noticed
  <2>5. s \in Of(page, h).saves =>
          Saves(page, n, s) /\ \A d \in calls : Saves(page, d, s) /\ d # n => Rival(page, d, n, s)
    BY <1>3 DEF Saves, Asking, Rival, About
  <2>6. ASSUME NEW c \in S, Alone(S, c, s)
        PROVE  /\ c.stage = "answered" /\ s \in Of(page, c.handler).fills => c.answer[s] = x
               /\ c.stage = "answered" /\ s \in Of(page, c.handler).saves => c.value = x
               /\ Saves(page, c, s) /\ s \notin edited' /\ Of(page, c.handler).shows # "answer" => c.value = y
    <3>1. CASE c = n
      <4>1. ASSUME s \in Of(page, h).saves, Of(page, h).shows # "answer" PROVE n.value = y
        <5>1. Of(page, h).shows \in {"form", "switch"}
          BY <4>1 DEF Mends, Saver, Mended
        <5>q. QED
          BY <1>5, <1>6, <4>1, <5>1
      <4>q. QED
        BY <1>3, <3>1, <4>1 DEF Saves
    <3>2. CASE c # n
      <4>1. c \in calls /\ s \notin c.raced
        BY <3>2, <2>6 DEF Alone
      <4>2. ASSUME Saves(page, c, s), s \notin edited', Of(page, c.handler).shows # "answer" PROVE c.value = y
        <5>1. s \notin Of(page, h).saves
          BY <2>5, <2>6, <3>2, <4>1, <4>2 DEF Alone
        <5>2. y = shown[s] /\ s \notin edited
          BY <1>2, <1>6, <4>2, <5>1
        <5>q. QED
          BY <2>1, <4>1, <4>2, <5>2 DEF Ahead
      <4>q. QED
        BY <2>1, <4>1, <4>2 DEF Current
    <3>q. QED
      BY <3>1, <3>2
  <2>7. Replaced(page, S, s)
    BY <1>3, <2>1 DEF Replaced
  <2>8. s \in edited' => Typed(page, s)
    BY <1>2, <2>1
  <2>9. ASSUME s \in known \ (doubt' \cup edited') PROVE Explained(page, S, s, x, y)
    <3>1. s \notin doubt
      BY <1>2, <2>9
    <3>2. CASE s \notin Of(page, h).saves
      <4>1. s \notin edited /\ y = shown[s]
        BY <1>2, <1>6, <2>9, <3>2
      <4>2. Explained(page, calls, s, x, y) /\ ~Saves(page, n, s)
        BY <1>3, <2>1, <2>9, <3>1, <3>2, <4>1 DEF Saves
      <4>q. QED
        BY <4>2 DEF Explained
    <3>3. CASE s \in Of(page, h).saves /\ Of(page, h).shows = "form"
      <4>1. Changes(page, n, s, x, y)
        BY <1>3, <2>5, <3>3 DEF Changes
      <4>q. QED
        BY <4>1 DEF Explained
    <3>4. CASE s \in Of(page, h).saves /\ Of(page, h).shows # "form"
      <4>1. s \notin edited
        BY <2>1, <3>4 DEF Typed
      <4>2. Explained(page, calls, s, x, shown[s])
        BY <2>1, <2>9, <3>1, <4>1
      <4>3. Of(page, h).shows = "answer" => n.value # y
        BY <1>5, <1>6, <3>4
      <4>4. CASE \E c \in calls : Due(page, c, s)
        BY <4>4 DEF Explained
      <4>5. CASE \E c \in calls : Changes(page, c, s, x, shown[s])
        <5>1. PICK c \in calls : Changes(page, c, s, x, shown[s])
          BY <4>5
        <5>2. c = n
          BY <2>2, <2>5, <2>9, <3>4, <5>1 DEF Changes
        <5>3. Changes(page, n, s, x, y)
          BY <1>3, <4>3, <5>1, <5>2 DEF Changes
        <5>q. QED
          BY <5>3 DEF Explained
      <4>6. CASE x = shown[s]
        <5>1. Changes(page, n, s, x, y)
          BY <1>3, <1>5, <2>5, <3>4, <4>3, <4>6 DEF Changes
        <5>q. QED
          BY <5>1 DEF Explained
      <4>q. QED
        BY <4>2, <4>4, <4>5, <4>6 DEF Explained
    <3>q. QED
      BY <3>2, <3>3, <3>4
  <2> HIDE DEF x, y, S
  <2>10. Noting(S, F, calls')
    BY <1>8 DEF S
  <2>11. Fits(page, calls', doubt', known, edited', s, x, y)
    BY <2>3, <2>4, <2>6, <2>7, <2>8, <2>9, <2>10, NotingFits
  <2>q. QED
    BY <1>2, <2>11 DEF x, y
<1>q. QED
  BY <1>2, <1>4, <1>6, <1>9, <1>10 DEF Agrees

LEMMA EditAgrees ==
  ASSUME Mends(page), Agreeing, NEW r \in DOMAIN Pages[page].inputs, Edit(r)
  PROVE  Agrees(page, calls', saved', shown', doubt', known', edited')
<1>1. /\ calls' = calls /\ saved' = saved /\ doubt' = doubt /\ known' = known
      /\ shown' = [shown EXCEPT ![r] = ~@] /\ edited' = edited \cup {r}
  BY DEF Edit, device
<1>2. /\ known \subseteq SettingsOf(page) /\ saved \in [SettingsOf(page) -> BOOLEAN]
      /\ shown \in [SettingsOf(page) -> BOOLEAN] /\ \A c \in calls : CallFits(page, c)
      /\ \A s \in SettingsOf(page) : Fits(page, calls, doubt, known, edited, s, saved[s], shown[s])
  BY DEF Agreeing, Agrees
<1>3. /\ shown' \in [SettingsOf(page) -> BOOLEAN]
      /\ \A s \in SettingsOf(page) \ {r} : shown'[s] = shown[s]
  BY <1>1, <1>2
<1>4. ASSUME NEW s \in SettingsOf(page)
      PROVE  Fits(page, calls, doubt, known, edited \cup {r}, s, saved[s], shown'[s])
  <2>1. Fits(page, calls, doubt, known, edited, s, saved[s], shown[s])
    BY <1>2
  <2>2. CASE s = r
    <3>1. Typed(page, s)
      BY <2>2 DEF Mends
    <3>q. QED
      BY <2>1, <2>2, <3>1 DEF Fits, Ahead
  <2>3. CASE s # r
    <3>1. shown'[s] = shown[s] /\ (s \in edited \cup {r} <=> s \in edited)
      BY <1>3, <2>3
    <3>2. Ahead(page, calls, edited \cup {r}, s, shown[s])
      BY <2>1, <3>1 DEF Fits, Ahead
    <3>q. QED
      BY <2>1, <3>1, <3>2 DEF Fits
  <2>q. QED
    BY <2>2, <2>3
<1>q. QED
  BY <1>1, <1>2, <1>3, <1>4 DEF Agrees

-----------------------------------------------------------------------------
(* The device                                                                  *)

LEMMA ServeAgrees ==
  ASSUME Good(page, calls, busy), Agreeing, NEW c \in calls, Serve(c)
  PROVE  Agrees(page, calls', saved', shown', doubt', known', edited')
<1>1. PICK a : a = [s \in Of(page, c.handler).fills |-> saved'[s]]
  OBVIOUS
<1>2. PICK e : e = [c EXCEPT !.stage = "answered", !.answer = a]
  OBVIOUS
<1>3. /\ c.stage = "asked" /\ calls' = (calls \ {c}) \cup {e}
      /\ saved' = [s \in DOMAIN saved |-> IF s \in Of(page, c.handler).saves THEN c.value ELSE saved[s]]
      /\ shown' = shown /\ doubt' = doubt /\ known' = known /\ edited' = edited
  BY <1>1, <1>2, HOf DEF Serve, form
<1>4. /\ e.handler = c.handler /\ e.value = c.value /\ e.answer = a /\ e.left = c.left
      /\ e.raced = c.raced /\ e.orphan = c.orphan /\ e.stage = "answered"
  <2>1. Record(c)
    BY DEF Good, CallOK
  <2>q. QED
    BY <1>2, <2>1 DEF Record
<1>5. /\ known \subseteq SettingsOf(page) /\ saved \in [SettingsOf(page) -> BOOLEAN]
      /\ shown \in [SettingsOf(page) -> BOOLEAN] /\ \A d \in calls : CallFits(page, d)
      /\ \A s \in SettingsOf(page) : Fits(page, calls, doubt, known, edited, s, saved[s], shown[s])
  BY DEF Agreeing, Agrees
<1>6. /\ saved' \in [SettingsOf(page) -> BOOLEAN]
      /\ \A s \in SettingsOf(page) : /\ s \in Of(page, c.handler).saves => saved'[s] = c.value
                                     /\ s \notin Of(page, c.handler).saves => saved'[s] = saved[s]
  <2>1. c.value \in BOOLEAN
    BY <1>5 DEF CallFits
  <2>q. QED
    BY <1>3, <1>5, <2>1
<1>7. \A d \in calls' : CallFits(page, d)
  <2>1. Of(page, c.handler).fills \subseteq SettingsOf(page)
    BY SettingsAre DEF Good, CallOK
  <2>2. \A s \in Of(page, c.handler).fills : e.answer[s] \in BOOLEAN
    BY <1>1, <1>4, <1>6, <2>1
  <2>3. CallFits(page, e)
    BY <1>3, <1>4, <1>5, <2>2 DEF CallFits
  <2>q. QED
    BY <1>3, <1>5, <2>3
<1>8. ASSUME NEW s \in SettingsOf(page)
      PROVE  Fits(page, calls', doubt, known, edited, s, saved'[s], shown[s])
  <2>1. /\ Noticed(page, calls, doubt, s) /\ Current(page, calls, s, saved[s])
        /\ Ahead(page, calls, edited, s, shown[s]) /\ Replaced(page, calls, s)
        /\ s \in edited => Typed(page, s)
        /\ s \in known \ (doubt \cup edited) => Explained(page, calls, s, saved[s], shown[s])
    BY <1>5 DEF Fits
  <2>2. /\ Saves(page, e, s) <=> Saves(page, c, s)
        /\ About(page, e, s) <=> About(page, c, s)
        /\ Due(page, e, s) <=> Due(page, c, s)
        /\ Saves(page, c, s) <=> s \in Of(page, c.handler).saves
    BY <1>3, <1>4 DEF Saves, About, Asking, Due
  <2>3. \A d \in calls \ {c} : s \in Of(page, c.handler).saves /\ About(page, d, s) => s \in d.raced /\ s \in doubt
    BY <2>1, <2>2 DEF Noticed, Rival, Saves, About
  <2>4. \A d \in calls \ {c} : /\ Rival(page, d, e, s) => Rival(page, d, c, s)
                               /\ Rival(page, e, d, s) => Rival(page, c, d, s)
    BY <2>2 DEF Rival
  <2>5. Noticed(page, calls', doubt, s)
    <3>1. ASSUME NEW t \in calls', NEW u \in calls', Rival(page, t, u, s) PROVE s \in t.raced /\ s \in doubt
      <4>1. t # u
        BY <3>1 DEF Rival
      <4>q. QED
        BY <1>3, <1>4, <2>1, <2>4, <3>1, <4>1 DEF Noticed
    <3>2. ASSUME NEW t \in calls', Saves(page, t, s), s \in t.raced PROVE s \in doubt
      BY <1>3, <1>4, <2>1, <2>2, <3>2 DEF Noticed
    <3>q. QED
      BY <3>1, <3>2 DEF Noticed
  <2>6. Current(page, calls', s, saved'[s])
    <3>1. ASSUME NEW t \in calls', t.stage = "answered", s \notin t.raced
          PROVE  /\ s \in Of(page, t.handler).fills => t.answer[s] = saved'[s]
                 /\ s \in Of(page, t.handler).saves => t.value = saved'[s]
      <4>1. CASE t = e
        BY <1>1, <1>4, <1>6, <4>1
      <4>2. CASE t # e
        <5>1. t \in calls \ {c}
          BY <1>3, <4>2
        <5>2. s \in Of(page, t.handler).fills \cup Of(page, t.handler).saves => saved'[s] = saved[s]
          BY <1>6, <2>3, <3>1, <5>1 DEF About, Asking
        <5>q. QED
          BY <2>1, <3>1, <5>1, <5>2 DEF Current
      <4>q. QED
        BY <4>1, <4>2
    <3>q. QED
      BY <3>1 DEF Current
  <2>7. Ahead(page, calls', edited, s, shown[s])
    BY <1>3, <1>4, <2>1, <2>2 DEF Ahead
  <2>8. Replaced(page, calls', s)
    BY <1>3, <1>4, <2>1, <2>2 DEF Replaced
  <2>9. ASSUME s \in known \ (doubt \cup edited) PROVE Explained(page, calls', s, saved'[s], shown[s])
    <3>1. Explained(page, calls, s, saved[s], shown[s])
      BY <2>1, <2>9
    <3>2. CASE \E d \in calls : Due(page, d, s)
      BY <1>3, <2>2, <3>2 DEF Explained
    <3>3. CASE \E d \in calls : Changes(page, d, s, saved[s], shown[s])
      <4>1. PICK d \in calls : Changes(page, d, s, saved[s], shown[s])
        BY <3>3
      <4>2. CASE d = c
        <5>1. Changes(page, e, s, saved'[s], shown[s])
          BY <1>3, <1>4, <2>2, <4>1, <4>2 DEF Changes
        <5>q. QED
          BY <1>3, <5>1 DEF Explained
      <4>3. CASE d # c
        <5>1. s \notin Of(page, c.handler).saves
          BY <2>3, <2>9, <4>1, <4>3 DEF Changes, Saves, About
        <5>2. saved'[s] = saved[s] /\ d \in calls'
          BY <1>3, <1>6, <4>3, <5>1
        <5>q. QED
          BY <4>1, <5>2 DEF Explained
      <4>q. QED
        BY <4>2, <4>3
    <3>4. CASE saved[s] = shown[s] /\ \A d \in calls : ~Saves(page, d, s)
      <4>1. saved'[s] = shown[s] /\ \A d \in calls' : ~Saves(page, d, s)
        BY <1>3, <1>6, <2>2, <3>4
      <4>q. QED
        BY <4>1 DEF Explained
    <3>q. QED
      BY <3>1, <3>2, <3>3, <3>4 DEF Explained
  <2>q. QED
    BY <2>1, <2>5, <2>6, <2>7, <2>8, <2>9 DEF Fits
<1>q. QED
  BY <1>3, <1>5, <1>6, <1>7, <1>8 DEF Agrees

-----------------------------------------------------------------------------
(* Answers                                                                     *)

\* A call that ends: e of c, the others may have lost their row.
Ends(c, e, R, F) ==
  /\ e.handler = c.handler /\ e.value = c.value /\ e.left = c.left /\ e.raced = c.raced
  /\ e.orphan = c.orphan /\ e.stage = "awaiting"
  /\ F[c] = e
  /\ \A d \in calls \ {c} :
       /\ F[d].handler = d.handler /\ F[d].value = d.value /\ F[d].answer = d.answer
       /\ F[d].left = d.left /\ F[d].raced = d.raced /\ F[d].stage = d.stage
       /\ F[d].orphan => d.orphan \/ (R /\ d.handler \in RowHandlers)

LEMMA Ending ==
  ASSUME Good(page, calls, busy), NEW c \in calls, Deliver(c)
  PROVE  \E e, F : Ends(c, e, Of(page, c.handler).replaces, F) /\ calls' = {F[d] : d \in calls}
<1> DEFINE R == Of(page, c.handler).replaces
           O(d) == [d EXCEPT !.orphan = d.handler \in RowHandlers]
<1>1. PICK a : a = <<>>
  OBVIOUS
<1>2. PICK e : e = [c EXCEPT !.stage = "awaiting", !.answer = a]
  OBVIOUS
<1> DEFINE F == [d \in calls |-> IF d = c THEN e ELSE IF R THEN O(d) ELSE d]
<1>3. calls' = (IF R THEN {O(d) : d \in calls \ {c}} ELSE calls \ {c}) \cup {e}
  BY <1>1, <1>2, HOf DEF Deliver
<1>4. \A d \in calls : Record(d)
  BY DEF Good, CallOK
<1>5. /\ e.handler = c.handler /\ e.value = c.value /\ e.left = c.left /\ e.raced = c.raced
      /\ e.orphan = c.orphan /\ e.stage = "awaiting"
  BY <1>2, <1>4 DEF Record
<1>6. \A d \in calls : /\ O(d).handler = d.handler /\ O(d).value = d.value /\ O(d).answer = d.answer
                       /\ O(d).left = d.left /\ O(d).raced = d.raced /\ O(d).stage = d.stage
                       /\ O(d).orphan => d.handler \in RowHandlers
  <2>1. ASSUME NEW d \in calls, NEW o, NEW b, b = (d.handler \in RowHandlers), o = [d EXCEPT !.orphan = b]
        PROVE  /\ o.handler = d.handler /\ o.value = d.value /\ o.answer = d.answer
               /\ o.left = d.left /\ o.raced = d.raced /\ o.stage = d.stage
               /\ o.orphan = b
    BY <1>4, <2>1 DEF Record
  <2>2. ASSUME NEW d \in calls
        PROVE  /\ O(d).handler = d.handler /\ O(d).value = d.value /\ O(d).answer = d.answer
               /\ O(d).left = d.left /\ O(d).raced = d.raced /\ O(d).stage = d.stage
               /\ O(d).orphan = (d.handler \in RowHandlers)
    BY <2>1
  <2> HIDE DEF O
  <2>q. QED
    BY <2>2
<1> HIDE DEF O, R
<1>7. calls' = {F[d] : d \in calls}
  BY <1>3
<1>8. \A d \in calls \ {c} : (~R => F[d] = d) /\ (R => F[d] = O(d))
  OBVIOUS
<1>9. F[c] = e
  OBVIOUS
<1> HIDE DEF F
<1>10. Ends(c, e, R, F)
  <2>1. ASSUME NEW d \in calls \ {c}
        PROVE  /\ F[d].handler = d.handler /\ F[d].value = d.value /\ F[d].answer = d.answer
               /\ F[d].left = d.left /\ F[d].raced = d.raced /\ F[d].stage = d.stage
               /\ F[d].orphan => d.orphan \/ (R /\ d.handler \in RowHandlers)
    <3>1. CASE R
      BY <1>6, <1>8, <3>1
    <3>2. CASE ~R
      <4>1. F[d] = d
        BY <1>8, <3>2
      <4>q. QED
        BY <4>1
    <3>q. QED
      BY <3>1, <3>2
  <2>q. QED
    BY <1>5, <1>9, <2>1 DEF Ends
<1>q. QED
  BY <1>7, <1>10 DEF R

LEMMA EndsAlike ==
  ASSUME NEW c, NEW e, NEW R, NEW F, Ends(c, e, R, F), NEW s
  PROVE  /\ ~Saves(page, e, s) /\ ~About(page, e, s)
         /\ \A d \in calls \ {c} :
              /\ Saves(page, F[d], s) <=> Saves(page, d, s)
              /\ About(page, F[d], s) <=> About(page, d, s)
              /\ Due(page, F[d], s) <=> Due(page, d, s)
              /\ \A x, y : Changes(page, F[d], s, x, y) <=> Changes(page, d, s, x, y)
BY DEF Ends, Asking, Saves, About, Due, Changes

\* What the end of c does to a setting is known to the calls that save it.
Spares(c, R, s, D, E, y, z) ==
  /\ s \in doubt => s \in D \/ \A d \in calls \ {c} : ~Saves(page, d, s)
  /\ \/ s \in E
     \/ s \notin edited /\ z = y
     \/ \A d \in calls \ {c} : Saves(page, d, s) => s \in d.raced
  /\ \A d \in calls \ {c} : R /\ d.handler \in RowHandlers /\ About(page, d, s) => s \in d.raced

LEMMA EndsFits ==
  ASSUME NEW c \in calls, NEW e, NEW R, NEW F, Ends(c, e, R, F), NEW T, T = {F[d] : d \in calls},
         NEW s, NEW D, NEW K, NEW E, NEW x, NEW y, NEW z,
         Fits(page, calls, doubt, known, edited, s, x, y),
         Spares(c, R, s, D, E, y, z), s \in E => Typed(page, s),
         s \in K \ (D \cup E) => Explained(page, T, s, x, z)
  PROVE  Fits(page, T, D, K, E, s, x, z)
<1>0. /\ ~Saves(page, e, s) /\ ~About(page, e, s)
      /\ \A d \in calls \ {c} : /\ Saves(page, F[d], s) <=> Saves(page, d, s)
                                /\ About(page, F[d], s) <=> About(page, d, s)
  BY EndsAlike
<1>1. /\ \A t \in T : \E d \in calls : t = F[d]
      /\ ~Saves(page, e, s) /\ ~About(page, e, s) /\ F[c] = e
      /\ \A d \in calls \ {c} : /\ Saves(page, F[d], s) <=> Saves(page, d, s)
                                /\ About(page, F[d], s) <=> About(page, d, s)
  BY <1>0 DEF Ends
<1>2. /\ Noticed(page, calls, doubt, s) /\ Current(page, calls, s, x) /\ Ahead(page, calls, edited, s, y)
      /\ Replaced(page, calls, s)
  BY DEF Fits
<1>3. Noticed(page, T, D, s)
  <2>1. ASSUME NEW t \in T, NEW u \in T, Rival(page, t, u, s) PROVE s \in t.raced /\ s \in D
    <3>1. PICK d \in calls : t = F[d]
      BY <1>1
    <3>2. PICK f \in calls : u = F[f]
      BY <1>1
    <3>3. d # c /\ f # c /\ d # f
      BY <1>1, <2>1, <3>1, <3>2 DEF Rival
    <3>4. Rival(page, d, f, s)
      BY <1>1, <2>1, <3>1, <3>2, <3>3 DEF Rival
    <3>5. s \in d.raced /\ s \in doubt
      BY <1>2, <3>4 DEF Noticed
    <3>6. Saves(page, d, s) \/ Saves(page, f, s)
      BY <3>4 DEF Rival
    <3>q. QED
      BY <3>1, <3>3, <3>5, <3>6 DEF Ends, Spares
  <2>2. ASSUME NEW t \in T, Saves(page, t, s), s \in t.raced PROVE s \in D
    <3>1. PICK d \in calls : t = F[d]
      BY <1>1
    <3>2. d # c /\ Saves(page, d, s) /\ s \in d.raced
      BY <1>1, <2>2, <3>1 DEF Ends
    <3>q. QED
      BY <1>2, <3>2 DEF Noticed, Spares
  <2>q. QED
    BY <2>1, <2>2 DEF Noticed
<1>4. Current(page, T, s, x)
  <2>1. ASSUME NEW t \in T, t.stage = "answered", s \notin t.raced
        PROVE  /\ s \in Of(page, t.handler).fills => t.answer[s] = x
               /\ s \in Of(page, t.handler).saves => t.value = x
    <3>1. PICK d \in calls : t = F[d]
      BY <1>1
    <3>2. /\ d # c /\ d.stage = "answered" /\ s \notin d.raced /\ t.handler = d.handler
          /\ t.answer = d.answer /\ t.value = d.value
      BY <2>1, <3>1 DEF Ends
    <3>q. QED
      BY <1>2, <3>2 DEF Current
  <2>q. QED
    BY <2>1 DEF Current
<1>5. Ahead(page, T, E, s, z)
  <2>1. ASSUME NEW t \in T, Saves(page, t, s), s \notin t.raced, s \notin E,
               Of(page, t.handler).shows # "answer"
        PROVE  t.value = z
    <3>1. PICK d \in calls : t = F[d]
      BY <1>1
    <3>2. d # c
      BY <1>1, <2>1, <3>1
    <3>3. /\ Saves(page, d, s) /\ s \notin d.raced /\ t.handler = d.handler /\ t.value = d.value
      BY <1>1, <2>1, <3>1, <3>2 DEF Ends
    <3>4. s \notin edited /\ z = y
      BY <2>1, <3>2, <3>3 DEF Spares
    <3>q. QED
      BY <1>2, <2>1, <3>3, <3>4 DEF Ahead
  <2>q. QED
    BY <2>1 DEF Ahead
<1>6. Replaced(page, T, s)
  <2>1. ASSUME NEW t \in T, t.orphan, About(page, t, s) PROVE s \in t.raced
    <3>1. PICK d \in calls : t = F[d]
      BY <1>1
    <3>2. CASE d = c
      BY <1>1, <1>2, <2>1, <3>1, <3>2 DEF Ends, Replaced
    <3>3. CASE d # c
      BY <1>1, <1>2, <2>1, <3>1, <3>3 DEF Ends, Replaced, Spares
    <3>q. QED
      BY <3>2, <3>3
  <2>q. QED
    BY <2>1 DEF Replaced
<1>q. QED
  BY <1>3, <1>4, <1>5, <1>6 DEF Fits

Reasons(c, e, s, x, y) ==
  \/ Due(page, e, s)
  \/ \E d \in calls \ {c} : Due(page, d, s) \/ Changes(page, d, s, x, y)
  \/ x = y /\ \A d \in calls \ {c} : ~Saves(page, d, s)

LEMMA EndsExplained ==
  ASSUME NEW c \in calls, NEW e, NEW R, NEW F, Ends(c, e, R, F), NEW T, T = {F[d] : d \in calls},
         NEW s, NEW x, NEW y, Reasons(c, e, s, x, y)
  PROVE  Explained(page, T, s, x, y)
<1>0. /\ ~Saves(page, e, s)
      /\ \A d \in calls \ {c} : /\ Saves(page, F[d], s) <=> Saves(page, d, s)
                                /\ Due(page, F[d], s) <=> Due(page, d, s)
                                /\ Changes(page, F[d], s, x, y) <=> Changes(page, d, s, x, y)
  BY EndsAlike
<1>1. /\ \A t \in T : \E d \in calls : t = F[d]
      /\ \A d \in calls : F[d] \in T /\ F[c] = e
  BY DEF Ends
<1>2. (\A d \in calls \ {c} : ~Saves(page, d, s)) => \A t \in T : ~Saves(page, t, s)
  BY <1>0, <1>1
<1>q. QED
  BY <1>0, <1>1, <1>2 DEF Explained, Reasons

LEMMA DeliverAgrees ==
  ASSUME Good(page, calls, busy), Mends(page), Agreeing, NEW c \in calls, Deliver(c)
  PROVE  Agrees(page, calls', saved', shown', doubt', known', edited')
<1> DEFINE h == Of(page, c.handler)
           fills == IF c.orphan THEN {} ELSE h.fills
           cleared == (fills \cup IF h.shows = "answer" THEN {} ELSE h.saves) \ c.raced
<1>1. /\ c.stage = "answered" /\ saved' = saved
      /\ shown' = [s \in DOMAIN shown |-> IF s \in fills THEN c.answer[s] ELSE shown[s]]
      /\ known' = known \cup fills /\ edited' = (edited \ fills) \cup h.edits
      /\ doubt' = (doubt \ cleared) \cup (fills \cap c.raced)
  BY HOf DEF Deliver, device
<1>2. /\ known \subseteq SettingsOf(page) /\ saved \in [SettingsOf(page) -> BOOLEAN]
      /\ shown \in [SettingsOf(page) -> BOOLEAN] /\ \A d \in calls : CallFits(page, d)
      /\ \A s \in SettingsOf(page) : Fits(page, calls, doubt, known, edited, s, saved[s], shown[s])
  BY DEF Agreeing, Agrees
<1>3. PICK e, F : Ends(c, e, h.replaces, F) /\ calls' = {F[d] : d \in calls}
  BY Ending
<1>4. c.handler \in Names(page) /\ \A d \in calls : d.handler \in Names(page)
  BY DEF Good, CallOK
<1>5. known' \subseteq SettingsOf(page)
  BY <1>1, <1>2, <1>4, SettingsAre
<1>6. \A s \in fills : c.answer[s] \in BOOLEAN
  BY <1>1, <1>2 DEF CallFits
<1>7. /\ shown' \in [SettingsOf(page) -> BOOLEAN]
      /\ \A s \in SettingsOf(page) : /\ s \in fills => shown'[s] = c.answer[s]
                                     /\ s \notin fills => shown'[s] = shown[s]
  <2> HIDE DEF fills
  <2>q. QED
    BY <1>1, <1>2, <1>6
<1>8. \A t \in calls' : CallFits(page, t)
  BY <1>2, <1>3 DEF Ends, CallFits
<1>9. ASSUME NEW s \in SettingsOf(page)
      PROVE  Fits(page, calls', doubt', known', edited', s, saved[s], shown'[s])
  <2> DEFINE x == saved[s]
             y == shown[s]
             z == shown'[s]
  <2>1. Fits(page, calls, doubt, known, edited, s, x, y)
    BY <1>2
  <2>2. /\ Noticed(page, calls, doubt, s) /\ Current(page, calls, s, x) /\ Ahead(page, calls, edited, s, y)
        /\ Replaced(page, calls, s) /\ (s \in edited => Typed(page, s))
        /\ s \in known \ (doubt \cup edited) => Explained(page, calls, s, x, y)
    BY <2>1 DEF Fits
  <2>3. Asking(c) /\ (Saves(page, c, s) <=> s \in h.saves) /\ (About(page, c, s) <=> s \in h.fills \cup h.saves)
    BY <1>1 DEF Saves, About, Asking
  <2>4. s \in h.fills \cup h.saves => \A d \in calls \ {c} : Saves(page, d, s) => s \in d.raced /\ s \in c.raced
    BY <2>2, <2>3 DEF Noticed, Rival, Saves, About
  <2>5. s \in h.saves => \A d \in calls \ {c} : About(page, d, s) => s \in d.raced /\ s \in c.raced
    BY <2>2, <2>3 DEF Noticed, Rival, Saves, About
  <2>6. ~Saves(page, e, s)
    BY <1>3, EndsAlike
  <2>7. s \in edited' => Typed(page, s)
    BY <1>1, <1>4, <2>2 DEF Mends
  <2>8. ASSUME h.replaces, NEW d \in calls \ {c}, d.handler \in RowHandlers, About(page, d, s)
        PROVE  s \in d.raced
    <3>1. s \in Of(page, d.handler).saves /\ s \in h.fills
      BY <1>4, <2>8 DEF About, Mends, HoldsRow
    <3>2. Saves(page, d, s)
      BY <2>8, <3>1 DEF Saves, About
    <3>q. QED
      BY <2>4, <3>1, <3>2
  <2> HIDE DEF x, y, z
  <2>9. ASSUME s \notin h.fills \cup h.saves
         PROVE  Fits(page, calls', doubt', known', edited', s, x, z)
    <3>1. s \notin fills /\ s \notin cleared /\ z = y
      BY <1>7, <2>9 DEF z, y
    <3>2. (s \in doubt => s \in doubt') /\ (s \in edited => s \in edited') /\ (s \in known' <=> s \in known)
      BY <1>1, <3>1
    <3>3. ~Due(page, c, s) /\ \A u, v : ~Changes(page, c, s, u, v)
      BY <1>1, <2>3, <2>9 DEF Due, Reloads, Changes
    <3>4. ASSUME s \in known' \ (doubt' \cup edited') PROVE Explained(page, calls', s, x, z)
      <4>1. Explained(page, calls, s, x, y)
        BY <2>2, <3>2, <3>4
      <4>2. Reasons(c, e, s, x, y)
        BY <3>3, <4>1 DEF Explained, Reasons
      <4>q. QED
        BY <1>3, <3>1, <4>2, EndsExplained
    <3>5. Spares(c, h.replaces, s, doubt', edited', y, z)
      BY <2>8, <3>1, <3>2 DEF Spares
    <3> HIDE DEF h
    <3>q. QED
      BY <1>3, <2>1, <2>7, <3>4, <3>5, EndsFits
  <2>10. ASSUME s \in h.fills \cup h.saves /\ s \in c.raced
         PROVE  Fits(page, calls', doubt', known', edited', s, x, z)
    <3>1. s \in doubt'
      <4>1. CASE s \in fills
        BY <1>1, <2>10, <4>1
      <4>2. CASE s \notin fills
        <5>1. s \in h.saves
          <6>1. CASE s \notin h.fills
            BY <2>10, <6>1
          <6>2. CASE c.orphan
            BY <1>2, <1>4, <2>10, <6>2 DEF CallFits, Mends, HoldsRow
          <6>q. QED
            BY <4>2, <6>1, <6>2
        <5>2. s \in doubt
          BY <2>2, <2>3, <2>10, <5>1 DEF Noticed
        <5>q. QED
          BY <1>1, <2>10, <5>2
      <4>q. QED
        BY <4>1, <4>2
    <3>2. \A d \in calls \ {c} : Saves(page, d, s) => s \in d.raced
      BY <2>4, <2>10
    <3>3. Spares(c, h.replaces, s, doubt', edited', y, z)
      BY <2>8, <3>1, <3>2 DEF Spares
    <3> HIDE DEF h
    <3>q. QED
      BY <1>3, <2>1, <2>7, <3>1, <3>3, EndsFits
  <2>11. ASSUME s \in h.fills \cup h.saves /\ s \notin c.raced
         PROVE  Fits(page, calls', doubt', known', edited', s, x, z)
    <3>1. \A d \in calls \ {c} : ~Saves(page, d, s)
      BY <2>4, <2>11
    <3>2. ~c.orphan /\ fills = h.fills
      BY <2>2, <2>3, <2>11 DEF Replaced
    <3>3. ASSUME s \in known' \ (doubt' \cup edited') PROVE Explained(page, calls', s, x, z)
      <4>1. CASE s \in h.fills
        <5>1. z = x
          BY <1>1, <1>7, <2>2, <2>11, <3>2, <4>1 DEF Current, z
        <5>2. Reasons(c, e, s, x, z)
          BY <3>1, <5>1 DEF Reasons
        <5> HIDE DEF h
        <5>q. QED
          BY <1>3, <5>2, EndsExplained
      <4>2. CASE s \notin h.fills
        <5>1. s \in h.saves /\ z = y /\ s \in known /\ s \notin edited
          BY <1>1, <1>7, <2>11, <3>2, <3>3, <4>2 DEF y, z
        <5>2. Mended(page, c.handler, s)
          BY <1>4, <5>1 DEF Mends, Saver
        <5>3. CASE h.shows = "answer"
          <6>1. PICK m \in Followers(h, h.awaits) : Reloads(page, m, s)
            BY <4>2, <5>2, <5>3 DEF Mended
          <6>2. /\ e.handler = c.handler /\ e.left = c.left /\ e.stage = "awaiting" /\ c.left = h.awaits
            BY <1>1, <1>2, <1>3 DEF Ends, CallFits
          <6>3. Due(page, e, s)
            BY <5>1, <6>1, <6>2 DEF Due
          <6>4. Reasons(c, e, s, x, z)
            BY <6>3 DEF Reasons
          <6> HIDE DEF h
          <6>q. QED
            BY <1>3, <6>4, EndsExplained
        <5>4. CASE h.shows # "answer"
          <6>1. x = y
            BY <1>1, <2>2, <2>3, <2>11, <5>1, <5>4 DEF Ahead, Current
          <6>2. Reasons(c, e, s, x, z)
            BY <3>1, <5>1, <6>1 DEF Reasons
          <6> HIDE DEF h
          <6>q. QED
            BY <1>3, <6>2, EndsExplained
        <5>q. QED
          BY <5>3, <5>4
      <4>q. QED
        BY <4>1, <4>2
    <3>4. Spares(c, h.replaces, s, doubt', edited', y, z)
      BY <2>8, <3>1 DEF Spares
    <3> HIDE DEF h
    <3>q. QED
      BY <1>3, <2>1, <2>7, <3>3, <3>4, EndsFits
  <2>12. Fits(page, calls', doubt', known', edited', s, x, z)
    BY <2>9, <2>10, <2>11
  <2>q. QED
    BY <2>12 DEF x, z
<1>q. QED
  BY <1>1, <1>2, <1>5, <1>7, <1>8, <1>9 DEF Agrees

-----------------------------------------------------------------------------
(* Calls that begin, of others that end                                        *)

\* A call that saves nothing begins.
Loads(n) == Record(n) /\ Fresh(n, n.handler, FALSE) /\ Of(page, n.handler).saves = {}

\* What the end of a call shows, and what begins, is known to the calls that save.
Known(new, others, s, D, E, y, z) ==
  /\ doubt \subseteq D /\ edited \subseteq E
  /\ \A n \in new : \A d \in others \cup new : Rival(page, n, d, s) => s \in D
  /\ z = y \/ \A d \in others : Saves(page, d, s) => s \in d.raced

LEMMA BeginFits ==
  ASSUME NEW new, NEW others, NEW F, NEW T, Noting(others \cup new, F, T),
         \A d \in others : d \in calls \/ ~Asking(d), \A n \in new : Loads(n),
         NEW s, NEW D, NEW E, NEW x, NEW y, NEW z, Known(new, others, s, D, E, y, z),
         Fits(page, calls, doubt, known, edited, s, x, y), s \in E => Typed(page, s),
         s \in known \ (D \cup E) => Explained(page, others \cup new, s, x, z)
  PROVE  Fits(page, T, D, known, E, s, x, z)
<1> DEFINE S == others \cup new
<1>1. /\ Noticed(page, calls, doubt, s) /\ Current(page, calls, s, x) /\ Ahead(page, calls, edited, s, y)
      /\ Replaced(page, calls, s)
  BY DEF Fits
<1>2. \A d \in others \ calls : d.stage # "answered" /\ ~Saves(page, d, s) /\ ~About(page, d, s)
  BY DEF Asking, Saves, About
<1>3. \A n \in new : /\ ~Saves(page, n, s) /\ n.raced = {} /\ n.orphan = FALSE
                     /\ n.stage = "answered" => Of(page, n.handler).fills = {}
                     /\ Of(page, n.handler).saves = {}
  BY DEF Loads, Fresh, Saves
<1>4. \A c, d \in S : Rival(page, c, d, s) => s \in D
  <2>1. ASSUME NEW c \in S, NEW d \in S, Rival(page, c, d, s) PROVE s \in D
    <3>1. CASE c \in new
      BY <2>1, <3>1 DEF Known
    <3>2. CASE d \in new
      <4>1. Rival(page, d, c, s)
        BY <2>1 DEF Rival
      <4>q. QED
        BY <3>2, <4>1 DEF Known
    <3>3. CASE c \in others /\ d \in others
      <4>1. c \in calls /\ d \in calls
        BY <1>2, <2>1, <3>3 DEF Rival
      <4>q. QED
        BY <1>1, <2>1, <4>1 DEF Noticed, Known
    <3>q. QED
      BY <3>1, <3>2, <3>3
  <2>q. QED
    BY <2>1
<1>5. \A c \in S : Saves(page, c, s) /\ s \in c.raced => s \in D
  BY <1>1, <1>2, <1>3 DEF Noticed, Known
<1>6. ASSUME NEW c \in S, Alone(S, c, s)
      PROVE  /\ c.stage = "answered" /\ s \in Of(page, c.handler).fills => c.answer[s] = x
             /\ c.stage = "answered" /\ s \in Of(page, c.handler).saves => c.value = x
             /\ Saves(page, c, s) /\ s \notin E /\ Of(page, c.handler).shows # "answer" => c.value = z
  <2>1. s \notin c.raced
    BY <1>6 DEF Alone
  <2>2. CASE c \in new
    BY <1>3, <2>2
  <2>3. CASE c \in others \ calls
    BY <1>2, <2>3
  <2>4. CASE c \in others /\ c \in calls
    <3>1. Saves(page, c, s) => z = y
      BY <2>1, <2>4 DEF Known
    <3>2. s \notin E => s \notin edited
      BY DEF Known
    <3>q. QED
      BY <1>1, <2>1, <2>4, <3>1, <3>2 DEF Current, Ahead
  <2>q. QED
    BY <2>2, <2>3, <2>4
<1>7. Replaced(page, S, s)
  <2>1. ASSUME NEW c \in S, c.orphan, About(page, c, s) PROVE s \in c.raced
    <3>1. c \in others
      BY <1>3, <2>1
    <3>q. QED
      BY <1>1, <1>2, <2>1, <3>1 DEF Replaced
  <2>q. QED
    BY <2>1 DEF Replaced
<1>8. Noting(S, F, T)
  OBVIOUS
<1> HIDE DEF S
<1>9. s \in known \ (D \cup E) => Explained(page, S, s, x, z)
  BY DEF S
<1>q. QED
  BY <1>4, <1>5, <1>6, <1>7, <1>8, <1>9, NotingFits

\* A load that begins will load.
LEMMA LoadIsDue ==
  ASSUME NEW n, NEW s, Loads(n), Reloads(page, n.handler, s)
  PROVE  Due(page, n, s)
<1>1. n.stage = "asked"
  BY DEF Loads, Fresh, Reloads
<1>q. QED
  BY <1>1 DEF Due

LEMMA NewLoads ==
  ASSUME NEW T, NEW parent, NEW others, \A m \in T : Of(page, m).saves = {}
  PROVE  /\ \A n \in News(T, parent, others) : Loads(n) /\ CallFits(page, n) /\ n.handler \in T
         /\ \A m \in T : \E n \in News(T, parent, others) : n.handler = m
<1>1. ASSUME NEW m \in T, NEW n, n = NewCall(m, parent, FALSE, others)
      PROVE  Loads(n) /\ CallFits(page, n) /\ n.handler = m
  <2>1. Fresh(n, m, FALSE)
    BY <1>1, NewIs
  <2>2. n.handler = m
    BY <2>1 DEF Fresh
  <2>3. Loads(n)
    BY <2>1, <2>2 DEF Loads, Fresh
  <2>4. CallFits(page, n)
    BY <2>1 DEF Fresh, CallFits
  <2>q. QED
    BY <2>2, <2>3, <2>4
<1>q. QED
  BY <1>1 DEF News

LEMMA TimersWait ==
  ASSUME NEW T, NEW others, \A m \in T : Of(page, m).saves = {}
  PROVE  \A n \in Timers(T, others) :
           /\ Record(n) /\ ~Asking(n) /\ CallFits(page, n) /\ n.handler \in T /\ n.stage = "timer"
<1>1. ASSUME NEW n \in Timers(T, others)
      PROVE  Record(n) /\ ~Asking(n) /\ CallFits(page, n) /\ n.handler \in T /\ n.stage = "timer"
  <2>1. /\ Record(n) /\ n.handler \in T /\ n.value = FALSE /\ n.orphan = FALSE
        /\ n.left = Of(page, n.handler).awaits /\ n.stage = "timer"
    BY TimerIs
  <2>q. QED
    BY <2>1 DEF Asking, CallFits
<1>q. QED
  BY <1>1

LEMMA TimerIsDue ==
  ASSUME NEW T, NEW others, NEW m \in T, NEW s, Reloads(page, m, s)
  PROVE  \E n \in Timers(T, others) : Due(page, n, s)
<1>1. PICK n \in Timers(T, others) : n.handler = m
  BY TimerOf
<1>2. n.stage = "timer"
  BY TimerIs
<1>q. QED
  BY <1>1, <1>2 DEF Due

\* Calls begin when others end, and nothing is shown.
LEMMA BeginAgrees ==
  ASSUME Agreeing, NEW new, NEW others, NEW flags, Begin(new, others, flags),
         \A d \in others : Record(d) /\ CallFits(page, d) /\ (d \in calls \/ ~Asking(d)),
         \A n \in new : Loads(n) /\ CallFits(page, n),
         saved' = saved, shown' = shown, known' = known, edited' = edited,
         doubt' = doubt \cup Races(new, others),
         \A s : \A x, y : Explained(page, calls, s, x, y) => Explained(page, others \cup new, s, x, y)
  PROVE  Agrees(page, calls', saved', shown', doubt', known', edited')
<1>1. /\ known \subseteq SettingsOf(page) /\ saved \in [SettingsOf(page) -> BOOLEAN]
      /\ shown \in [SettingsOf(page) -> BOOLEAN]
      /\ \A s \in SettingsOf(page) : Fits(page, calls, doubt, known, edited, s, saved[s], shown[s])
  BY DEF Agreeing, Agrees
<1>2. PICK F : Noting(others \cup new, F, calls')
  <2>1. \A c \in others \cup new : Record(c)
    BY DEF Loads
  <2>q. QED
    BY <2>1, BeginNoting
<1>3. \A t \in calls' : CallFits(page, t)
  BY <1>2, NotingCalls
<1>4. ASSUME NEW s \in SettingsOf(page)
      PROVE  Fits(page, calls', doubt', known, edited, s, saved[s], shown[s])
  <2>1. Fits(page, calls, doubt, known, edited, s, saved[s], shown[s])
    BY <1>1
  <2>2. \A n \in new : \A d \in others \cup new : Rival(page, n, d, s) => s \in doubt'
    BY RivalsRace
  <2>3. Known(new, others, s, doubt', edited, shown[s], shown[s])
    BY <2>2 DEF Known
  <2>4. s \in known \ (doubt' \cup edited) => Explained(page, others \cup new, s, saved[s], shown[s])
    BY <2>1 DEF Fits
  <2>5. s \in edited => Typed(page, s)
    BY <2>1 DEF Fits
  <2>q. QED
    BY <1>2, <2>1, <2>3, <2>4, <2>5, BeginFits
<1>q. QED
  BY <1>1, <1>3, <1>4 DEF Agrees

LEMMA FireAgrees ==
  ASSUME Good(page, calls, busy), Agreeing, NEW c \in calls, Fire(c)
  PROVE  Agrees(page, calls', saved', shown', doubt', known', edited')
<1> DEFINE rest == calls \ {c}
           N == News({c.handler}, "none", rest)
<1>1. /\ c.stage = "timer" /\ Begin(N, rest, busy) /\ doubt' = doubt \cup Races(N, rest)
      /\ saved' = saved /\ shown' = shown /\ known' = known /\ edited' = edited
  <2>1. N = {NewCall(c.handler, "none", FALSE, rest)}
    BY DEF News
  <2>q. QED
    BY <2>1 DEF Fire, device, form
<1>2. \A d \in calls : Record(d) /\ CallFits(page, d)
  BY DEF Good, CallOK, Agreeing, Agrees
<1>3. /\ \A n \in N : Loads(n) /\ CallFits(page, n) /\ n.handler = c.handler
      /\ \E n \in N : n.handler = c.handler
  <2>1. \A m \in {c.handler} : Of(page, m).saves = {}
    BY <1>1, <1>2 DEF CallFits
  <2> HIDE DEF rest
  <2>2. /\ \A n \in News({c.handler}, "none", rest) : Loads(n) /\ CallFits(page, n) /\ n.handler \in {c.handler}
        /\ \A m \in {c.handler} : \E n \in News({c.handler}, "none", rest) : n.handler = m
    BY <2>1, NewLoads
  <2>q. QED
    BY <2>2
<1> HIDE DEF N
<1>4. ASSUME NEW s, NEW x, NEW y, Explained(page, calls, s, x, y)
      PROVE  Explained(page, rest \cup N, s, x, y)
  <2>1. ~Saves(page, c, s) /\ \A n \in N : ~Saves(page, n, s)
    BY <1>1, <1>3 DEF Saves, Asking, Loads
  <2>2. CASE \E d \in calls : Due(page, d, s)
    <3>1. PICK d \in calls : Due(page, d, s)
      BY <2>2
    <3>2. CASE d = c
      <4>1. Reloads(page, c.handler, s)
        BY <1>1, <3>1, <3>2 DEF Due
      <4>2. PICK n \in N : n.handler = c.handler
        BY <1>3
      <4>3. Due(page, n, s)
        BY <1>3, <4>1, <4>2, LoadIsDue
      <4>q. QED
        BY <4>3 DEF Explained
    <3>3. CASE d # c
      BY <3>1, <3>3 DEF Explained
    <3>q. QED
      BY <3>2, <3>3
  <2>3. CASE \E d \in calls : Changes(page, d, s, x, y)
    BY <2>1, <2>3 DEF Explained, Changes
  <2>4. CASE x = y /\ \A d \in calls : ~Saves(page, d, s)
    BY <2>1, <2>4 DEF Explained
  <2>q. QED
    BY <1>4, <2>2, <2>3, <2>4 DEF Explained
<1>q. QED
  BY <1>1, <1>2, <1>3, <1>4, BeginAgrees

LEMMA OverAgrees ==
  ASSUME Good(page, calls, busy), Mends(page), Agreeing, NEW c \in calls, Resume(c), c.left = <<>>
  PROVE  Agrees(page, calls', saved', shown', doubt', known', edited')
<1> DEFINE h == Of(page, c.handler)
           rest == calls \ {c}
           L == h.later \cup h.again
           W == Timers(L, rest)
           others == rest \cup W
           N == News(h.starts, "none", others)
           B == IF ~h.keeps THEN busy \ Cleared(c) ELSE busy
<1>1. /\ c.stage = "awaiting" /\ Begin(N, others, B) /\ doubt' = doubt \cup Races(N, others)
      /\ saved' = saved /\ shown' = shown /\ known' = known /\ edited' = edited
  BY HOf DEF Resume, News, device, form
<1>2. c.handler \in Names(page) /\ \A d \in calls : Record(d) /\ CallFits(page, d)
  BY DEF Good, CallOK, Agreeing, Agrees
<1>3. \A m \in Spawns(h) \cup Followers(h, h.awaits) : Of(page, m).saves = {}
  BY <1>2 DEF Mends
<1>4. \A n \in W : Record(n) /\ ~Asking(n) /\ CallFits(page, n)
  <2>1. \A m \in L : Of(page, m).saves = {}
    BY <1>3 DEF Spawns
  <2> HIDE DEF L, rest
  <2>q. QED
    BY <2>1, TimersWait
<1>5. /\ \A n \in N : Loads(n) /\ CallFits(page, n)
      /\ \A m \in h.starts : \E n \in N : n.handler = m
  <2>1. \A m \in h.starts : Of(page, m).saves = {}
    BY <1>3 DEF Spawns
  <2> HIDE DEF others, h
  <2>q. QED
    BY <2>1, NewLoads
<1>6. ASSUME NEW m \in L, NEW s, Reloads(page, m, s) PROVE \E n \in W : Due(page, n, s)
  <2> HIDE DEF L, rest
  <2>q. QED
    BY <1>6, TimerIsDue
<1>7. \A m \in h.starts : \A s : Reloads(page, m, s) => \E n \in N : Due(page, n, s)
  <2> HIDE DEF N, h
  <2>q. QED
    BY <1>5, LoadIsDue
<1> HIDE DEF N, W, B
<1>8. ASSUME NEW s, NEW x, NEW y, Explained(page, calls, s, x, y)
      PROVE  Explained(page, others \cup N, s, x, y)
  <2>1. ~Saves(page, c, s) /\ \A n \in N \cup W : ~Saves(page, n, s)
    BY <1>1, <1>4, <1>5 DEF Saves, Asking, Loads
  <2>2. CASE \E d \in calls : Due(page, d, s)
    <3>1. PICK d \in calls : Due(page, d, s)
      BY <2>2
    <3>2. CASE d = c
      <4>1. PICK m \in Followers(h, c.left) : Reloads(page, m, s)
        BY <1>1, <3>1, <3>2 DEF Due
      <4>2. m \in h.starts \cup L
        BY <4>1 DEF Followers
      <4>3. \E n \in N \cup W : Due(page, n, s)
        BY <1>6, <1>7, <4>1, <4>2
      <4>q. QED
        BY <4>3 DEF Explained
    <3>3. CASE d # c
      BY <3>1, <3>3 DEF Explained
    <3>q. QED
      BY <3>2, <3>3
  <2>3. CASE \E d \in calls : Changes(page, d, s, x, y)
    BY <2>1, <2>3 DEF Explained, Changes
  <2>4. CASE x = y /\ \A d \in calls : ~Saves(page, d, s)
    BY <2>1, <2>4 DEF Explained
  <2>q. QED
    BY <1>8, <2>2, <2>3, <2>4 DEF Explained
<1>9. \A d \in others : Record(d) /\ CallFits(page, d) /\ (d \in calls \/ ~Asking(d))
  BY <1>2, <1>4
<1> HIDE DEF others
<1>q. QED
  BY <1>1, <1>5, <1>8, <1>9, BeginAgrees

LEMMA GoesOnAgrees ==
  ASSUME Good(page, calls, busy), Closed(page), Mends(page), Agreeing, NEW c \in calls, Resume(c), c.left # <<>>
  PROVE  Agrees(page, calls', saved', shown', doubt', known', edited')
<1> DEFINE h == Of(page, c.handler)
           e == [c EXCEPT !.left = Tail(c.left)]
           others == (calls \ {c}) \cup {e}
           E == Head(c.left)
           N == News(E, c.handler, others)
<1>1. /\ c.stage = "awaiting" /\ Begin(N, others, busy) /\ doubt' = doubt \cup Races(N, others)
      /\ saved' = saved /\ shown' = shown /\ known' = known /\ edited' = edited
  BY DEF Resume, News, device, form
<1>2. c.handler \in Names(page) /\ \A d \in calls : CallOK(page, d) /\ Record(d) /\ CallFits(page, d)
  BY DEF Good, CallOK, Agreeing, Agrees
<1>3. /\ Record(e) /\ e.handler = c.handler /\ e.value = c.value /\ e.orphan = c.orphan
      /\ e.stage = "awaiting" /\ e.left = Tail(c.left)
  BY <1>1, <1>2 DEF Record
<1>4. /\ \E j \in DOMAIN h.awaits : E = h.awaits[j]
      /\ \A i \in DOMAIN c.left : c.left[i] = E \/ \E j \in DOMAIN Tail(c.left) : c.left[i] = Tail(c.left)[j]
  <2> DEFINE V == Names(page) \ {"mounted"}
  <2>1. h.awaits \in Seq(SUBSET V) /\ c.left \in Seq(SUBSET V) /\ Remaining(h.awaits, c.left)
    BY <1>2, Started DEF CallOK
  <2> HIDE DEF V, h
  <2>2. \E j \in DOMAIN h.awaits : E = h.awaits[j]
    BY <2>1, StillAwaited
  <2>3. /\ Len(c.left) \in Nat /\ DOMAIN c.left = 1..Len(c.left) /\ c.left[1] = E
        /\ Tail(c.left) \in Seq(SUBSET V) /\ Len(Tail(c.left)) = Len(c.left) - 1
        /\ \A i \in 1..(Len(c.left) - 1) : Tail(c.left)[i] = c.left[i + 1]
    BY <2>1, HeadTailProperties
  <2>4. ASSUME NEW i \in DOMAIN c.left, i # 1
        PROVE  i - 1 \in DOMAIN Tail(c.left) /\ c.left[i] = Tail(c.left)[i - 1]
    <3>1. DOMAIN Tail(c.left) = 1..(Len(c.left) - 1)
      BY <2>3
    <3>2. i - 1 \in 1..(Len(c.left) - 1) /\ (i - 1) + 1 = i
      BY <2>3, <2>4
    <3>q. QED
      BY <2>3, <3>1, <3>2
  <2>q. QED
    BY <2>2, <2>3, <2>4
<1> HIDE DEF e
<1>5. ~Asking(e) /\ CallFits(page, e)
  BY <1>2, <1>3 DEF Asking, CallFits
<1>6. \A m \in E : Of(page, m).saves = {}
  BY <1>2, <1>4 DEF Mends, Followers
<1>7. /\ \A n \in N : Loads(n) /\ CallFits(page, n)
      /\ \A m \in E : \E n \in N : n.handler = m
  <2> HIDE DEF others, E
  <2>q. QED
    BY <1>6, NewLoads
<1>8. \A m \in E : \A s : Reloads(page, m, s) => \E n \in N : Due(page, n, s)
  <2> HIDE DEF N, E
  <2>q. QED
    BY <1>7, LoadIsDue
<1> HIDE DEF N
<1>9. ASSUME NEW s, NEW x, NEW y, Explained(page, calls, s, x, y)
      PROVE  Explained(page, others \cup N, s, x, y)
  <2>1. ~Saves(page, c, s) /\ ~Saves(page, e, s) /\ \A n \in N : ~Saves(page, n, s)
    BY <1>1, <1>5, <1>7 DEF Saves, Asking, Loads
  <2>2. CASE \E d \in calls : Due(page, d, s)
    <3>1. PICK d \in calls : Due(page, d, s)
      BY <2>2
    <3>2. CASE d = c
      <4>1. PICK m \in Followers(h, c.left) : Reloads(page, m, s)
        BY <1>1, <3>1, <3>2 DEF Due
      <4>2. s \in h.saves
        BY <1>1, <3>1, <3>2 DEF Due
      <4>3. CASE m \in E
        BY <1>8, <4>1, <4>3 DEF Explained
      <4>4. CASE m \in Followers(h, Tail(c.left))
        <5>1. Due(page, e, s)
          BY <1>3, <4>1, <4>2, <4>4 DEF Due
        <5>q. QED
          BY <5>1 DEF Explained
      <4>5. m \in E \cup Followers(h, Tail(c.left))
        BY <1>4, <4>1 DEF Followers
      <4>q. QED
        BY <4>3, <4>4, <4>5
    <3>3. CASE d # c
      BY <3>1, <3>3 DEF Explained
    <3>q. QED
      BY <3>2, <3>3
  <2>3. CASE \E d \in calls : Changes(page, d, s, x, y)
    BY <2>1, <2>3 DEF Explained, Changes
  <2>4. CASE x = y /\ \A d \in calls : ~Saves(page, d, s)
    BY <2>1, <2>4 DEF Explained
  <2>q. QED
    BY <1>9, <2>2, <2>3, <2>4 DEF Explained
<1>10. \A d \in others : Record(d) /\ CallFits(page, d) /\ (d \in calls \/ ~Asking(d))
  BY <1>2, <1>3, <1>5
<1> HIDE DEF others
<1>q. QED
  BY <1>1, <1>7, <1>9, <1>10, BeginAgrees

LEMMA ReliesIs ==
  ASSUME NEW s, NEW m
  PROVE  Relies(s, m) <=> Relied(page, s, m)
BY HOf DEF Relies, Relied, Followers, Names

LEMMA FailAgrees ==
  ASSUME Good(page, calls, busy), Mends(page), Agreeing, Flipping, NEW c \in calls, Fail(c)
  PROVE  Agrees(page, calls', saved', shown', doubt', known', edited')
<1> DEFINE h == Of(page, c.handler)
           rest == calls \ {c}
           N == News(h.failed, c.parent, rest)
           W == Timers(h.again, rest)
           others == rest \cup W
           B == busy \ Cleared(c)
           back == IF h.reverts /\ ~c.orphan THEN h.saves ELSE {}
           redrawn == IF h.replaces THEN Bare \cap flipped \cap h.fills ELSE {}
           unshown == IF h.request = "load" THEN {s \in h.fills : Relies(s, c.handler)} ELSE {}
           lost == unshown \cup (IF c.stage = "answered" THEN h.saves ELSE h.saves \cap Bare)
<1>1. /\ Asking(c) /\ Begin(N, others, B) /\ doubt' = (doubt \cup lost) \cup Races(N, rest)
      /\ saved' = saved /\ known' = known
      /\ edited' = IF h.shows = "form" THEN edited \cup h.saves ELSE edited
      /\ shown' = [s \in DOMAIN shown |-> IF s \in back THEN ~c.value ELSE shown[s] # (s \in redrawn)]
  BY HOf DEF Fail, News, device
<1>2. c.handler \in Names(page) /\ \A d \in calls : Record(d) /\ CallFits(page, d)
  BY DEF Good, CallOK, Agreeing, Agrees
<1>3. \A m \in Spawns(h) : Of(page, m).saves = {}
  BY <1>2 DEF Mends
<1>4. \A n \in W : Record(n) /\ ~Asking(n) /\ CallFits(page, n)
  <2>1. \A m \in h.again : Of(page, m).saves = {}
    BY <1>3 DEF Spawns
  <2> HIDE DEF h, rest
  <2>q. QED
    BY <2>1, TimersWait
<1>5. /\ \A n \in N : Loads(n) /\ CallFits(page, n)
      /\ \A m \in h.failed : \E n \in N : n.handler = m
  <2>1. \A m \in h.failed : Of(page, m).saves = {}
    BY <1>3 DEF Spawns
  <2> HIDE DEF rest, h
  <2>q. QED
    BY <2>1, NewLoads
<1>6. \A m \in h.failed : \A s : Reloads(page, m, s) => \E n \in N : Due(page, n, s)
  <2> HIDE DEF N, h
  <2>q. QED
    BY <1>5, LoadIsDue
<1> HIDE DEF N, W, B
<1>7. PICK F : Noting(others \cup N, F, calls')
  <2>1. \A d \in others \cup N : Record(d)
    BY <1>2, <1>4, <1>5 DEF Loads
  <2> HIDE DEF others
  <2>q. QED
    BY <1>1, <2>1, BeginNoting
<1>8. \A t \in calls' : CallFits(page, t)
  <2>1. \A d \in others \cup N : CallFits(page, d)
    BY <1>2, <1>4, <1>5
  <2> HIDE DEF others
  <2>q. QED
    BY <1>7, <2>1, NotingCalls
<1>9. /\ known \subseteq SettingsOf(page) /\ saved \in [SettingsOf(page) -> BOOLEAN]
      /\ shown \in [SettingsOf(page) -> BOOLEAN]
      /\ \A s \in SettingsOf(page) : Fits(page, calls, doubt, known, edited, s, saved[s], shown[s])
  BY DEF Agreeing, Agrees
<1>10. c.value \in BOOLEAN /\ (~c.value) \in BOOLEAN /\ (~c.value) # c.value
  BY <1>2 DEF CallFits
<1>11. /\ shown' \in [SettingsOf(page) -> BOOLEAN]
       /\ \A s \in SettingsOf(page) : /\ s \in back => shown'[s] # c.value
                                      /\ s \notin back \cup redrawn => shown'[s] = shown[s]
  <2>1. PICK v : v = ~c.value
    OBVIOUS
  <2>2. v \in BOOLEAN /\ v # c.value
    BY <1>10, <2>1
  <2> HIDE DEF back, redrawn
  <2>3. PICK f : f = [s \in DOMAIN shown |-> shown[s] # (s \in redrawn)]
    OBVIOUS
  <2>4. f \in [SettingsOf(page) -> BOOLEAN] /\ \A s \in SettingsOf(page) : s \notin redrawn => f[s] = shown[s]
    <3>1. f \in [SettingsOf(page) -> BOOLEAN]
      BY <1>9, <2>3
    <3>q. QED
      BY <1>9, <2>3, <3>1, SwitchShows
  <2>5. shown' = [s \in DOMAIN shown |-> IF s \in back THEN v ELSE f[s]]
    <3>1. shown' = [s \in DOMAIN shown |-> IF s \in back THEN v ELSE shown[s] # (s \in redrawn)]
      BY <1>1, <2>1 DEF back, redrawn
    <3>2. \A s \in DOMAIN shown : f[s] = (shown[s] # (s \in redrawn))
      BY <2>3
    <3>q. QED
      BY <3>1, <3>2
  <2>q. QED
    BY <1>9, <2>2, <2>4, <2>5
<1>12. ASSUME NEW s \in SettingsOf(page)
       PROVE  Fits(page, calls', doubt', known, edited', s, saved[s], shown'[s])
  <2> DEFINE x == saved[s]
             y == shown[s]
             z == shown'[s]
  <2>1. Fits(page, calls, doubt, known, edited, s, x, y) /\ x \in BOOLEAN /\ y \in BOOLEAN /\ z \in BOOLEAN
    BY <1>9, <1>11
  <2>2. (s \in back => z # c.value) /\ (s \notin back \cup redrawn => z = y)
    BY <1>11
  <2> HIDE DEF x, y, z
  <2>3. /\ Noticed(page, calls, doubt, s) /\ Ahead(page, calls, edited, s, y) /\ Replaced(page, calls, s)
        /\ (s \in edited => Typed(page, s))
        /\ s \in known \ (doubt \cup edited) => Explained(page, calls, s, x, y)
    BY <2>1 DEF Fits
  <2>4. (Saves(page, c, s) <=> s \in h.saves) /\ (About(page, c, s) <=> s \in h.fills \cup h.saves)
    BY <1>1 DEF Saves, About
  <2>5. s \in h.fills \cup h.saves => \A d \in rest : Saves(page, d, s) => s \in d.raced /\ s \in doubt
    BY <2>3, <2>4 DEF Noticed, Rival, Saves, About
  <2>6. \A n \in N : \A d \in others \cup N : Rival(page, n, d, s) => s \in doubt'
    <3>1. ASSUME NEW n \in N, NEW d \in others \cup N, Rival(page, n, d, s) PROVE s \in doubt'
      <4>1. Asking(d)
        BY <3>1 DEF Rival, About
      <4>2. d \in rest \cup N
        BY <1>4, <4>1
      <4>3. s \in Races(N, rest)
        BY <3>1, <4>2, RivalsRace
      <4>q. QED
        BY <1>1, <4>3
    <3>q. QED
      BY <3>1
  <2>7. z = y \/ \A d \in others : Saves(page, d, s) => s \in d.raced
    <3>1. \A d \in W : ~Saves(page, d, s)
      BY <1>4 DEF Saves
    <3>2. s \in back \cup redrawn => s \in h.fills \cup h.saves
      OBVIOUS
    <3>q. QED
      BY <2>2, <2>5, <3>1, <3>2
  <2>8. Known(N, others, s, doubt', edited', y, z)
    BY <1>1, <2>6, <2>7 DEF Known
  <2>9. s \in h.saves => Mended(page, c.handler, s)
    BY <1>2 DEF Mends, Saver
  <2>10. s \in edited' => Typed(page, s)
    BY <1>1, <2>3, <2>9 DEF Mended
  <2>11. ASSUME s \in known \ (doubt' \cup edited') PROVE Explained(page, others \cup N, s, x, z)
    <3>1. /\ s \notin doubt /\ s \notin edited /\ Explained(page, calls, s, x, y)
          /\ s \notin lost
      BY <1>1, <2>3, <2>11
    <3>0. s \notin back => z = y
      <4>1. ASSUME s \in redrawn PROVE FALSE
        <5>1. s \in flipped /\ s \in Bare /\ s \in h.fills
          BY <4>1
        <5>2. PICK d \in calls : Saves(page, d, s)
          BY <3>1, <5>1 DEF Flipping
        <5>3. CASE d = c
          BY <2>4, <3>1, <5>1, <5>2, <5>3
        <5>4. CASE d # c
          BY <2>5, <3>1, <5>1, <5>2, <5>4
        <5>q. QED
          BY <5>3, <5>4
      <4>q. QED
        BY <2>2, <4>1
    <3>2. \A d \in W \cup N : ~Saves(page, d, s)
      BY <1>4, <1>5 DEF Saves, Loads
    <3>3. s \in h.saves => \A d \in rest : ~Saves(page, d, s)
      BY <2>5, <3>1
    <3>4. CASE \E d \in calls : Due(page, d, s)
      <4>1. ~Due(page, c, s)
        BY <1>1, <3>1, ReliesIs DEF Due, Asking, Reloads
      <4>q. QED
        BY <3>4, <4>1 DEF Explained
    <3>5. CASE \E d \in calls : Changes(page, d, s, x, y)
      <4>1. PICK d \in calls : Changes(page, d, s, x, y)
        BY <3>5
      <4>2. CASE d # c
        <5>1. s \notin h.saves
          BY <3>3, <4>1, <4>2 DEF Changes
        <5>2. z = y
          BY <3>0, <5>1
        <5>q. QED
          BY <4>1, <4>2, <5>2 DEF Explained
      <4>3. CASE d = c
        <5>1. s \in h.saves /\ c.stage = "asked" /\ s \notin c.raced
          BY <1>1, <2>3, <2>4, <3>1, <4>1, <4>3 DEF Changes, Asking, Noticed
        <5>2. \A f \in others \cup N : ~Saves(page, f, s)
          BY <3>2, <3>3, <5>1
        <5>3. h.shows # "form"
          BY <1>1, <2>11, <5>1
        <5>4. c.value # x
          BY <4>1, <4>3, <5>1, <5>3 DEF Changes
        <5>5. CASE h.shows = "answer"
          <6>1. ~h.reverts
            BY <2>9, <5>1, <5>5 DEF Mended
          <6>2. z = y /\ c.value # y
            BY <3>0, <4>1, <4>3, <5>5, <6>1 DEF Changes
          <6>3. x = z
            BY <1>10, <2>1, <5>4, <6>2
          <6>q. QED
            BY <5>2, <6>3 DEF Explained
        <5>6. CASE h.shows = "switch" /\ h.reverts
          <6>1. ~c.orphan
            BY <2>3, <2>4, <5>1 DEF Replaced
          <6>2. z # c.value
            BY <2>2, <5>1, <5>6, <6>1
          <6>3. x = z
            BY <1>10, <2>1, <5>4, <6>2
          <6>q. QED
            BY <5>2, <6>3 DEF Explained
        <5>7. CASE h.shows = "switch" /\ ~h.reverts
          <6>1. <<page, s>> \notin OneWay
            BY <3>1, <5>1 DEF Bare
          <6>2. \E m \in h.failed : Reloads(page, m, s)
            BY <2>9, <5>1, <5>7, <6>1 DEF Mended
          <6>q. QED
            BY <1>6, <6>2 DEF Explained
        <5>q. QED
          BY <2>9, <5>1, <5>3, <5>5, <5>6, <5>7 DEF Mended
      <4>q. QED
        BY <4>2, <4>3
    <3>6. CASE x = y /\ \A d \in calls : ~Saves(page, d, s)
      <4>1. z = y
        BY <2>4, <3>0, <3>6
      <4>2. \A d \in others \cup N : ~Saves(page, d, s)
        BY <3>2, <3>6
      <4>q. QED
        BY <3>6, <4>1, <4>2 DEF Explained
    <3>q. QED
      BY <3>1, <3>4, <3>5, <3>6 DEF Explained
  <2>12. \A d \in others : d \in calls \/ ~Asking(d)
    BY <1>4
  <2>13. \A n \in N : Loads(n)
    BY <1>5
  <2> HIDE DEF others
  <2>14. Fits(page, calls', doubt', known, edited', s, x, z)
    BY <1>7, <2>1, <2>8, <2>10, <2>11, <2>12, <2>13, BeginFits
  <2>q. QED
    BY <2>14 DEF x, z
<1>q. QED
  BY <1>1, <1>8, <1>9, <1>11, <1>12 DEF Agrees

-----------------------------------------------------------------------------
(* The invariant of the settings                                               *)

LEMMA InitAgrees ==
  ASSUME Init, Rules(page)
  PROVE  Agreeing
<1>1. PICK n : n = NewCall("mounted", "none", FALSE, {})
  OBVIOUS
<1>2. /\ saved = [s \in SettingsOf(page) |-> TRUE] /\ shown = [s \in SettingsOf(page) |-> FALSE]
      /\ known = {} /\ edited = {} /\ doubt = {} /\ calls = {n}
  BY <1>1 DEF Init
<1>3. n.value = FALSE /\ n.orphan = FALSE /\ n.stage = "awaiting"
  BY <1>1, HOf DEF NewCall, Rules, Closed
<1>4. CallFits(page, n)
  BY <1>3 DEF CallFits
<1>5. \A s : ~Saves(page, n, s) /\ ~About(page, n, s)
  BY <1>3 DEF Saves, About, Asking
<1>6. ASSUME NEW s \in SettingsOf(page)
      PROVE  Fits(page, calls, doubt, known, edited, s, saved[s], shown[s])
  <2>1. Noticed(page, calls, doubt, s) /\ Replaced(page, calls, s)
    BY <1>2, <1>5 DEF Noticed, Rival, Replaced
  <2>2. Current(page, calls, s, saved[s]) /\ Ahead(page, calls, edited, s, shown[s])
    BY <1>2, <1>3, <1>5 DEF Current, Ahead
  <2>q. QED
    BY <1>2, <2>1, <2>2 DEF Fits
<1>q. QED
  BY <1>2, <1>4, <1>6 DEF Agreeing, Agrees

LEMMA NextAgrees ==
  ASSUME IInv, Agreeing, Flipping, [Next]_vars
  PROVE  Agreeing'
<1>1. page \in DOMAIN Pages /\ Good(page, calls, busy) /\ Closed(page) /\ Mends(page)
  BY PagesObey DEF IInv, Rules
<1>2. page' = page
  BY DEF Next, vars, Press, Edit, Serve, Deliver, Fail, Resume, Fire
<1>3. Agrees(page, calls', saved', shown', doubt', known', edited')
  <2>1. ASSUME NEW h \in DOMAIN Pages[page].handlers, Press(h)
        PROVE  Agrees(page, calls', saved', shown', doubt', known', edited')
    BY <1>1, <2>1, PressAgrees DEF Names
  <2>2. ASSUME NEW s \in DOMAIN Pages[page].inputs, Edit(s)
        PROVE  Agrees(page, calls', saved', shown', doubt', known', edited')
    BY <1>1, <2>2, EditAgrees
  <2>3. ASSUME NEW c \in calls, Serve(c)
        PROVE  Agrees(page, calls', saved', shown', doubt', known', edited')
    BY <1>1, <2>3, ServeAgrees
  <2>4. ASSUME NEW c \in calls, Deliver(c)
        PROVE  Agrees(page, calls', saved', shown', doubt', known', edited')
    BY <1>1, <2>4, DeliverAgrees
  <2>5. ASSUME NEW c \in calls, Fail(c)
        PROVE  Agrees(page, calls', saved', shown', doubt', known', edited')
    BY <1>1, <2>5, FailAgrees
  <2>6. ASSUME NEW c \in calls, Resume(c)
        PROVE  Agrees(page, calls', saved', shown', doubt', known', edited')
    <3>1. CASE c.left = <<>>
      BY <1>1, <2>6, <3>1, OverAgrees
    <3>2. CASE c.left # <<>>
      BY <1>1, <2>6, <3>2, GoesOnAgrees
    <3>q. QED
      BY <3>1, <3>2
  <2>7. ASSUME NEW c \in calls, Fire(c)
        PROVE  Agrees(page, calls', saved', shown', doubt', known', edited')
    BY <1>1, <2>7, FireAgrees
  <2>8. CASE UNCHANGED vars
    BY <2>8 DEF vars, device, form, Agreeing
  <2>q. QED
    BY <2>1, <2>2, <2>3, <2>4, <2>5, <2>6, <2>7, <2>8 DEF Next
<1>q. QED
  BY <1>2, <1>3 DEF Agreeing

\* What the handler of a switch bound one-way saves, its answer fills.
LEMMA BareFills ==
  ASSUME NEW s \in Bare, NEW n \in Names(page), s \in Of(page, n).saves
  PROVE  s \in Of(page, n).fills
<1>1. page = "system" /\ s = "enabled"
  BY DEF Bare, OneWay
<1>2. Names(page) = {"loadData", "toggleService", "restartService", "setPluginEnabled", "mounted"}
  BY <1>1 DEF Names, Pages, System
<1>3. /\ Of(page, "loadData") = SystemLoadData
      /\ Of(page, "toggleService") = SystemToggleService
      /\ Of(page, "restartService") = SystemRestartService
      /\ Of(page, "setPluginEnabled") = SystemSetPluginEnabled
      /\ Of(page, "mounted") = Mounted(<<{"loadData"}>>)
  BY <1>1 DEF Of, Pages, System
<1>4. n = "setPluginEnabled"
  BY <1>1, <1>2, <1>3, SystemHandlers DEF Plain, Row
<1>q. QED
  BY <1>1, <1>3, <1>4, SystemSettings DEF Saving

\* Calls that begin take no call that saves away.
LEMMA BeginFlips ==
  ASSUME NEW new, NEW others, NEW flags, Begin(new, others, flags), \A d \in others \cup new : Record(d),
         NEW s, NEW d \in others \cup new, Saves(page, d, s)
  PROVE  \E t \in calls' : Saves(page, t, s)
<1>1. PICK F : Noting(others \cup new, F, calls')
  BY BeginNoting
<1>2. F[d] \in calls' /\ Alike(F[d], d)
  BY <1>1 DEF Noting
<1>q. QED
  BY <1>2, AlikeIs

LEMMA BegunAreRecords ==
  ASSUME NEW T, NEW parent, NEW others
  PROVE  \A n \in News(T, parent, others) \cup Timers(T, others) : Record(n)
<1>1. ASSUME NEW n \in News(T, parent, others) PROVE Record(n)
  <2>1. PICK h \in T : n = NewCall(h, parent, FALSE, others)
    BY DEF News
  <2>q. QED
    BY <2>1, NewIs DEF Fresh
<1>2. ASSUME NEW n \in Timers(T, others) PROVE Record(n)
  BY <1>2, TimerIs
<1>q. QED
  BY <1>1, <1>2

LEMMA PressFlips ==
  ASSUME Good(page, calls, busy), Mends(page), Flipping, NEW h \in Names(page), Press(h), NEW s \in flipped'
  PROVE  s \in Bare /\ (s \in doubt' \/ \E t \in calls' : Saves(page, t, s))
<1>1. PICK n : n = NewCall(h, "none", Asked(h), calls)
  OBVIOUS
<1>2. /\ Begin({n}, calls, busy \ Variable(Of(page, h).flag)) /\ doubt \subseteq doubt'
      /\ flipped' = IF Of(page, h).saves \subseteq Bare
                    THEN (flipped \ Of(page, h).saves) \cup (Of(page, h).saves \ flipped) ELSE flipped
  BY <1>1, HOf DEF Press
<1>3. Fresh(n, h, Asked(h))
  BY <1>1, NewIs
<1>4. \A d \in calls \cup {n} : Record(d)
  BY <1>3 DEF Good, CallOK, Fresh
<1>5. CASE s \in flipped
  <2>1. CASE s \in doubt
    BY <1>2, <1>5, <2>1 DEF Flipping
  <2>2. CASE s \notin doubt
    <3>1. PICK d \in calls : Saves(page, d, s)
      BY <1>5, <2>2 DEF Flipping
    <3>q. QED
      BY <1>2, <1>4, <1>5, <3>1, BeginFlips DEF Flipping
  <2>q. QED
    BY <2>1, <2>2
<1>6. CASE s \notin flipped
  <2>1. s \in Of(page, h).saves /\ s \in Bare
    BY <1>2, <1>6
  <2>2. Of(page, h).request # "none"
    BY <2>1 DEF Mends, Saver
  <2>3. Saves(page, n, s)
    BY <1>3, <2>1, <2>2 DEF Fresh, Saves, Asking
  <2>q. QED
    BY <1>2, <1>4, <2>1, <2>3, BeginFlips
<1>q. QED
  BY <1>5, <1>6

LEMMA DeliverFlips ==
  ASSUME Good(page, calls, busy), Agreeing, Flipping, NEW c \in calls, Deliver(c), NEW s \in flipped'
  PROVE  s \in Bare /\ (s \in doubt' \/ \E t \in calls' : Saves(page, t, s))
<1> DEFINE h == Of(page, c.handler)
           fills == IF c.orphan THEN {} ELSE h.fills
           cleared == (fills \cup IF h.shows = "answer" THEN {} ELSE h.saves) \ c.raced
<1>1. /\ c.stage = "answered" /\ flipped' = flipped \ fills
      /\ doubt' = (doubt \ cleared) \cup (fills \cap c.raced)
  BY HOf DEF Deliver
<1>2. s \in flipped /\ s \notin fills /\ s \in Bare /\ s \in SettingsOf(page)
  BY <1>1 DEF Flipping, Bare
<1>3. c.handler \in Names(page)
  BY DEF Good, CallOK
<1>4. Noticed(page, calls, doubt, s) /\ Replaced(page, calls, s)
  BY <1>2 DEF Agreeing, Agrees, Fits
<1>5. s \in h.saves => s \in c.raced /\ s \in doubt
  <2>1. ASSUME s \in h.saves PROVE s \in c.raced /\ s \in doubt
    <3>1. s \in h.fills
      BY <1>2, <1>3, <2>1, BareFills
    <3>2. c.orphan /\ Saves(page, c, s) /\ About(page, c, s)
      BY <1>1, <1>2, <2>1, <3>1 DEF Saves, About, Asking
    <3>q. QED
      BY <1>4, <3>2 DEF Noticed, Replaced
  <2>q. QED
    BY <2>1
<1>6. CASE s \in doubt
  <2>1. s \notin cleared
    BY <1>2, <1>5
  <2>q. QED
    BY <1>1, <1>2, <1>6, <2>1
<1>7. CASE s \notin doubt
  <2>1. PICK d \in calls : Saves(page, d, s)
    BY <1>2, <1>7 DEF Flipping
  <2>2. d # c
    BY <1>5, <1>7, <2>1 DEF Saves
  <2>3. PICK e, F : Ends(c, e, h.replaces, F) /\ calls' = {F[t] : t \in calls}
    BY Ending
  <2>4. Saves(page, F[d], s)
    BY <2>1, <2>2, <2>3, EndsAlike
  <2>q. QED
    BY <1>2, <2>3, <2>4
<1>q. QED
  BY <1>6, <1>7

\* The other steps leave calls that save, and what is in doubt stays so.
LEMMA OthersFlip ==
  ASSUME Good(page, calls, busy), Mends(page), Agreeing, Flipping, NEW c \in calls,
         Serve(c) \/ Fail(c) \/ Resume(c) \/ Fire(c), NEW s \in flipped'
  PROVE  s \in Bare /\ (s \in doubt' \/ \E t \in calls' : Saves(page, t, s))
<1>1. s \in flipped /\ doubt \subseteq doubt' /\ s \in Bare
  <2>1. flipped' \subseteq flipped /\ doubt \subseteq doubt'
    BY DEF Serve, Fail, Resume, Fire, form
  <2>q. QED
    BY <2>1 DEF Flipping
<1>2. CASE s \in doubt
  BY <1>1, <1>2
<1>3. ASSUME s \notin doubt, s \notin doubt' PROVE \E t \in calls' : Saves(page, t, s)
  <2>1. PICK d \in calls : Saves(page, d, s)
    BY <1>1, <1>3 DEF Flipping
  <2>2. \A t \in calls : Record(t) /\ CallFits(page, t)
    BY DEF Good, CallOK, Agreeing, Agrees
  <2>3. CASE Serve(c)
    <3>1. PICK a : a = [z \in Of(page, c.handler).fills |-> saved'[z]]
      OBVIOUS
    <3>2. PICK e : e = [c EXCEPT !.stage = "answered", !.answer = a]
      OBVIOUS
    <3>3. calls' = (calls \ {c}) \cup {e}
      BY <2>3, <3>1, <3>2, HOf DEF Serve
    <3>4. e.handler = c.handler /\ e.stage = "answered"
      BY <2>2, <3>2 DEF Record
    <3>q. QED
      BY <2>1, <3>3, <3>4 DEF Saves, Asking
  <2>4. CASE Fail(c)
    <3> DEFINE h == Of(page, c.handler)
               rest == calls \ {c}
               N == News(h.failed, c.parent, rest)
               W == Timers(h.again, rest)
    <3>1. /\ Begin(N, rest \cup W, busy \ Cleared(c))
          /\ (IF c.stage = "answered" THEN h.saves ELSE h.saves \cap Bare) \subseteq doubt'
      BY <2>4, HOf DEF Fail, News
    <3>2. d # c
      BY <1>1, <1>3, <2>1, <3>1 DEF Saves
    <3>3. \A t \in N \cup W : Record(t)
      <4> HIDE DEF h, rest
      <4>1. \A t \in News(h.failed, c.parent, rest) : Record(t)
        BY BegunAreRecords
      <4>2. \A t \in Timers(h.again, rest) : Record(t)
        BY BegunAreRecords
      <4>q. QED
        BY <4>1, <4>2
    <3> HIDE DEF N, W
    <3>q. QED
      BY <2>1, <2>2, <3>1, <3>2, <3>3, BeginFlips
  <2>5. CASE Resume(c)
    <3>1. c.stage = "awaiting" /\ d # c
      BY <2>1, <2>5 DEF Resume, Saves, Asking
    <3>2. PICK others, N, B : /\ Begin(N, others, B) /\ calls \ {c} \subseteq others
                              /\ \A t \in others \cup N : Record(t)
      <4> DEFINE h == Of(page, c.handler)
                 rest == calls \ {c}
                 W == Timers(h.later \cup h.again, rest)
                 e == [c EXCEPT !.left = Tail(@)]
                 B == IF ~h.keeps THEN busy \ Cleared(c) ELSE busy
      <4>1. CASE c.left = <<>>
        <5>1. Begin(News(h.starts, "none", rest \cup W), rest \cup W, B)
          BY <2>5, <4>1, HOf DEF Resume, News
        <5>2. \A t \in Timers(h.later \cup h.again, rest) : Record(t)
          <6> HIDE DEF h, rest
          <6>q. QED
            BY BegunAreRecords
        <5> HIDE DEF W, B
        <5>3. \A t \in News(h.starts, "none", rest \cup W) : Record(t)
          <6> HIDE DEF h, rest
          <6>q. QED
            BY BegunAreRecords
        <5>4. \A t \in W : Record(t)
          BY <5>2 DEF W
        <5>q. QED
          BY <2>2, <5>1, <5>3, <5>4
      <4>2. CASE c.left # <<>>
        <5>1. Begin(News(Head(c.left), c.handler, rest \cup {e}), rest \cup {e}, busy)
          BY <2>5, <4>2, HOf DEF Resume, News
        <5>2. Record(e)
          <6>1. PICK l : l = Tail(c.left)
            OBVIOUS
          <6>2. e = [c EXCEPT !.left = l]
            BY <6>1
          <6> HIDE DEF e
          <6>q. QED
            BY <2>2, <6>2 DEF Record
        <5> HIDE DEF e, rest
        <5>3. \A t \in News(Head(c.left), c.handler, rest \cup {e}) : Record(t)
          BY BegunAreRecords
        <5> USE DEF rest
        <5>q. QED
          BY <2>2, <5>1, <5>2, <5>3
      <4>q. QED
        BY <4>1, <4>2
    <3>q. QED
      BY <2>1, <3>1, <3>2, BeginFlips
  <2>6. CASE Fire(c)
    <3>1. d # c
      BY <2>1, <2>6 DEF Fire, Saves, Asking
    <3>2. Begin(News({c.handler}, "none", calls \ {c}), calls \ {c}, busy)
      <4>1. News({c.handler}, "none", calls \ {c}) = {NewCall(c.handler, "none", FALSE, calls \ {c})}
        BY DEF News
      <4>q. QED
        BY <2>6, <4>1 DEF Fire
    <3>3. \A t \in News({c.handler}, "none", calls \ {c}) : Record(t)
      BY BegunAreRecords
    <3>q. QED
      BY <2>1, <2>2, <3>1, <3>2, <3>3, BeginFlips
  <2>q. QED
    BY <2>3, <2>4, <2>5, <2>6
<1>q. QED
  BY <1>1, <1>2, <1>3

LEMMA NextFlips ==
  ASSUME IInv, Agreeing, Flipping, [Next]_vars
  PROVE  Flipping'
<1>1. page \in DOMAIN Pages /\ Good(page, calls, busy) /\ Mends(page)
  BY PagesObey DEF IInv, Rules
<1>2. page' = page /\ Bare' = Bare
  BY DEF Next, vars, Press, Edit, Serve, Deliver, Fail, Resume, Fire, Bare
<1>3. ASSUME NEW s \in flipped'
      PROVE  s \in Bare /\ (s \in doubt' \/ \E t \in calls' : Saves(page, t, s))
  <2>1. ASSUME NEW h \in DOMAIN Pages[page].handlers, Press(h)
        PROVE  s \in Bare /\ (s \in doubt' \/ \E t \in calls' : Saves(page, t, s))
    BY <1>1, <2>1, PressFlips DEF Names
  <2>2. ASSUME NEW r \in DOMAIN Pages[page].inputs, Edit(r)
        PROVE  s \in Bare /\ (s \in doubt' \/ \E t \in calls' : Saves(page, t, s))
    BY <2>2 DEF Edit, Flipping
  <2>3. ASSUME NEW c \in calls, Deliver(c)
        PROVE  s \in Bare /\ (s \in doubt' \/ \E t \in calls' : Saves(page, t, s))
    BY <1>1, <2>3, DeliverFlips
  <2>4. ASSUME NEW c \in calls, Serve(c) \/ Fail(c) \/ Resume(c) \/ Fire(c)
        PROVE  s \in Bare /\ (s \in doubt' \/ \E t \in calls' : Saves(page, t, s))
    BY <1>1, <2>4, OthersFlip
  <2>5. CASE UNCHANGED vars
    BY <2>5 DEF vars, form, Flipping
  <2>q. QED
    BY <2>1, <2>2, <2>3, <2>4, <2>5 DEF Next
<1>q. QED
  BY <1>2, <1>3 DEF Flipping

LEMMA AlwaysAgreeing == Spec => [](Agreeing /\ Flipping)
<1>1. Init => Agreeing /\ Flipping
  <2>1. Init => Rules(page)
    BY PagesObey DEF Init
  <2>2. Init => Flipping
    BY DEF Init, Flipping
  <2>q. QED
    BY <2>1, <2>2, InitAgrees
<1>2. IInv /\ Agreeing /\ Flipping /\ [Next]_vars => Agreeing' /\ Flipping'
  BY NextAgrees, NextFlips
<1>q. QED
  BY <1>1, <1>2, AlwaysIInv, PTL DEF Spec

\* A setting that was loaded and that no call touches any more is shown as the device has it, but
\* for what the user edits, and what is in doubt: because calls for it raced, a call for it failed
\* after the device had served it, the load failed that should have shown what was saved, or it is
\* a switch bound one-way and a save of it failed, which nothing puts back.  In every order of answers, with any number of failures, a save is taken
\* back, shown from its own answer or loaded again (the handlers of the settings and list pages).
THEOREM PagesAgree == Spec => []Agreement
<1>1. Agreeing => Agreement
  <2> SUFFICES ASSUME Agreeing, NEW s \in known \ (doubt \cup edited),
                      \A c \in calls : s \notin Touched(c)
               PROVE  shown[s] = saved[s]
    BY DEF Agreement, ShownAsSaved
  <2>1. \A c \in calls : s \notin Of(page, c.handler).fills \cup Of(page, c.handler).saves
    BY HOf DEF Touched
  <2>2. Explained(page, calls, s, saved[s], shown[s])
    BY DEF Agreeing, Agrees, Fits
  <2>3. \A c \in calls : ~Due(page, c, s) /\ ~Changes(page, c, s, saved[s], shown[s])
    BY <2>1 DEF Due, Reloads, Changes, Saves
  <2>q. QED
    BY <2>2, <2>3 DEF Explained
<1>q. QED
  BY <1>1, AlwaysAgreeing, PTL

=============================================================================
