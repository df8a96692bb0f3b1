--------------------------- MODULE SettingsPages ---------------------------
(***************************************************************************)
(* The settings and list pages of the web front-end: what each handler of  *)
(* a page asks the device, which settings it shows afterwards, and which   *)
(* flags it holds.  Settings runs them.                                    *)
(*                                                                         *)
(* A handler:                                                              *)
(*   request   load, save or none                                          *)
(*   fills     the settings it shows from the answer                       *)
(*   saves     the setting the device saves                                *)
(*   edits     the form it fills with something that is not saved          *)
(*   shows     when the page shows a new value: switch (before the         *)
(*             request), form (the user typed it), answer (afterwards)     *)
(*   to        the value a save asks for: flip, or a fixed one for a list  *)
(*   reverts   a failed request puts the switch back                       *)
(*   flag      the flag it sets and clears in the end                      *)
(*   keeps     a good answer leaves the flag set                           *)
(*   blocks    the flags that disable or hide its control                  *)
(*   awaits    the handlers it awaits next, set by set                     *)
(*   starts    the handlers it starts in the end and does not await        *)
(*   later     the handlers a timer starts                                 *)
(*   again     those it starts after a failed request too                  *)
(*   failed    the handlers a failed request starts                        *)
(*   replaces  its answer makes new rows: a call that holds an old one     *)
(*             writes to nothing                                           *)
(*   once      it runs only until what it shows is known                   *)
(* A page: its handlers; those without a control (hidden); the flags that  *)
(* disable the inputs of a form; the settings that have no control before  *)
(* they are loaded, such as the rows of a list (rows).                     *)
(* Requests made together and answered into one page are one request;      *)
(* messages, validation and confirmations are left out.                    *)
(***************************************************************************)

Nothing ==
    [request |-> "none", fills |-> {}, saves |-> {}, edits |-> {}, shows |-> "answer",
     to |-> "flip", reverts |-> FALSE, flag |-> "none", keeps |-> FALSE, blocks |-> {},
     awaits |-> <<>>, starts |-> {}, later |-> {}, again |-> {}, failed |-> {}, replaces |-> FALSE, once |-> FALSE]

Load(fills, flag) ==
    [Nothing EXCEPT !.request = "load", !.fills = fills, !.flag = flag, !.blocks = {flag}]

\* A call that saves no setting of the page.
Call(flag, blocks) ==
    [Nothing EXCEPT !.request = "save", !.flag = flag, !.blocks = blocks]

Save(setting, flag, blocks) ==
    [Call(flag, blocks) EXCEPT !.saves = {setting}, !.shows = "form"]

Change(setting, flag, blocks) ==
    [Call(flag, blocks) EXCEPT !.saves = {setting}]

Toggle(setting, flag, blocks) ==
    [Call(flag, blocks) EXCEPT !.saves = {setting}, !.fills = {setting},
                               !.shows = "switch", !.reverts = TRUE]

Mounted(awaits) == [Nothing EXCEPT !.awaits = awaits]

\* Handlers that hold a row of a list, and flags that are fields of a row.
RowHandlers == {"onTogglePluginRouting", "onToggleOtherRouting", "toggleService", "restartService",
                "setPluginEnabled"}
RowFlags == {"service.actionLoading", "plugin.saving"}

\* togglingPlugin names one row: setting it for a row takes it from the other, and either call
\* clears it for both.
TogglingPlugin == {"togglingPlugin", "togglingPlugin.other"}
Variable(flag) == IF flag \in TogglingPlugin THEN TogglingPlugin ELSE {flag}

\* Switches that are bound one-way over a checkbox: the checkbox moves at once, the page's data
\* follows a good answer, and after a failure nothing puts the checkbox back.
OneWay == {<<"system", "enabled">>}

-----------------------------------------------------------------------------
(* WireguardSettingsComponent.js, with the rows of two plugins. *)

WgLoadRouting == [Load({"via_wg", "other.via_wg"}, "routingLoading") EXCEPT !.replaces = TRUE]
WgOnTogglePluginRouting == Toggle("via_wg", "togglingPlugin", {"togglingPlugin", "routingLoading"})
WgOnToggleOtherRouting ==
    Toggle("other.via_wg", "togglingPlugin.other", {"togglingPlugin.other", "routingLoading"})
WgLoadSettings == Load({"active", "auto", "skip_on_wifi"}, "settingsLoading")
WgOnToggleState ==
    [Toggle("active", "togglingState", {"togglingState", "settingsLoading"})
        EXCEPT !.starts = {"loadStatus", "loadRouting"}]
\* Mutant: a failed request leaves the switch as the user put it.
WgOnToggleAuto_NoRevert ==
    [Toggle("auto", "none", {"settingsLoading"}) EXCEPT !.reverts = FALSE]

WgOnToggleAuto == Toggle("auto", "none", {"settingsLoading"})
WgOnToggleSkipOnWifi == Toggle("skip_on_wifi", "none", {"settingsLoading"})
WgLoadStatus == Load({}, "statusLoading")
WgLoadConfig == Load({"form"}, "loading")
WgImportConfig == [Call("importing", {"importing"}) EXCEPT !.edits = {"form"}]
WgSaveConfig ==
    [Save("form", "loading", {"loading"})
        EXCEPT !.awaits = <<{"loadConfig"}>>, !.starts = {"loadStatus", "loadRouting"}]
WgGenerateKeys == [Call("loadingKeys", {"loading", "loadingKeys"}) EXCEPT !.edits = {"form"}]

Wireguard ==
    [handlers |-> [loadRouting |-> WgLoadRouting, loadSettings |-> WgLoadSettings,
                   loadStatus |-> WgLoadStatus, loadConfig |-> WgLoadConfig,
                   onTogglePluginRouting |-> WgOnTogglePluginRouting,
                   onToggleOtherRouting |-> WgOnToggleOtherRouting,
                   onToggleState |-> WgOnToggleState, onToggleAuto |-> WgOnToggleAuto,
                   onToggleSkipOnWifi |-> WgOnToggleSkipOnWifi, importConfig |-> WgImportConfig,
                   saveConfig |-> WgSaveConfig, generateKeys |-> WgGenerateKeys,
                   mounted |-> Mounted(<<{"loadStatus", "loadConfig", "loadSettings",
                                          "loadRouting"}>>)],
     hidden |-> {"loadRouting", "loadSettings", "loadConfig"},
     inputs |-> [form |-> {"loading"}], rows |-> {"via_wg", "other.via_wg"}]

-----------------------------------------------------------------------------
(* PowerSettingsComponent.js *)

PowerLoadStatus == Load({}, "statusLoading")
PowerLoadSettings == Load({"selectedWakeup", "chargingProtection"}, "settingsLoading")
PowerOnChargingProtectionToggle ==
    Toggle("chargingProtection", "chargingProtectionLoading", {"chargingProtectionLoading"})
PowerKeepAlive == [Call("actionLoading", {"actionLoading"}) EXCEPT !.awaits = <<{"loadStatus"}>>]
PowerReboot == Call("actionLoading", {"actionLoading"})
PowerShutdown == Call("actionLoading", {"actionLoading"})
PowerLoadCapabilities == Load({}, "none")
PowerSaveWakeup == Save("selectedWakeup", "saving", {"saving", "settingsLoading"})
PowerLoadBleConfig == Load({"ble.enabled", "ble.target", "bleGraceMinutes"}, "none")
PowerSaveBleGrace ==
    [Save("bleGraceMinutes", "bleGraceSaving", {"bleGraceSaving"})
        EXCEPT !.fills = {"bleGraceMinutes"}]
\* Mutant: the switch is not disabled while its request is under way.
PowerOnBleToggle_Free ==
    [Toggle("ble.enabled", "bleBusy", {}) EXCEPT !.fills = {}, !.awaits = <<{"loadBleConfig"}>>]

PowerOnBleToggle ==
    [Toggle("ble.enabled", "bleBusy", {"bleBusy"})
        EXCEPT !.fills = {}, !.awaits = <<{"loadBleConfig"}>>]
PowerScanBle == Call("bleScanning", {"bleScanning"})
PowerSelectBeacon ==
    [Change("ble.target", "bleBusy", {"bleBusy"})
        EXCEPT !.awaits = <<{"loadBleConfig"}>>, !.to = "on"]
PowerChangeBeacon ==
    [Change("ble.target", "bleBusy", {"bleBusy"})
        EXCEPT !.awaits = <<{"loadBleConfig"}>>, !.to = "off"]

Power ==
    [handlers |-> [loadStatus |-> PowerLoadStatus, loadSettings |-> PowerLoadSettings,
                   loadCapabilities |-> PowerLoadCapabilities, loadBleConfig |-> PowerLoadBleConfig,
                   onChargingProtectionToggle |-> PowerOnChargingProtectionToggle,
                   powerKeepAlive |-> PowerKeepAlive, powerReboot |-> PowerReboot,
                   powerShutdown |-> PowerShutdown, saveWakeup |-> PowerSaveWakeup,
                   saveBleGrace |-> PowerSaveBleGrace, onBleToggle |-> PowerOnBleToggle,
                   scanBle |-> PowerScanBle, selectBeacon |-> PowerSelectBeacon,
                   changeBeacon |-> PowerChangeBeacon,
                   mounted |-> Mounted(<<{"loadStatus", "loadSettings", "loadCapabilities",
                                          "loadBleConfig"}>>)],
     hidden |-> {"loadSettings", "loadCapabilities", "loadBleConfig"},
     inputs |-> [selectedWakeup |-> {"saving"}, bleGraceMinutes |-> {"bleGraceSaving"}],
     rows |-> {"selectedWakeup"}]

-----------------------------------------------------------------------------
(* WiFiSettingsComponent.js.  A failed change of the mode clears the flag, then reloads. *)

WiFiLoadConfig == Load({"mode", "ap", "wifi"}, "loading")
\* Mutant: a good change of the mode starts no timer, and leaves loading to it.
WiFiOnModeSwitch_NoReload ==
    [Toggle("mode", "loading", {"loading"})
        EXCEPT !.fills = {}, !.reverts = FALSE, !.keeps = TRUE, !.failed = {"loadConfig"}]

WiFiOnModeSwitch ==
    [Toggle("mode", "loading", {"loading"})
        EXCEPT !.fills = {}, !.reverts = FALSE, !.keeps = TRUE,
               !.later = {"loadConfig"}, !.failed = {"loadConfig"}]
WiFiSaveApConfig == [Save("ap", "loading", {"loading"}) EXCEPT !.later = {"loadConfig"}]
WiFiSaveWifiConfig == [Save("wifi", "loading", {"loading"}) EXCEPT !.later = {"loadConfig"}]

WiFi ==
    [handlers |-> [loadConfig |-> WiFiLoadConfig, onModeSwitch |-> WiFiOnModeSwitch,
                   saveApConfig |-> WiFiSaveApConfig, saveWifiConfig |-> WiFiSaveWifiConfig,
                   mounted |-> Mounted(<<{"loadConfig"}>>)],
     hidden |-> {},
     inputs |-> [ap |-> {"loading"}, wifi |-> {"loading"}], rows |-> {}]

-----------------------------------------------------------------------------
(* DateTimeSettingsComponent.js *)

DateTimeLoad == Load({"ntp", "datetime"}, "loading")
DateTimeOnNtpToggle ==
    [Toggle("ntp", "ntpSaving", {"ntpSaving"}) EXCEPT !.fills = {"ntp", "datetime"}]
DateTimeSetDatetime ==
    [Save("datetime", "timeSaving", {"timeSaving"}) EXCEPT !.fills = {"ntp", "datetime"}]

DateTime ==
    [handlers |-> [load |-> DateTimeLoad, onNtpToggle |-> DateTimeOnNtpToggle,
                   setDatetime |-> DateTimeSetDatetime, mounted |-> Mounted(<<{"load"}>>)],
     hidden |-> {},
     inputs |-> [datetime |-> {"timeSaving"}], rows |-> {"ntp", "datetime"}]

-----------------------------------------------------------------------------
(* SystemSettingsComponent.js: one service with one plugin.  The flags are fields of their    *)
(* objects, and only new objects clear actionLoading after a good answer.                     *)

SystemLoadData == [Load({"status", "enabled"}, "loading") EXCEPT !.replaces = TRUE]
SystemToggleService ==
    [Change("status", "service.actionLoading", {"service.actionLoading", "loading"})
        EXCEPT !.keeps = TRUE, !.later = {"loadData"}]
SystemRestartService ==
    [Call("service.actionLoading", {"service.actionLoading", "loading"})
        EXCEPT !.keeps = TRUE, !.later = {"loadData"}]
SystemSetPluginEnabled ==
    [Toggle("enabled", "plugin.saving", {"plugin.saving", "loading"}) EXCEPT !.reverts = FALSE]

System ==
    [handlers |-> [loadData |-> SystemLoadData, toggleService |-> SystemToggleService,
                   restartService |-> SystemRestartService,
                   setPluginEnabled |-> SystemSetPluginEnabled,
                   mounted |-> Mounted(<<{"loadData"}>>)],
     hidden |-> {}, inputs |-> <<>>, rows |-> {"status", "enabled"}]

-----------------------------------------------------------------------------
(* TelegramBotSettingsComponent.js; the users are loaded when their tab is opened. *)

TelegramLoadStatus == Load({}, "statusLoading")
TelegramLoadConfig == Load({"config"}, "loading")
TelegramSaveConfig == Save("config", "loading", {"loading"})
TelegramLoadUsers == [Load({"users"}, "usersLoading") EXCEPT !.blocks = {}, !.once = TRUE]
TelegramSaveUsers == Save("users", "usersSaving", {"usersSaving", "usersLoading"})

Telegram ==
    [handlers |-> [loadStatus |-> TelegramLoadStatus, loadConfig |-> TelegramLoadConfig,
                   saveConfig |-> TelegramSaveConfig, loadUsers |-> TelegramLoadUsers,
                   saveUsers |-> TelegramSaveUsers,
                   mounted |-> Mounted(<<{"loadConfig"}, {"loadStatus"}>>)],
     hidden |-> {"loadConfig"},
     inputs |-> [config |-> {"loading"}, users |-> {"usersLoading"}], rows |-> {"users"}]

(* VkBotSettingsComponent.js *)

VkLoadStatus == Load({}, "statusLoading")
VkLoadConfig == Load({"config"}, "loading")
VkSaveConfig == Save("config", "loading", {"loading"})
VkLoadUsers == [Load({"users"}, "usersLoading") EXCEPT !.blocks = {}, !.once = TRUE]
VkSaveUsers == Save("users", "usersSaving", {"usersSaving", "usersLoading"})

Vk == [Telegram EXCEPT
    !.handlers = [loadStatus |-> VkLoadStatus, loadConfig |-> VkLoadConfig,
                  saveConfig |-> VkSaveConfig, loadUsers |-> VkLoadUsers,
                  saveUsers |-> VkSaveUsers,
                  mounted |-> Mounted(<<{"loadConfig"}, {"loadStatus"}>>)]]

(* SmsSettingsComponent.js *)

SmsLoadUsers == Load({"users"}, "usersLoading")
SmsSaveUsers == Save("users", "usersSaving", {"usersSaving", "usersLoading"})

Sms ==
    [handlers |-> [loadUsers |-> SmsLoadUsers, saveUsers |-> SmsSaveUsers,
                   mounted |-> Mounted(<<{"loadUsers"}>>)],
     hidden |-> {"loadUsers"},
     inputs |-> [users |-> {"usersLoading"}], rows |-> {"users"}]

-----------------------------------------------------------------------------
(* ModemSettingsComponent.js *)

ModemLoadModemInfo == Load({}, "modemInfoLoading")
ModemLoadApn == Load({"apn"}, "loading")
ModemLoadConnection == Load({}, "none")
ModemSaveApn == Save("apn", "loading", {"loading", "modemInfoLoading"})
ModemRefreshAll ==
    [Mounted(<<{"loadApn", "loadModemInfo", "loadConnection"}>>)
        EXCEPT !.blocks = {"modemInfoLoading"}]

Modem ==
    [handlers |-> [loadModemInfo |-> ModemLoadModemInfo, loadApn |-> ModemLoadApn,
                   loadConnection |-> ModemLoadConnection, saveApn |-> ModemSaveApn,
                   refreshAll |-> ModemRefreshAll,
                   mounted |-> Mounted(<<{"loadApn"}, {"loadModemInfo"}, {"loadConnection"}>>)],
     hidden |-> {"loadModemInfo", "loadApn", "loadConnection"},
     inputs |-> [apn |-> {"loading", "modemInfoLoading"}], rows |-> {}]

-----------------------------------------------------------------------------
(* UsersSettingsComponent.js: a list, of which one user matters. *)

UsersLoadUsers == Load({"users"}, "loading")
UsersAddUser ==
    [Change("users", "addLoading", {"addLoading"})
        EXCEPT !.to = "on", !.awaits = <<{"loadUsers"}>>]
UsersDeleteUser ==
    [Change("users", "loading", {"loading"}) EXCEPT !.to = "off", !.awaits = <<{"loadUsers"}>>]

Users ==
    [handlers |-> [loadUsers |-> UsersLoadUsers, addUser |-> UsersAddUser,
                   deleteUser |-> UsersDeleteUser, mounted |-> Mounted(<<{"loadUsers"}>>)],
     hidden |-> {}, inputs |-> <<>>, rows |-> {}]

-----------------------------------------------------------------------------
(* CameraSettingsComponent.js: the whole page is hidden while it loads. *)

CameraHidden == {"loading", "loadingSettings"}
CameraLoadInfo == Load({}, "loading")
CameraLoadSettings == Load({"settings", "streamSettings"}, "loadingSettings")
CameraVideoStart ==
    [Call("actionLoading", {"actionLoading"} \cup CameraHidden) EXCEPT !.awaits = <<{"loadInfo"}>>]
CameraVideoPause ==
    [Call("actionLoading", {"actionLoading"} \cup CameraHidden) EXCEPT !.awaits = <<{"loadInfo"}>>]
CameraSaveSettings == Save("settings", "saving", {"saving"} \cup CameraHidden)
CameraLoadStorageStats == Load({"filesLimit"}, "none")
CameraSaveFilesLimit == Save("filesLimit", "savingLimit", {"savingLimit"} \cup CameraHidden)
CameraSaveStreamSettings == Save("streamSettings", "savingStream", {"savingStream"} \cup CameraHidden)
CameraRefresh == [Nothing EXCEPT !.starts = {"loadInfo", "loadSettings"}, !.blocks = CameraHidden]

Camera ==
    [handlers |-> [loadInfo |-> CameraLoadInfo, loadSettings |-> CameraLoadSettings,
                   videoStart |-> CameraVideoStart, videoPause |-> CameraVideoPause,
                   saveSettings |-> CameraSaveSettings, loadStorageStats |-> CameraLoadStorageStats,
                   saveFilesLimit |-> CameraSaveFilesLimit,
                   saveStreamSettings |-> CameraSaveStreamSettings, refresh |-> CameraRefresh,
                   mounted |-> Mounted(<<{"loadInfo", "loadSettings", "loadStorageStats"}>>)],
     hidden |-> {"loadInfo", "loadSettings", "loadStorageStats"},
     inputs |-> [settings |-> {"saving"} \cup CameraHidden,
                 filesLimit |-> {"savingLimit"} \cup CameraHidden,
                 streamSettings |-> {"savingStream"} \cup CameraHidden], rows |-> {}]

-----------------------------------------------------------------------------
(* Lists, of which one entry matters: SmsInboxComponent.js, GpsTracksComponent.js. *)

InboxLoad == Load({"messages"}, "loading")
InboxDeleteMsg == [Change("messages", "none", {}) EXCEPT !.fills = {"messages"}, !.to = "off"]

Inbox ==
    [handlers |-> [load |-> InboxLoad, deleteMsg |-> InboxDeleteMsg,
                   mounted |-> Mounted(<<{"load"}>>)],
     hidden |-> {}, inputs |-> <<>>, rows |-> {}]

TracksLoad == Load({"tracks"}, "loading")
TracksDeleteTrack == [Change("tracks", "none", {}) EXCEPT !.fills = {"tracks"}, !.to = "off"]

Tracks ==
    [handlers |-> [load |-> TracksLoad, deleteTrack |-> TracksDeleteTrack,
                   mounted |-> Mounted(<<{"load"}>>)],
     hidden |-> {}, inputs |-> <<>>, rows |-> {}]

-----------------------------------------------------------------------------
(* The start page: app.js around it asks for the status again and again, and each action of    *)
(* the camera starts one more such chain; HomeComponent.js; DashboardCameraActionsTile.js.      *)

HomeFetchStatusData == [Load({}, "none") EXCEPT !.again = {"fetchStatusData"}]
HomeCameraStart ==
    [Call("cameraActionLoading", {"cameraActionLoading"}) EXCEPT !.awaits = <<{"fetchStatusData"}>>]
HomeCameraPause ==
    [Call("cameraActionLoading", {"cameraActionLoading"}) EXCEPT !.awaits = <<{"fetchStatusData"}>>]
HomePowerReboot == Call("powerActionLoading", {"powerActionLoading"})
HomePowerShutdown == Call("powerActionLoading", {"powerActionLoading"})
HomePowerKeepAlive == Call("powerActionLoading", {"powerActionLoading"})
HomeLoad == Load({}, "loading")
HomeTakePhoto == Call("takingPhoto", {"takingPhoto"})
HomeTakeShortVideo == Call("takingShortVideo", {"takingShortVideo"})

Home ==
    [handlers |-> [fetchStatusData |-> HomeFetchStatusData, cameraStart |-> HomeCameraStart,
                   cameraPause |-> HomeCameraPause, powerReboot |-> HomePowerReboot,
                   powerShutdown |-> HomePowerShutdown, powerKeepAlive |-> HomePowerKeepAlive,
                   load |-> HomeLoad, takePhoto |-> HomeTakePhoto,
                   takeShortVideo |-> HomeTakeShortVideo,
                   mounted |-> Mounted(<<{"fetchStatusData", "load"}>>)],
     hidden |-> {"fetchStatusData"}, inputs |-> <<>>, rows |-> {}]

-----------------------------------------------------------------------------
Pages == [wireguard |-> Wireguard, power |-> Power, wifi |-> WiFi, datetime |-> DateTime,
          system |-> System, telegram |-> Telegram, vk |-> Vk, sms |-> Sms, modem |-> Modem,
          users |-> Users, camera |-> Camera, inbox |-> Inbox, tracks |-> Tracks, home |-> Home]

=============================================================================
