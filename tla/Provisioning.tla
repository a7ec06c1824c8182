----------------------------- MODULE Provisioning -----------------------------
(***************************************************************************)
(* Phase 1: app_main() up to the point where the device has WiFi for good.   *)
(*                                                                          *)
(* Five tasks share the radio, the web server and an event group: the main   *)
(* task, the HTTP server's task with its form handler, the temperature       *)
(* monitor with its hibernate callbacks, the event loop with the WiFi        *)
(* events, and the reset button.  The flash keeps the credentials over       *)
(* restarts.  httpd_stop() waits until the handler under way has ended.      *)
(***************************************************************************)
EXTENDS Naturals, Sequences

CONSTANTS
  Forms,         \* what a user may submit
  Good,          \* the forms whose network and broker are right
  Nothing,       \* a key that is not in the flash
  HoldThreshold, \* HOLD_THRESHOLD
  MaxBoots,      \* bound: power cycles and resets
  MaxDrops       \* bound: the station loses its network

ASSUME FormsAssumption == Good \subseteq Forms /\ Nothing \notin Forms
ASSUME HoldAssumption == HoldThreshold \in Nat \ {0}
ASSUME BoundsAssumption == MaxBoots \in Nat /\ MaxDrops \in Nat

VARIABLES
  main,      \* where app_main() stands
  monitor,   \* where temp_monitor_task() stands, "off" if it does not exist
  handler,   \* where post_connect_handler() stands
  form,      \* its locals
  hibernating, \* s_hibernating
  server,    \* s_server: "off", "on", "stopping" while some task waits in httpd_stop(),
             \* "freed" when that has returned and s_server still holds the handle
  group,     \* whether s_prov_done exists
  done,      \* WEB_SERVER_PROV_DONE_BIT
  radio,     \* the WiFi driver: "apsta", "sta" or stopped, "off"
  call,      \* where wifi_manager_try_connect() stands
  connecting,\* s_connecting
  station,   \* "idle", "joining" a network that lets it in, "knocking" at one that
             \* does not, or "up"
  events,    \* WiFi events the event loop has not handled yet
  wifiBits,  \* the bits set in s_wifi_event_group
  result,    \* the bit that ended the wait
  nvs,       \* the keys in the flash; "broker" is host, port and token
  nvsUp,     \* whether the flash library is initialised
  held,      \* hold_count
  led,       \* what the two LEDs show
  boots, drops, \* faults so far
  addressed  \* ghost: the station got an address during this call

taskVars == <<main, monitor, hibernating>>
httpVars == <<handler, form, server>>
signalVars == <<group, done>>
tryVars == <<call, connecting, wifiBits, result>>
wifiVars == <<radio, station, events, addressed>>
flashVars == <<nvs, nvsUp, held>>
faultVars == <<boots, drops>>
vars == <<taskVars, httpVars, signalVars, tryVars, wifiVars, flashVars, led, faultVars>>

Empty == [ssid |-> Nothing, pwd |-> Nothing, broker |-> Nothing]
Dark == [network |-> "off", application |-> "off"]
Light(which, colour) == led' = [led EXCEPT ![which] = colour]

\* A network lets in who has both its name and its password.
Works(ssid, pwd) == ssid \in Good /\ pwd \in Good

Init ==
  /\ main = "boot" /\ monitor = "off" /\ hibernating = FALSE
  /\ handler = "idle" /\ form = Nothing /\ server = "off"
  /\ group = FALSE /\ done = FALSE
  /\ call = "none" /\ connecting = FALSE /\ wifiBits = {} /\ result = "none"
  /\ radio = "apsta" /\ station = "idle" /\ events = <<>>
  /\ addressed = FALSE /\ nvsUp = TRUE /\ held = 0 /\ led = Dark
  /\ nvs = Empty /\ boots = 0 /\ drops = 0

----------------------------------------------------------------------------
(* wifi_manager.c: the driver, the event loop and try_connect(), which only   *)
(* one task calls at a time: the main task before there is a server, the     *)
(* form handler afterwards.                                                  *)

\* esp_wifi_disconnect() posts an event if there was something to end.
Disconnect ==
  /\ station' = "idle"
  /\ events' = IF station = "idle" THEN events ELSE Append(events, "disconnected")

StopRadio == radio' = "off" /\ Disconnect

TryConnect ==
  /\ call' = "drain" /\ connecting' = FALSE
  /\ Disconnect
  /\ UNCHANGED <<wifiBits, result, radio, addressed>>

\* Mutant: the bits of the last attempt are kept.
FreshBitsMutant == wifiBits
FreshBits == {}

Outcome(bits) == IF "connect" \in bits THEN "connect" ELSE "fail"

\* In 100 ms the event loop has handled what the disconnect caused.  Then the
\* bits are cleared, s_connecting is set and the station starts to join.
Arm ==
  /\ call = "drain" /\ events = <<>>
  /\ connecting' = TRUE
  /\ LET works == IF handler = "try" THEN Works(form, form) ELSE Works(nvs.ssid, nvs.pwd)
     IN station' = IF works THEN "joining" ELSE "knocking"
  /\ addressed' = FALSE
  /\ IF FreshBits = {}
     THEN call' = "wait" /\ wifiBits' = {} /\ UNCHANGED result
     ELSE call' = "woken" /\ wifiBits' = {} /\ result' = Outcome(FreshBits)
  /\ UNCHANGED <<taskVars, httpVars, signalVars, radio, events, flashVars, led, faultVars>>

Off == UNCHANGED <<taskVars, httpVars, signalVars, flashVars, led>>

Joined ==
  /\ station = "joining"
  /\ station' = "up" /\ addressed' = (call # "none") /\ events' = Append(events, "got_ip")
  /\ Off /\ UNCHANGED <<tryVars, radio, faultVars>>

\* A wrong password, a network that is not there or does not answer.
TurnedAway ==
  /\ station \in {"joining", "knocking"}
  /\ Disconnect
  /\ Off /\ UNCHANGED <<tryVars, radio, addressed, faultVars>>

Dropped ==
  /\ station = "up" /\ drops < MaxDrops /\ drops' = drops + 1
  /\ Disconnect
  /\ Off /\ UNCHANGED <<tryVars, radio, addressed, boots>>

\* wifi_event_handler(): a disconnect counts only while s_connecting is set.
\* The bit ends a wait at once and is cleared with it.
HandleEvent ==
  /\ events # <<>> /\ events' = Tail(events)
  /\ LET bit == IF Head(events) = "got_ip" THEN {"connect"}
                ELSE IF connecting THEN {"fail"} ELSE {}
     IN IF call = "wait" /\ bit # {}
        THEN call' = "woken" /\ result' = Outcome(bit) /\ wifiBits' = {}
        ELSE wifiBits' = wifiBits \cup bit /\ UNCHANGED <<call, result>>
  /\ Off /\ UNCHANGED <<connecting, radio, station, addressed, faultVars>>

\* 15 s without an event.
TimesOut ==
  /\ call = "wait" /\ events = <<>>
  /\ call' = "woken" /\ result' = "timeout"
  /\ Off /\ UNCHANGED <<connecting, wifiBits, wifiVars, faultVars>>

Returns(value) ==
  /\ call = "woken" /\ (result = "connect") = value
  /\ call' = "none" /\ connecting' = FALSE /\ result' = "none" /\ addressed' = FALSE
  /\ UNCHANGED <<wifiBits, radio, station, events>>

----------------------------------------------------------------------------
(* post_connect_handler().                                                   *)

InHandler(here, next) == handler = here /\ handler' = next
ByHandler == UNCHANGED <<taskVars, server, faultVars, nvsUp, held>>

\* Refused while hibernating; a form without its fields changes nothing.
Accept(f) ==
  /\ server = "on" /\ ~hibernating
  /\ InHandler("idle", "ssid") /\ form' = f
  /\ ByHandler /\ UNCHANGED <<signalVars, tryVars, wifiVars, nvs, led>>

\* nvs_manager_set_*(): each write may fail, which the handler ignores; it
\* always does once the reset has closed the flash.
Store(here, key, next, skip) ==
  /\ handler = here
  /\ \/ nvsUp /\ nvs' = [nvs EXCEPT ![key] = form] /\ handler' = next
     \/ nvs' = nvs /\ handler' = skip
  /\ ByHandler /\ UNCHANGED <<form, signalVars, tryVars, wifiVars, led>>

StoreSsid == Store("ssid", "ssid", "pwd", "broker")
StorePwd == Store("pwd", "pwd", "broker", "broker")
StoreBroker == Store("broker", "broker", "connect", "connect")

BeginTry ==
  /\ InHandler("connect", "try") /\ Light("network", "red_blinking")
  /\ TryConnect
  /\ ByHandler /\ UNCHANGED <<form, signalVars, nvs>>

TryFails ==
  /\ InHandler("try", "respond") /\ Returns(FALSE) /\ Light("network", "red")
  /\ ByHandler /\ UNCHANGED <<form, signalVars, nvs>>

TrySucceeds ==
  /\ InHandler("try", "probe") /\ Returns(TRUE)
  /\ ByHandler /\ UNCHANGED <<form, signalVars, nvs, led>>

\* check_mqtt_reachable(), then the green light in any case.
Probe(reached) ==
  /\ InHandler("probe", IF reached THEN "signal" ELSE "respond")
  /\ reached => form \in Good
  /\ Light("network", "green")
  /\ ByHandler /\ UNCHANGED <<form, signalVars, tryVars, wifiVars, nvs>>

Signal ==
  /\ InHandler("signal", "respond") /\ done' = TRUE
  /\ ByHandler /\ UNCHANGED <<form, group, tryVars, wifiVars, nvs, led>>

Respond ==
  /\ InHandler("respond", "idle") /\ form' = Nothing
  /\ ByHandler /\ UNCHANGED <<signalVars, tryVars, wifiVars, nvs, led>>

HandlerStep ==
  \/ StoreSsid \/ StorePwd \/ StoreBroker \/ BeginTry \/ TryFails \/ TrySucceeds
  \/ \E reached \in BOOLEAN : Probe(reached)
  \/ Signal \/ Respond

StartServer == server' = "on"

\* web_server_stop() is a call that returns when the handler has ended.
StopCall == server' = IF server = "off" THEN "off" ELSE "stopping"
StopReturns == handler = "idle" /\ server' = "off"

----------------------------------------------------------------------------
(* temp_monitor_task() and its callbacks.                                    *)

InMonitor(here, next) == monitor = here /\ monitor' = next
ByMonitor == UNCHANGED <<main, handler, form, signalVars, tryVars, flashVars, faultVars>>

Overheat ==
  /\ InMonitor("normal", "stop") /\ hibernating' = TRUE /\ Light("network", "off")
  /\ ByMonitor /\ UNCHANGED <<server, wifiVars>>

\* Mutant: on_hibernate_enter() stops the radio first.
MonitorStopsServerMutant ==
  /\ InMonitor("stop", "stopping") /\ StopCall /\ radio' = "off"
  /\ Disconnect
  /\ ByMonitor /\ UNCHANGED <<hibernating, addressed, led>>

MonitorStopsServer ==
  /\ InMonitor("stop", "stopping") /\ StopCall
  /\ ByMonitor /\ UNCHANGED <<hibernating, wifiVars, led>>

\* wifi_manager_stop(), then LED 2.
Hibernate ==
  /\ InMonitor("radio", "cold") /\ StopRadio
  /\ Light("application", "purple")
  /\ ByMonitor /\ UNCHANGED <<server, hibernating, addressed>>

\* httpd_stop() returns: the handle is freed before s_server is cleared.
ServerFreed ==
  /\ monitor = "stopping" /\ server = "stopping" /\ handler = "idle" /\ server' = "freed"
  /\ ByMonitor /\ UNCHANGED <<monitor, hibernating, wifiVars, led>>

ServerStopped ==
  /\ InMonitor("stopping", "radio") /\ server \in {"freed", "off"} /\ server' = "off"
  /\ ByMonitor /\ UNCHANGED <<hibernating, wifiVars, led>>

\* Mutant: s_hibernating is not cleared.
RecoverMutant ==
  /\ InMonitor("cold", "restart")
  /\ ~(main = "await" /\ done) /\ main # "stopMonitor"
  /\ Light("application", "off")
  /\ ByMonitor /\ UNCHANGED <<server, hibernating, wifiVars>>

\* A minute later: whoever was ready to run has run.
Recover ==
  /\ InMonitor("cold", "restart")
  /\ ~(main = "await" /\ done) /\ main # "stopMonitor"
  /\ hibernating' = FALSE /\ Light("application", "off")
  /\ ByMonitor /\ UNCHANGED <<server, wifiVars>>

RestartAp ==
  /\ InMonitor("restart", "serve") /\ radio' = "apsta"
  /\ ByMonitor /\ UNCHANGED <<server, hibernating, station, events, addressed, led>>

\* Mutant: on_hibernate_exit() forgets the web server.
RestartServerMutant ==
  /\ InMonitor("serve", "normal") /\ Light("network", "blue")
  /\ ByMonitor /\ UNCHANGED <<server, hibernating, wifiVars>>

RestartServer ==
  /\ InMonitor("serve", "normal") /\ StartServer /\ Light("network", "blue")
  /\ ByMonitor /\ UNCHANGED <<hibernating, wifiVars>>

MonitorStep ==
  \/ Overheat \/ MonitorStopsServer \/ ServerFreed \/ ServerStopped \/ Hibernate
  \/ Recover \/ RestartAp \/ RestartServer

----------------------------------------------------------------------------
(* app_main().                                                               *)

InMain(here, next) == main = here /\ main' = next
ByMain == UNCHANGED <<handler, form, flashVars, faultVars>>

HasCredentials == nvs.ssid # Nothing /\ nvs.pwd # Nothing

\* try_saved_credentials(): both keys are there, or it returns at once.
Boot ==
  /\ \/ HasCredentials /\ InMain("boot", "saved") /\ TryConnect /\ Light("network", "red_blinking")
     \/ ~HasCredentials /\ InMain("boot", "provision") /\ UNCHANGED <<tryVars, wifiVars, led>>
  /\ ByMain /\ UNCHANGED <<monitor, hibernating, server, signalVars>>

SavedFail ==
  /\ InMain("saved", "provision") /\ Returns(FALSE) /\ Light("network", "off")
  /\ ByMain /\ UNCHANGED <<monitor, hibernating, server, signalVars>>

SavedSucceed ==
  /\ InMain("saved", "stopAp") /\ Returns(TRUE) /\ Light("network", "green")
  /\ ByMain /\ UNCHANGED <<monitor, hibernating, server, signalVars>>

\* temp_monitor_start(), the event group, web_server_start(): the first
\* hibernation is two minutes away.
Provision ==
  /\ InMain("provision", "await")
  /\ monitor' = "normal" /\ group' = TRUE /\ done' = FALSE /\ StartServer
  /\ Light("network", "blue")
  /\ ByMain /\ UNCHANGED <<hibernating, tryVars, wifiVars>>

Awaited ==
  /\ InMain("await", "stopMonitor") /\ done
  /\ ByMain /\ UNCHANGED <<monitor, hibernating, server, signalVars, tryVars, wifiVars, led>>

\* Mutant: the monitor is left running.
StopMonitorMutant ==
  /\ InMain("stopMonitor", "stopServer")
  /\ ByMain /\ UNCHANGED <<monitor, hibernating, server, signalVars, tryVars, wifiVars, led>>

\* Mutant: the event group goes before the server.
StopMonitorEarlyDelete ==
  /\ InMain("stopMonitor", "stopServer") /\ monitor' = "off" /\ hibernating' = FALSE
  /\ group' = FALSE
  /\ ByMain /\ UNCHANGED <<server, done, tryVars, wifiVars, led>>

\* temp_monitor_stop() deletes the task wherever it is.
StopMonitor ==
  /\ InMain("stopMonitor", "stopServer") /\ monitor' = "off" /\ hibernating' = FALSE
  /\ ByMain /\ UNCHANGED <<server, signalVars, tryVars, wifiVars, led>>

\* Stopping a handle that has been freed is undefined: app_main() is not
\* followed any further.
MainStopsServer ==
  /\ \/ server # "freed" /\ InMain("stopServer", "stopping") /\ StopCall
     \/ server = "freed" /\ InMain("stopServer", "undefined") /\ UNCHANGED server
  /\ ByMain /\ UNCHANGED <<monitor, hibernating, signalVars, tryVars, wifiVars, led>>

DeleteGroup ==
  /\ InMain("stopping", "stopAp") /\ StopReturns
  /\ group' = FALSE /\ done' = FALSE
  /\ ByMain /\ UNCHANGED <<monitor, hibernating, tryVars, wifiVars, led>>

\* wifi_manager_stop_ap() changes the mode and does not start a stopped driver.
StopAp ==
  /\ InMain("stopAp", "done") /\ radio' = IF radio = "off" THEN "off" ELSE "sta"
  /\ ByMain
  /\ UNCHANGED <<monitor, hibernating, server, signalVars, tryVars, station, events,
                 addressed, led>>

MainStep ==
  \/ Boot \/ SavedFail \/ SavedSucceed \/ Provision \/ Awaited \/ StopMonitor
  \/ MainStopsServer \/ DeleteGroup \/ StopAp

----------------------------------------------------------------------------
(* The reset button and power.                                               *)

ByButton == UNCHANGED <<taskVars, httpVars, signalVars, tryVars, wifiVars, faultVars>>

\* rst_button_task(): one poll.
PollLow == nvsUp /\ held > 0 /\ held' = 0 /\ ByButton /\ UNCHANGED <<nvs, nvsUp, led>>

\* Mutant: the threshold itself is only counted.
PollHighMutant ==
  /\ nvsUp /\ held + 1 <= HoldThreshold
  /\ held' = held + 1 /\ ByButton /\ UNCHANGED <<nvs, nvsUp, led>>

PollHigh ==
  /\ nvsUp /\ held + 1 < HoldThreshold
  /\ held' = held + 1 /\ ByButton /\ UNCHANGED <<nvs, nvsUp, led>>

\* Mutant: only the WiFi keys are erased.
EraseMutant ==
  /\ nvsUp /\ held + 1 = HoldThreshold /\ boots < MaxBoots
  /\ led' = Dark
  /\ nvs' = [Empty EXCEPT !.broker = nvs.broker] /\ nvsUp' = FALSE
  /\ ByButton /\ UNCHANGED held

\* on_rst_button(): nvs_flash_erase() closes the flash library as well.
Erase ==
  /\ nvsUp /\ held + 1 = HoldThreshold /\ boots < MaxBoots
  /\ led' = Dark
  /\ nvs' = Empty /\ nvsUp' = FALSE
  /\ ByButton /\ UNCHANGED held

\* esp_restart() after an erase, or the power fails: only the flash is kept.
Restart ==
  /\ boots < MaxBoots /\ boots' = boots + 1
  /\ main' = "boot" /\ monitor' = "off" /\ hibernating' = FALSE
  /\ handler' = "idle" /\ form' = Nothing /\ server' = "off"
  /\ group' = FALSE /\ done' = FALSE
  /\ call' = "none" /\ connecting' = FALSE /\ wifiBits' = {} /\ result' = "none"
  /\ radio' = "apsta" /\ station' = "idle" /\ events' = <<>>
  /\ addressed' = FALSE /\ nvsUp' = TRUE /\ held' = 0 /\ led' = Dark
  /\ UNCHANGED <<nvs, drops>>

Next ==
  \/ MainStep \/ HandlerStep \/ MonitorStep
  \/ \E f \in Forms : Accept(f)
  \/ Arm \/ Joined \/ TurnedAway \/ Dropped \/ HandleEvent \/ TimesOut
  \/ PollLow \/ PollHigh \/ Erase \/ Restart

Spec == Init /\ [][Next]_vars

\* Every task runs, and a reset that has erased the flash restarts.
Fairness ==
  /\ WF_vars(MainStep) /\ WF_vars(HandlerStep) /\ WF_vars(MonitorStep)
  /\ WF_vars(Arm) /\ WF_vars(HandleEvent) /\ WF_vars(TimesOut)
  /\ WF_vars(Restart /\ ~nvsUp)

FairSpec == Spec /\ Fairness

----------------------------------------------------------------------------
OptionalForms == Forms \cup {Nothing}

\* Every variable stays in its type; hold_count stays below HOLD_THRESHOLD.
TypeOK ==
  /\ main \in {"boot", "saved", "provision", "await", "stopMonitor", "stopServer", "stopping",
               "stopAp", "done", "undefined"}
  /\ monitor \in {"off", "normal", "stop", "stopping", "radio", "cold", "restart", "serve"}
  /\ handler \in {"idle", "ssid", "pwd", "broker", "connect", "try", "probe", "signal", "respond"}
  /\ form \in OptionalForms /\ hibernating \in BOOLEAN
  /\ server \in {"off", "on", "stopping", "freed"}
  /\ group \in BOOLEAN /\ done \in BOOLEAN /\ radio \in {"apsta", "sta", "off"}
  /\ call \in {"none", "drain", "wait", "woken"} /\ connecting \in BOOLEAN
  /\ station \in {"idle", "joining", "knocking", "up"}
  /\ events \in Seq({"disconnected", "got_ip"}) /\ wifiBits \subseteq {"connect", "fail"}
  /\ result \in {"none", "connect", "fail", "timeout"}
  /\ nvs \in [{"ssid", "pwd", "broker"} -> OptionalForms] /\ nvsUp \in BOOLEAN
  /\ held \in 0..HoldThreshold - 1
  /\ led \in [{"network", "application"} ->
              {"off", "blue", "red_blinking", "red", "green", "purple"}]
  /\ boots \in 0..MaxBoots /\ drops \in 0..MaxDrops /\ addressed \in BOOLEAN

\* The form handler sets its bit in an event group that exists
\* (web_server.c:239): app_main() deletes the group (gb-src.c:136) only after
\* every handler that may reach that line has ended, hibernation or not.
SignalsLiveGroup == handler = "signal" => group

\* wifi_manager_try_connect() reports success (wifi_manager.c:187-188) only if
\* this very attempt got an address: neither the bits of an earlier attempt nor
\* a late event of it can end the wait that way.
SuccessIsReal == (call = "woken" /\ result = "connect") => addressed

\* Nobody stops the radio under wifi_manager_try_connect(): hibernation waits
\* for the handler first (gb-src.c:52-58).
RadioKept == call # "none" => radio # "off"

\* Once app_main() has left provisioning (gb-src.c:134-140) nothing of it is
\* left or comes back: no server, no handler, no monitor that would restart the
\* access point, no event group.  That it gets there by way of web_server_stop()
\* unharmed is another question, StopsLiveServer.
ProvisioningOver ==
  main \in {"stopAp", "done"} =>
    server = "off" /\ handler = "idle" /\ monitor = "off" /\ ~group

\* web_server_stop() (web_server.c:283-290) stops a server that exists.  It need
\* not: the monitor may be deleted (gb-src.c:134) between the return of
\* httpd_stop() and the assignment that clears s_server, and app_main() then
\* stops the freed handle once more (gb-src.c:135).
StopsLiveServer == main # "undefined"

\* From nvs_flash_erase() to the restart (gb-src.c:42-43) the flash stays empty,
\* whatever a handler stores meanwhile: the reset is never half undone.
EraseIsFinal == ~nvsUp => nvs = Empty

\* app_main() says "Provisioning complete, WiFi connected" (gb-src.c:141) and
\* goes on to SNTP and MQTT; with no fault of the network the station is then
\* up.  It need not be: hibernation may have stopped the radio, or a second
\* form dropped the connection, between the signal and the end of the server.
ConnectedAtHandover == main = "done" /\ events = <<>> /\ drops = 0 => station = "up"

\* app_main() is through with provisioning, or undefined.
Left == main \in {"done", "undefined"}

\* Until the device is provisioned it is again and again ready for a user: the
\* access point and the server are up, nobody is served and it is not
\* hibernating.  No order of hibernation, form and reset locks the user out;
\* what becomes of a device that stops a freed server is undefined.
Reachable ==
  []<>(Left \/ (server = "on" /\ handler = "idle" /\ radio = "apsta" /\ ~hibernating))

\* A user who keeps submitting the right form whenever it is accepted, on a
\* network that lets the station in before the 15 s are over.
UserPersists ==
  /\ \A f \in Good : SF_vars(Accept(f))
  /\ SF_vars(Joined /\ call = "wait") /\ SF_vars(Probe(TRUE))

\* With such a user app_main() gets through provisioning (gb-src.c:131-140), or
\* through with the saved credentials, unless it stops a freed server on its way.
ProvisioningEnds == UserPersists => <>Left
=============================================================================
