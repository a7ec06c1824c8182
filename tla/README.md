# A verification project for GreenBox

GreenBox waters house plants: an ESP32 with two pumps and two soil sensors
(`gb-src/`), a FastAPI server with PostgreSQL (`server/`), and a Mosquitto
broker between them (`broker/`). This directory holds TLA+ models of its core
logic, the TLC configurations that check them on small instances, and TLAPS
proofs for arbitrary ones.

    tlc -workers 2 -config MCWatering.cfg MCWatering    # check one instance
    tlapm WateringProofs.tla                            # check the proofs

`PROJECT.json` lists the runs, the source lines behind every definition, the
hazards and the findings. Abbreviations: MM is
`gb-src/components/mqtt_manager/mqtt_manager.c`, NV is
`gb-src/components/nvs_manager/nvs_manager.c`.

## 1. Inventory

| Component | State | Operations | Interacts with | Hard behaviour | Correct when |
|---|---|---|---|---|---|
| Config handling (MM 354-391, 693-791) | `s_config_buf`, `EVT_CONFIG_RECEIVED`, `s_ports`, LED 2 | copy a message, validate, save, apply, acknowledge | MQTT task, main task, timer callbacks, flash | buffer overwritten while its fields are read one by one; one event bit; entries rewritten field by field; power loss | RAM follows flash, known ids are not rewritten, acks are true, an id names one config |
| Stored port configs (NV 138-204) | four keys for each port | set, get | main task | four durable writes, errors ignored | a restart brings back what ran |
| Watering control (MM 288-309, 454-527, 650-689, 953-1044) | two queues, two tasks, `s_active_pumps`, `s_sensor_health`, pump pins, `last_triggered_min` | schedule check, humidity check, watering task | timer service, watering tasks, config handler | three tasks and a timer service share LED 2, the counter and `s_ports`; full queues; dead sensors | pumps stop, once a minute unless an update intervenes, daily slots water, dead sensors do not flood, LED 2 tells the truth |
| Config push, server (`api.py` 109-157, `mqtt.py`, `handlers.py` 90-130) | `device_configs` rows, `_client` | POST config, publish, mqtt loop, ack handler | coroutines, broker, database | every `await` lets another coroutine run; reconnects; crashes | rows never claim what did not happen; a status never moves back (it does: `MCStatusBack.cfg`) |
| Broker and sessions (`broker/`) | retained message, sessions | route, retain, redeliver | both clients | clean sessions, no persistence, QoS 1 duplicates | a device that comes back gets the current config |
| Registration (MM 802-941, `handlers.py` 33-87, `gb-src.c` 159-167) | event bits, attempt, client handle | ten attempts with back-off | MQTT task, server | late responses, stale event bits, cleared bits, giving up | one live client at most; registered when it says so |
| Provisioning and WiFi (`gb-src.c`, `web_server.c`, `wifi_manager.c`, `temp_monitor.c`, `rst_button.c`) | `s_prov_done`, `s_server`, `s_connecting`, WiFi bits, `s_hibernating`, WiFi/MQTT keys | form post, connect, hibernate, reset | HTTP task, monitor task, event loop, main task | stop and start of one server by two tasks, a freed handle, stale disconnect events, credentials saved before they are verified | the device ends up connected or provisionable |
| LED driver (`led_driver.c`) | state, phase and timer of each LED | set, blink | all tasks, timer service | callback under way while a steady colour is set | the LED shows the last state |
| Humidity telemetry (MM 529-648) | none that others read | log, publish, ThingsBoard | timer service | blocking publish in the timer task | – |
| Watering events (MM 397-442, `handlers.py` 133-211) | `watering_events` | publish, insert | broker, database | duplicates | each watering once |
| Queries, views, schemas (`api.py`, `views.py`, `schemas.py`) | – | read-only | database | – | – |

In Phases 3 and 4 the parts meet in four places: `s_ports` (written by the main task, read and
marked by timer callbacks), LED 2 (written by the main task and both watering
tasks), the retained topic `greenbox/{id}/config/push` (server to device), and
the row of a config (written by the request and by the ack handler). In Phase 1
they meet in the web server's handle, the radio, the event group `s_prov_done`
and the flash; in Phase 2 in the event group `s_mqtt_events` and `s_response_buf`.

## 2. Modules

| Module | Models | Extends |
|---|---|---|
| `PortConfig` | the device's config handler with the MQTT task, the flash, restarts | – |
| `Watering` | timer service, queues, watering tasks, LED 2, sensor health, time | `PortConfig` |
| `ConfigDevice` | abstract device: which config id runs on each port | – |
| `ConfigProtocol` | requests, ack handler, broker, connection, abstract device | `ConfigDevice` |
| `Registration` | Phase 2: the retry loop, its event group and MQTT clients, broker and server | – |
| `Provisioning` | Phase 1: `app_main()`, form handler, WiFi, hibernation, reset, credentials | – |
| `LedDriver` | one LED, the tasks that set it, the blink timer and its command queue | – |
| `PortConfigProofs`, `WateringProofs`, `ConfigProtocolProofs`, `RegistrationProofs`, `ProvisioningProofs`, `LedDriverProofs` | theorems about one module each | the module, `TLAPS` |
| `PortConfigRefinement` | the proof that the handler implements `ConfigDevice` | `PortConfigProofs` |
| `WateringRefinement` | the proof that it still does beside the watering loop, and keeps its other promises | `WateringProofs`, `PortConfigRefinement` |
| `MCPortConfig`, `MCWatering`, `MCConfigProtocol` | constants of the instances | the module |

### PortConfig

State to code: `configBuf` is `s_config_buf` as the fields the parser finds in
it, `configBit` the event bit, `rx` the message the MQTT task is copying,
`msg` the locals of `handle_config_message()`, `sPorts` and `nvs` the two
copies of a port's config, `main` the program counter of the main task.

One action for every step that another task can see: the copy takes two
(`DataBegin`, `DataEnd`), the handler reads the five fields one by one
(`ReadId`, `ReadPort`, `ReadThreshold`, `ReadDuration`, `ReadSchedule`, with
`MissingId` and `MissingPort`), each NVS write is a step of its own that may fail
(`SetId` ... `SetDur`, `SaveFails`), and `s_ports` is updated in four
(`ApplyThreshold`, `ApplyDuration` with the reset of `num_slots`, `ParseSlot`
for each slot, `Activate`). `ConfigReboot` may come between any two of them.

The two tasks share the buffer without a lock, so the copy is not atomic towards
the reads. While `rx` is not `None` each read finds the field of the old
message, of the new one, or of a member of `Garbled` (`Visible`), whatever the
reads before it found: the id of one message may go with the port of another and
the schedule of a third. After `DataEnd` the buffer holds one whole message
and the event bit is set, so that message is handled again in full.

An empty `config_id` is an id (`NoId`), not a missing field (`None`):
`json_get_str()` accepts it, and it equals the id of a port that has no config.

Abstractions. JSON text is its fields; a slot is a minute of the day, with
`NoTime` for a string `sscanf` cannot read, which leaves the old time in the
entry and is 0:00 after a restart, which parses onto zeroed slots (`Restored`);
`schedule_raw[256]` is a number of complete slots (`RawSlots`), since a
slot cut in two ends the parse; a message too long for the buffer has
`fits = FALSE`. An NVS write is durable when `nvs_set_*` returns, which is
what ESP-IDF does; `nvs_commit` adds nothing to it, and its own failure after
four successful writes is not modelled. `outbox` is the queue of the MQTT
client; its bound `MaxOutbox` makes the handler wait, which it does not do in
the code, so it limits how many acks are pending, not what they say.

### Watering

`EXTENDS PortConfig`: every step of the handler interleaves with the timer
service and the watering tasks. `task`, `cmd`, `left`, `seen` are the program
counter and locals of `watering_task()`; `seen` is its `remaining`, read
in the critical section and used after it. `timer` is the callback the timer
service runs, the ports its loop has still to visit and the slot it has come
to; `due` holds expired timers. The ghost `fired` counts the schedule commands of
the present slots in this minute: it goes back to zero where `parse_schedule()`
drops the old slots (`SlotsReset`), not where the new ones are activated, so what
fires in between is counted. `cleared` notes that the activation took the mark
of a minute in which something had fired (`MarkCleared`). A restart counts anew,
since the mark is in RAM. `readings` are the locals of the humidity
callback. Counting in, LED write, delay, pin, counting out and the last LED
write are separate steps.

Time: `Tick` is half a minute, the schedule timer's period; every second one
expires the humidity timer. It waits until callbacks are done and both tasks
block, since these need milliseconds; a publish that blocks for long in the
timer service is outside the model. It never waits for the main task, which sleeps 10 s
after a rejection. The wall clock is the day modulo `DayMinutes`.

### ConfigDevice and the refinement

`ConfigDevice` keeps only config ids: what runs on a port (`running`), what a
restart would bring back (`saved`), what the handler has in hand, and the acks.
`PortConfig!ImplementsDevice` instantiates it with a refinement mapping
(`running` is `sPorts[p].id`, `saved` the id that `Restored(nvs[p])` yields,
`phase` groups the handler's program counter) and is checked as a property of
runs `portconfig` and `watering_update`, and proved: torn saves, half-written entries and mixed bodies
never show through. Mixed heads do, and on purpose: the abstract device takes
id and port in two steps as well (`TakeId`, `TakePort`), from the same choice of
old, new or mixed (`Visible`, `Mixed`). `saved` changes at the first NVS write if all four
keys were present, at the last one if they were not; both are the abstract
`Save`.

### ConfigProtocol

`EXTENDS ConfigDevice` and adds the server, the broker and the connection. A
request is a program counter (`post`): insert, publish, wait for PUBACK, mark
pushed. Between two of these lies an `await`. `handle_config_ack()` loads the
row (`LoadRow`) and commits (`CommitAck`); SQLAlchemy writes only columns that
changed since the load, and sessions keep loaded values
(`expire_on_commit=False`), hence the two steps and `loaded`. PUBACKs and acks
share the connection `toServer`; aiomqtt completes a PUBACK at once while acks
wait in its queue, so a PUBACK may overtake an ack and not the reverse
(`PublishConfirmed` takes it out wherever it stands).

A new device starts with empty flash and an empty table
(`NewDeviceAssumption`): `RunningIsStored` would be false of a device that brings
configs from another database.

The server draws ids at random, so a mixture of two is not a third config
(`RandomIdsAssumption`). It may still reach the device, be run and acknowledged:
`Ids` is larger than `Configs`, and the ack of an unknown id loads no row.

Faults, each bounded: the device's connection (`LinkLost`; `AckRepeated` is a
connection lost between an ack and its PUBACK), power cycles
(`DeviceRestarts`), the server's connection (`ServerDisconnected`), a crash
(`ServerCrashes`) and a broker restart (`BrokerRestarts`), which loses the
retained message because `mosquitto.conf` sets no persistence. The broker, the
MQTT clients and SQL commits are external: modelled from how the code uses
them.

### Registration

`stage` and `step` are the program counter of `mqtt_manager_register()`: each
stage makes a call, blocks in `wait_bits()` and is woken with the bits it
returned (`got`). The MQTT task may raise a bit (`Raise`) between any two of
these steps; a bit that ends a wait is cleared with the wake-up, as
`xEventGroupWaitBits()` does, and one that comes at another time stays in
`bits`. `Destroy` ends connection, session and outbox of a client, since
`esp_mqtt_client_stop()` waits for its task, but not what is on its way through broker and
server: the answer to a request of an earlier attempt may reach the
subscription of a later one. `Receive` may overwrite `s_response_buf` while the
main task parses it; the status read then is the old one, the new one or
neither ("torn").

Faults, bounded: `Refused`, `LinkLost` and an answer that comes after the time
is up share `MaxFaults`; `ServerFails` loses what the server has not handled, and
`HandlingFails` is a database that fails one request, with or without its row
committed (`mqtt.py` 67-68), both in `MaxServerFaults`; `PowerCycle` restarts the
device. Every wait may time out, whatever the server does (`TimesOut`); that
counts as a fault only if what was awaited can still come (`Coming`). A server
that is away loses the requests that reach the broker meanwhile, attempt after
attempt, and need not come back: the ghost `missed` counts them. The ghost
`spoilt` says that something went wrong during the attempt. "rejected" is left out: no server code sends it.

The three waits after the first also watch `EVT_DISCONNECTED` but look at their own
bit only. With both set at once (MM 864-865) the attempt goes on over a session
that is gone and fails one stage later; `FaultCost` counts that.

### Provisioning

One program counter for each of four tasks: `main` (`app_main()`), `monitor`
(`temp_monitor_task()` with the callbacks it runs), `handler`
(`post_connect_handler()`) and `held` (the reset button's counter); `events`
is the queue of the event loop. `call` is where `wifi_manager_try_connect()`
stands: the main task makes that call before there is a server and the handler
afterwards, so there is one at most. `server` is "stopping" while a task waits in
`httpd_stop()`, which returns when the handler has ended; it is then "freed" until
`s_server` is cleared (`ServerFreed`, `ServerStopped`). The monitor may be
deleted between the two, and if `app_main()` stops a freed server `main` becomes
"undefined" and is not followed further. `radio` is the WiFi
driver, `station` the station in it, `nvs` the keys in the flash.

Faults and environment: the network may turn the station away, lose it
(`Dropped`), or be late; a write to the flash may fail; power may fail at any
point; the button may be held. `nvs_flash_erase()` closes the flash library,
so nothing can be written between the erase and the restart; the handler
ignores that error as it ignores every other.

What the model takes from time: 100 ms let the event loop drain (`Arm` waits
for `events = <<>>`, the comment at `wifi_manager.c` 153-156 says why), a wait
of 15 s ends only with no event pending, hibernation lasts a minute, in which a main task that is ready to
run has run (`Recover`). A
`web_server_start()` that fails when hibernation ends (`gb-src.c` 66) is left out.

### LedDriver

A call of `led_driver_set()` is the sequence `Steps` of writes and timer
commands; a setter takes them one by one (`todo`), so calls overlap in every
way. The timer service runs commands and `blink_callback()` in turn; the
callback reads the colour, turns the phase and paints in three steps. A command
that finds the queue full is dropped. `blink_phase` is kept modulo 8, the
period of the double blink (256 is a multiple). `set_rgb()` is one write: that
two of them may mix their three pins is left out. `disturbed` is a ghost that
records overlapping calls, overtaking ticks and dropped commands since a call
last found everything at rest.

No such promise holds for a call that was disturbed: a tick that comes before the queued stop, or a
stop that comes before another call's start, leaves a steady LED dark (a steady
state has no blink colour, `led_driver.c` 67). `ShowsWhatWasSet` says that the
next undisturbed call repairs it.

## 3. Runs

Pass:

| Run | Question | Instance |
|---|---|---|
| `portconfig` | Does the config handler survive overlapping messages, failed saves and power loss? Does it implement the abstract device? | 2 ports, a config saved on port 1; 3 messages: for port 2 a config with an unreadable time, more slots than the array and than the text buffer, and one with the empty id; an oversize one; a garbled text without id, with an invalid port and threshold. 1 power cycle, 1 pending ack |
| `watering` | Do the tasks, callbacks and queues keep LED 2, the mark of the minute and the doses right, and does everything water in the end? | 2 ports, slots in both minutes of a 2-minute day, a humidity trigger as long as its period, queues of 2, threshold 2, dry or failing sensors; no push |
| `watering_update` | And while a push moves the slots of the port that is being checked or watered? | 1 port, two slots in one minute, 1 push, 1 power cycle |
| `protocol` | Do database, broker and device agree while buffers mix, the device restarts and its connection breaks? | 2 concurrent requests for 2 ports, both fit; mixed heads; 1 power cycle, 1 lost connection |
| `protocol_converges` | Does the device end up with the retained config, also when the server or the broker fails? | 2 requests, one config too long for the buffer; 1 power cycle, 1 lost connection, 1 server or broker fault |
| `registration` | Does the retry loop survive stale bits, late answers and a server that fails? | 3 attempts, 2 faults, 1 fault or outage of the server, 1 power cycle |
| `provisioning` | Are server, radio and event group shared safely, and does the device get connected? | a right and a wrong form, 1 power cycle or reset, 1 lost network, a hold of 2 polls |
| `led` | Does an LED show what was set? | 2 setters, 3 calls, a steady, a blinking and a double blinking state, a queue of 4 |

`RamMatchesNvs`: a port runs what its keys hold, unless its last save failed or
it is being rewritten; the times of slots whose text cannot be read are left out.
`NoRewrite`: a known id causes no write. `AppliedMeansRunning`: an `applied` ack names
a port that runs that id, in an active entry unless the id is empty. `OncePerMinute`, without pushes; `OncePerMark`, with them: one config fires
twice in a minute only around the activation that takes its mark away.
`RestartRestores`, where every time can be read: a restart brings back the slots
with their times. `QuiescentGreen`: section 4. `DeadSensorDose`: a
sensor at the rails orders fewer waterings than the fault threshold.
`PumpStops`, `DailyWatering`: liveness. `RetainedRuns`: when nothing is under
way the device runs the retained config. `AppliedWasRun`,
`RunningIsStored` (of whichever port a config runs on), `PushedIsPublished`: rows
and device tell one story. `AckSurvivesDevice`: faults of the device never lose an acknowledgement.
`Converges`: `RetainedRuns` is reached and kept, also after faults.

`RegisteredMeansRow`: whoever goes on to Phase 3 is in the database.
`NoNeedlessRetry`: an attempt fails only for a cause of its own. `FaultCost`: a
fault costs one attempt, a server that is away one for each request it misses,
and all together one more; without any of them none fails. `GroupOutlivesClient`,
`SignalsLiveGroup`: no bit is set in a deleted event group. `RegistrationEnds`:
Phase 2 ends, also with a server that goes away for good. `SuccessIsReal`: a connect call never reports an address of
another attempt. `RadioKept`: no one stops the radio under a connect call.
`ProvisioningOver`: nothing of Phase 1 survives it, if `app_main()` gets through. `EraseIsFinal`: a reset is
complete. `Reachable`: until it is provisioned the device is again and again ready for a
user. `ProvisioningEnds`: it is provisioned if the user persists.
`ShowsWhatWasSet`, `BlinkingTimerRuns`, `Blinks`: above.

`TypeOK`/`ConfigTypeOK` also hold the bounds that matter: queue lengths, array
indices, a valid port wherever the handler indexes with it.

Violations, each a finding in `PROJECT.json`:

| Run | What the code does |
|---|---|
| `one_slot` | a port with one daily slot waters on one day: `last_triggered_min` is never reset (MM 512-514) |
| `torn_save` | a power loss inside a save leaves a new id on an old config, which the idempotency test then takes as applied (NV 151-167) |
| `two_ports` | the second port's push replaces the first one's retained message (`mqtt.py` 84) |
| `handover` | Phase 2 may start without WiFi: hibernation or a second form came between success and the end of the server (`gb-src.c` 134-141) |

Six more properties say what a text beside the code claims and fail. They have a
cfg each and no entry among the runs; `tlc -config <cfg> <module>` prints the
trace. Where a weaker property does hold, it is the one that is checked and
proved.

| Module and cfg | Property | What the code does | What holds |
|---|---|---|---|
| `MCConfigProtocol`, `MCMixedHead.cfg` | `RunsOnItsPort` | during the copy of the second push the handler reads the new id and the old port, and the config of one port stays on the other (MM 379, 739-740, against `greenbox-docs.tex` 605-606) | `RetainedRuns`, `RunningIsStored` |
| `MCPortConfig`, `MCMixedBody.cfg` | `IdNamesBody` | the same with the new id and the old trigger and slots; the whole push is then taken as already applied (MM 379, 766, against MM 723-725) | `RamMatchesNvs` |
| `MCPortConfig`, `MCRestored.cfg` | `RestartRestores` | a time that cannot be read, which the server accepts (`schemas.py` 17), stays the old one in RAM and is 0:00 after a restart (MM 236-239, against MM 946-947) | `RestartRestores` for readable times |
| `MCWatering`, `MCDoubleFire.cfg` | `OncePerMinute` | a new slot fires while it is parsed into an active port, line 780 clears the mark, and it fires again in the same minute (MM 225-250, 778-780, against MM 96) | `OncePerMark` |
| `MCConfigProtocol`, `MCStatusBack.cfg` | `StatusForward` | the request awaits the PUBACK and overwrites "applied" with "pushed" (`api.py` 148, against `models.py` 5-6) | `AppliedWasRun`, `PushedIsPublished` |
| `Provisioning`, `MCFreed.cfg` | `StopsLiveServer` | the monitor is deleted after `httpd_stop()` has returned and before `s_server` is cleared; `app_main()` stops the freed handle (`web_server.c` 286-287, `gb-src.c` 134-135) | `ProvisioningOver`, up to that call |

Three more disagreements have neither property nor cfg: the last of two watering
tasks to write LED 2 wins, so a running pump may be shown green (MM 480-481, against MM
449-452); a failed ADC read is compared with the threshold (MM 677, against MM
259-261); acks sent while the server is away are lost (`mqtt.py`
38, against `greenbox-docs.tex` 192-194). The models keep all three behaviours.

In `portconfig` the complete messages are all for port 2, so that they meet
each other: a mixture of two is a mixture whichever port they name, a port that a
mixture invents is in `Garbled`, and port 1 shows what the handler leaves alone.
The counterexamples above need no fault and no restart, so their instances have
none. The garbled values are one of each sort a field can
turn into: missing, unknown, out of range. The server's faults are in
`protocol_converges` only, where one config fits; that two fitting configs mix in the
buffer while the server fails is left to the proofs.

A day has two minutes in the model: the mark `last_triggered_min` is compared
with the current minute only, so a longer day adds minutes in which nothing
happens. Two ports are the board's. A queue of two is full after two commands,
which the instance reaches; a threshold of two has a first, a last and a
saturated count. One fault of each kind covers each interrupted step; pairs of
different kinds occur as well. Two configs for different ports make the
conflict on the retained topic; more add symmetric ones.

Three attempts stand for ten: `FaultCost` relates failures to faults and not to
the limit, and three suffice for an attempt that is spoilt by its predecessor
and followed by another. A hold of two polls has a count below the threshold and one at it. In
`led` a queue of four overflows, one of ten would not with three calls; three
calls are two that overlap and one that finds what they left. `CHECK_DEADLOCK
FALSE` is set for `led` only, because an LED rests after the last of the bounded
calls.

Fairness: weak fairness of each watering task, of the timer service and of
time (`Watering`), of each coroutine, of reconnecting and of the device's tasks
(`ConfigProtocol`). FreeRTOS runs every ready task, asyncio every ready
coroutine, both clients reconnect forever. New requests, faults, messages and the
main task of `Watering` have none. WiFi that never comes back is excluded by
fairness of `LinkUp`. `Registration` and `Provisioning`: weak fairness of every
task, of a wait for what cannot come any more, of a connected server (not of its return:
a server that is away may stay away) and of the restart after an erase, none of faults, forms or the button.
`ProvisioningEnds` alone assumes `UserPersists`, strong fairness of the right
form, of the network that lets the station in, and of the broker that answers.
`LedDriver`: weak fairness of setters and ticks, strong fairness of
`RunCommand`, since the timer service empties its queue in every round
between two ticks.

## 4. Proofs

TLAPS proves, for every value of the constants that the named assumptions allow,
every safety invariant and every action property of the passing runs, where it says so
under an assumption, and the refinement. Each invariant is `Spec => []Inv` of its module.

| Module | Theorem | States |
|---|---|---|
| `PortConfigProofs` | `ConfigTypeCorrect`, `RamMatchesNvsCorrect` | `ConfigTypeOK`, `RamMatchesNvs` |
| | `RestartRestoresCorrect` | `RestartRestores`, if every time can be read (`AllReadable`) |
| | `NoRewriteCorrect`, `AppliedMeansRunningCorrect` | the two action properties |
| `PortConfigRefinement` | `HandlerImplementsDevice` | `ConfigSpec => ImplementsDevice` |
| `WateringProofs` | `TypeCorrect`, `ActiveCountCorrect` | `TypeOK`; the counter equals the number of counted tasks (`ActiveCount`, in no run) |
| | `OncePerMarkCorrect` | `OncePerMark`, under any pushes |
| | `OncePerMinuteCorrect` | `OncePerMinute`, without pushes (`Messages = {}`) |
| | `DeadSensorDoseCorrect` | bounded dose of a dead sensor |
| | `QuiescentGreenCorrect` | LED 2 is green when all is idle |
| `WateringRefinement` | `WateringImplementsDevice` | `Watering` implements `ConfigDevice` |
| | `WateringKeepsRam`, `WateringKeepsFlash`, `WateringKeepsAcks` | the properties of `PortConfig`, beside the watering loop |
| `ConfigProtocolProofs` | `ProtocolSafe`, `TypeCorrect` | the inductive invariant; `TypeOK` |
| | `AppliedIsRun`, `PushedIsAtBroker`, `RunningHasRow` | `AppliedWasRun`, `PushedIsPublished`, `RunningIsStored` |
| | `SettledRunsRetained`, `AcksSurvive` | `RetainedRuns`, `AckSurvivesDevice` |
| `RegistrationProofs` | `RegistrationSafe`, `TypeCorrect` | the inductive invariant; `TypeOK` |
| | `RegisteredHasRow`, `RetriesHaveACause`, `GroupOutlives`, `FaultsAreCheap` | `RegisteredMeansRow`, `NoNeedlessRetry`, `GroupOutlivesClient`, `FaultCost` |
| `ProvisioningProofs` | `ProvisioningSafe`, `TypeCorrect` | the inductive invariant; `TypeOK` |
| | `SignalsReachGroup`, `SuccessesAreReal`, `RadioIsKept`, `ProvisioningIsOver`, `EraseStays` | `SignalsLiveGroup`, `SuccessIsReal`, `RadioKept`, `ProvisioningOver`, `EraseIsFinal` |
| `LedDriverProofs` | `LedSafe`, `TypeCorrect` | the inductive invariant; `TypeOK` |
| | `TimerOutlives`, `CallsAreKept` | `BlinkingTimerRuns`, `ShowsWhatWasSet` |

The assumptions are the ones the modules name on their constants, and TLC
evaluates them in the runs. They say that placeholders differ from what they
stand in for (`NoneAssumption`, `IdsAssumption`, `HeadsOfAssumption`,
`FittingAssumption`, `FormsAssumption`), that bounds are numbers and that
queue, threshold and retry counts are positive (`SizesAssumption`,
`QueueAssumption`, `RetriesAssumption`, `HoldAssumption`, `BoundAssumption` and
the like), that ports are natural numbers and the main one exists
(`PortsAssumption`, `DevicePortsAssumption`), that a garbled text has the same
fields as a message (`GarbledAssumption`, `MixedAssumption`), and three facts of the code: the
server validates thresholds (`ServerAssumption`, `~BadValues`), draws ids at
random (`RandomIdsAssumption`), and a new device holds no config
(`NewDeviceAssumption`). The bounds on faults and calls are
arbitrary, so the theorems hold for any number of them.

### The arguments

*Config handler.* `RamMatchesNvs` says nothing of the section in which a port is
saved and rewritten, so it is not inductive: when the section ends one must know
that all was saved and all was applied. `SaveProgress` (how many of the keys
hold the message) and `UpdateProgress` (how much of the entry does) carry that
through the handler; `RamInv` is their conjunction with the types. It says
nothing of where the fields in `msg` came from, so mixed messages change nothing in
it. `RestartRestoresCorrect` adds that every text in buffer, handler and flash
has readable times; parsing then leaves nothing of the old slots. `NoRewrite`
and `AppliedMeansRunning` follow from `AckInv`: a port gets a new id while it is
saved, carries it once it is applied, and a port with an id other than the empty one is
active unless its schedule is just being parsed.

*Refinement.* Every step of the handler is a step of the abstract device or
leaves its variables alone. The only hard steps are the four writes: whether
`Restored(nvs[p])` changes with the first or the last depends on what the keys
held, and the last is the abstract `Save` only because the others hold the
message by then (`SaveProgress`). Each read of id or port maps to the same read of the
abstract device, whose `Mixed` holds the heads of `Garbled`. By `BadThreshold` a
threshold outside 0..100 that is read while nothing is being copied has come in a
message; during a copy any may be read. `TakeBadValue` of the abstract device has the
same two reasons to reject. `Watering` adds
steps that touch nothing of the handler but the mark of an entry (`Beside`); that
mark is in none of `RamInv`, `AckInv` and the mapping, so all carry over.
`ConfigProtocol` is built from the actions of `ConfigDevice`, so its device is the
one that the handler implements.

*Watering.* `FiredInv`: a port whose slots have fired in this minute carries its mark,
or the mark has been taken from it since (`cleared`), or both and it has fired twice. The
mark can be taken only once, since the next parse starts a new count; hence
`OncePerMark`. Without messages the handler never runs (`NoUpdates`), nothing is cleared,
and `OncePerMinute` follows. `DeadSensorDose` needs that the doses never exceed the number of
rail readings counted (`DoseInv`), with a gap of one while a callback is about to
decide. `QuiescentGreen` needs `LedInv`: cyan means a pump is counted or some
task is about to write green, blue and white that the handler is busy. Together
with `ActiveCount`, idle tasks then leave only green.

*Config protocol.* `KnownInv` follows a config through every place it can be in:
an id of a config that is retained, on its way, in the buffer, in the handler, run
or saved was published, on whichever port it is, and an ack that says "applied", wherever it is, names a config that
was run. `RequestInv` ties a row to its request; the two give `AppliedWasRun`,
`PushedIsPublished` and `RunningIsStored`. `RetainedRuns` needs a statement for
every state on the way to a settled one (`SessionInv`): a subscribed device has
been sent the retained message last of all, and once nothing is left on its way,
that message is in the buffer, or taken and equal to the buffer, or run
(`Handled`). What the handler made of a mixture does not matter: the copy that was under way
ends with the event bit set and a whole message in the buffer, and that one is followed by the
retained one or is it; a power cycle, a lost connection and a broker restart end the subscription.
The last disjunct of `Handled` adds that its ack is committed or under way
(`AckedOrUnderway`), which only a power cycle or a fault of the server
can undo; hence `AckSurvivesDevice`.

*Registration.* `StageInv` relates client, event group, bits and stage;
`RowInv`: before the first commit nobody has heard of a success. `CleanInv` says
what is still to come in an attempt that nothing has spoilt: one link of request,
server, answer and bit is always there. `FaultCost` needs an account (`CostInv`): every fault
and every request missed by a server that is away has paid for the attempt it
spoilt, and one more is paid for while the single "registered" may be overwritten by an
"already_registered" as it is parsed (`Tearable`). That nothing fails without a
fault is `LoneInv`: there is one request and one answer to it.

*Provisioning.* `TaskInv` says who exists when: handler and server only while
`app_main()` serves, a server the monitor has stopped stays off until the
monitor starts it again; a freed one leads to "undefined" and to no claim. `RadioInv`: a stopped radio has no server beside it, so no connect
call. `AddressInv`: an address still in the event queue came during the call that
waits for it.

*LED driver.* Commands wait in a queue, so the invariants speak of what the timer
will be once it is empty (`Ends`). `TimerInv`: a blinking state has a timer that will
run or a call that will write or start. `CalmInv` follows the one undisturbed
call: after its stop the timer will stop, after its period it will have that
period, after its start it will run.

Each part is proved action by action, and the steps that leave a part's
variables alone share one lemma.

Only model-checked: the liveness properties (`PumpStops`, `DailyWatering`,
`Converges`, `RegistrationEnds`, `Reachable`, `ProvisioningEnds`, `Blinks`),
since the prover has no fairness reasoning beyond temporal tautologies; and the
violations, which are counterexamples.

## 5. Not modelled

The event log: each message is one insert, so a redelivered event is stored
twice, although `greenbox-docs.tex` 594-595 says duplicates are dropped.
Telemetry changes no shared state. Queries, views and schemas only read or
validate. Within the modelled parts: the text of messages and forms, logging,
the `reason` of a rejection or of a disconnect, timestamps, SNTP, the width of
`duration_s`, blocking of `esp_mqtt_client_publish()`, failures to create a
task, timer or event group, the formatting of a corrupted flash partition, a `web_server_start()` that fails after hibernation (`gb-src.c` 66), the
reset button after Phase 1, simultaneous devices (each has its own topics and
rows), and creation times of rows. After Phase 1 nothing reconnects a lost
station (`wifi_manager.c` 77); the later modules assume a link that comes back.

## 6. Plan

1. `LatestRuns` for a device with one port in use: the retained message is then
   the latest of its port, by the invariant of `ConfigProtocol`.
2. The part of `IdNamesBody` that does hold: of every port that no save was
   interrupted and no copy overlapped on.
3. Safety parts of the liveness properties: what a pump that is on still has
   ahead of it (`PumpStops`), and that Phase 2 has a step left until it ends.
4. Two configs of one port with creation order in `ConfigProtocol`; a pump
   service that `Watering` implements.
