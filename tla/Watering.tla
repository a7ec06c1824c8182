------------------------------ MODULE Watering ------------------------------
(***************************************************************************)
(* Phase 4 (gb-src/components/mqtt_manager): the FreeRTOS timer service     *)
(* runs the schedule and humidity callbacks, which post commands to one     *)
(* bounded queue per port; one watering task per port takes them, drives    *)
(* the pump and keeps s_active_pumps and LED 2.  EXTENDS PortConfig: the    *)
(* main task rewrites s_ports and sets LED 2 at the same time.              *)
(*                                                                          *)
(* Time advances by half a minute, the period of the schedule timer.  A     *)
(* Tick waits until the callbacks have drained and both watering tasks      *)
(* block on their queue or in vTaskDelay(): they are the highest tasks of   *)
(* the firmware and need far less than 30 s.  The main task is not waited   *)
(* for.  A duration counts half minutes.                                    *)
(***************************************************************************)
EXTENDS PortConfig

CONSTANTS
  QueueLen,        \* length of s_watering_queue[i], 4
  FaultThreshold,  \* SENSOR_FAULT_THRESHOLD, 3
  DayMinutes,      \* minutes of a day
  Readings         \* what read_humidity() may return, in tenths of a percent

\* HUMIDITY_INVALID, -1.0f
Invalid == -10

ASSUME QueueAssumption == QueueLen \in Nat \ {0}
ASSUME ThresholdAssumption == FaultThreshold \in Nat \ {0}
ASSUME DayAssumption == DayMinutes \in Nat \ {0}
ASSUME ReadingsAssumption == Readings \subseteq 0..1000 \cup {Invalid} /\ Readings # {}

VARIABLES
  queue,     \* s_watering_queue of each port
  task,      \* where each watering task stands
  cmd,       \* its local cmd
  left,      \* half minutes left in its vTaskDelay()
  seen,      \* its local remaining
  gpio,      \* level of each pump pin
  active,    \* s_active_pumps
  health,    \* s_sensor_health
  now,       \* wall clock, in half minutes of the day
  humNext,   \* the humidity timer expires with the next Tick
  due,       \* expired timers whose callback has not begun
  timer,     \* the callback running in the timer service and where it stands
  readings,  \* local readings of the humidity callback
  fired,     \* ghost: schedule commands in this minute by the present slots, since
             \* the last power cycle
  cleared,   \* ghost: ports whose mark was taken away after they had fired
  stuck      \* ghost: commands on rail readings since the last one in band

wateringVars == <<queue, task, cmd, left, seen, gpio, active, health, now, humNext,
                  due, timer, readings, fired, cleared, stuck>>
taskVars == <<queue, task, cmd, left, seen, gpio, active>>
clockVars == <<now, humNext>>
timerVars == <<due, timer, readings>>
vars == <<configVars, wateringVars>>

Minute == now \div 2

NoCmd == [dur |-> 0, trigger |-> "none"]
NoTimer == [callback |-> "none", todo |-> {}, slot |-> 1]

\* What configVars keeps when a watering task or a callback runs.
KeepConfig == UNCHANGED <<rx, configBuf, configBit, main, msg, nvs, outbox, failed, boots>>

Each(v) == [p \in Ports |-> v]
NotSeen == [run |-> 0, faulty |-> FALSE]

Init ==
  /\ ConfigInit
  /\ queue = Each(<<>>) /\ task = Each("receive")
  /\ cmd = Each(NoCmd) /\ left = Each(0) /\ seen = Each(0)
  /\ gpio = Each(0) /\ active = 0
  /\ health = Each(NotSeen)
  /\ now \in 0..(2 * DayMinutes - 1) /\ humNext = FALSE
  /\ due = {} /\ timer = NoTimer /\ readings = Each(0)
  /\ fired = Each(0) /\ cleared = {} /\ stuck = Each(0)

\* Power loss: the pins fall low, RAM is zeroed and the timers are started
\* anew; the clock, set by SNTP, goes on.
Reboot ==
  /\ ConfigReboot
  /\ queue' = Each(<<>>) /\ task' = Each("receive")
  /\ cmd' = Each(NoCmd) /\ left' = Each(0) /\ seen' = Each(0)
  /\ gpio' = Each(0) /\ active' = 0
  /\ health' = Each(NotSeen)
  /\ now' = now /\ humNext' = FALSE
  /\ due' = {} /\ timer' = NoTimer /\ readings' = Each(0)
  /\ fired' = Each(0) /\ cleared' = {} /\ stuck' = Each(0)

----------------------------------------------------------------------------
(* The watering task of port p.                                             *)

Goto(p, here, next) ==
  /\ task[p] = here
  /\ task' = [task EXCEPT ![p] = next]

Receive(p) ==
  /\ Goto(p, "receive", "on")
  /\ queue[p] # <<>>
  /\ cmd' = [cmd EXCEPT ![p] = Head(queue[p])]
  /\ queue' = [queue EXCEPT ![p] = Tail(queue[p])]
  /\ gpio' = [gpio EXCEPT ![p] = 1]
  /\ UNCHANGED <<left, seen, active, configVars, health, clockVars, timerVars,
                 fired, cleared, stuck>>

\* Mutant: a flag instead of a counter.
CountMutant(p) ==
  /\ Goto(p, "on", "counted")
  /\ active' = 1
  /\ UNCHANGED <<queue, cmd, left, seen, gpio, configVars, health, clockVars, timerVars,
                 fired, cleared, stuck>>

Count(p) ==
  /\ Goto(p, "on", "counted")
  /\ active' = active + 1
  /\ UNCHANGED <<queue, cmd, left, seen, gpio, configVars, health, clockVars, timerVars,
                 fired, cleared, stuck>>

ShowPumping(p) ==
  /\ Goto(p, "counted", "lit")
  /\ led2' = "CYAN_BLINKING"
  /\ KeepConfig /\ UNCHANGED sPorts
  /\ UNCHANGED <<queue, cmd, left, seen, gpio, active, health, clockVars, timerVars,
                 fired, cleared, stuck>>

\* The started event goes out, then vTaskDelay().
StartDelay(p) ==
  /\ Goto(p, "lit", "delay")
  /\ left' = [left EXCEPT ![p] = cmd[p].dur]
  /\ UNCHANGED <<queue, cmd, seen, gpio, active, configVars, health, clockVars, timerVars,
                 fired, cleared, stuck>>

\* Mutant: the pin is left high.
StopPumpMutant(p) ==
  /\ Goto(p, "delay", "off")
  /\ left[p] = 0
  /\ UNCHANGED <<queue, cmd, left, seen, gpio, active, configVars, health, clockVars,
                 timerVars, fired, cleared, stuck>>

StopPump(p) ==
  /\ Goto(p, "delay", "off")
  /\ left[p] = 0
  /\ gpio' = [gpio EXCEPT ![p] = 0]
  /\ UNCHANGED <<queue, cmd, left, seen, active, configVars, health, clockVars, timerVars,
                 fired, cleared, stuck>>

\* Mutant: remaining is read before the decrement.
UncountMutant(p) ==
  /\ Goto(p, "off", "uncounted")
  /\ active' = active - 1
  /\ seen' = [seen EXCEPT ![p] = active]
  /\ UNCHANGED <<queue, cmd, left, gpio, configVars, health, clockVars, timerVars,
                 fired, cleared, stuck>>

Uncount(p) ==
  /\ Goto(p, "off", "uncounted")
  /\ active' = active - 1
  /\ seen' = [seen EXCEPT ![p] = active - 1]
  /\ UNCHANGED <<queue, cmd, left, gpio, configVars, health, clockVars, timerVars,
                 fired, cleared, stuck>>

\* Outside the critical section; then the stopped event goes out.
ShowIdle(p) ==
  /\ Goto(p, "uncounted", "receive")
  /\ led2' = IF seen[p] = 0 THEN "GREEN_STEADY" ELSE led2
  /\ cmd' = [cmd EXCEPT ![p] = NoCmd]
  /\ seen' = [seen EXCEPT ![p] = 0]
  /\ KeepConfig /\ UNCHANGED sPorts
  /\ UNCHANGED <<queue, left, gpio, active, health, clockVars, timerVars,
                 fired, cleared, stuck>>

TaskStep(p) ==
  \/ Receive(p) \/ Count(p) \/ ShowPumping(p) \/ StartDelay(p)
  \/ StopPump(p) \/ Uncount(p) \/ ShowIdle(p)

----------------------------------------------------------------------------
(* The timer service: one callback at a time, port after port.               *)

\* Mutant: one command too many.
SendMutant(p, c) ==
  queue' = IF Len(queue[p]) <= QueueLen
           THEN [queue EXCEPT ![p] = Append(@, c)] ELSE queue

\* xQueueSend() with no timeout: a full queue drops the command.
Send(p, c) ==
  queue' = IF Len(queue[p]) < QueueLen
           THEN [queue EXCEPT ![p] = Append(@, c)] ELSE queue

\* The loop of a callback has come to port p.
AtPort(callback, p) ==
  timer.callback = callback /\ p \in timer.todo /\ \A q \in timer.todo : p <= q

NextPort(p) == timer' = [timer EXCEPT !.todo = @ \ {p}, !.slot = 1]

CallbackDone ==
  /\ timer.callback # "none" /\ timer.todo = {}
  /\ timer' = NoTimer
  /\ readings' = Each(0)
  /\ UNCHANGED <<configVars, taskVars, health, clockVars, due, fired, cleared, stuck>>

ScheduleBegins ==
  /\ timer.callback = "none" /\ "schedule" \in due
  /\ due' = due \ {"schedule"}
  /\ timer' = [callback |-> "schedule", todo |-> Ports, slot |-> 1]
  /\ UNCHANGED <<configVars, taskVars, health, clockVars, readings, fired, cleared, stuck>>

SlotLeft(p) ==
  AtPort("schedule", p) /\ sPorts[p].active /\ timer.slot <= sPorts[p].n

\* Mutants: every tick of the minute fires; only a later minute fires.
SlotMatchesMutant(p) == sPorts[p].slots[timer.slot].at = Minute
SlotMatchesLater(p) == sPorts[p].slots[timer.slot].at = Minute /\ sPorts[p].last < Minute

SlotMatches(p) == sPorts[p].slots[timer.slot].at = Minute /\ sPorts[p].last # Minute

\* Mutant: the minute is not marked.
SlotFiresMutant(p) ==
  /\ SlotLeft(p) /\ SlotMatches(p)
  /\ timer' = [timer EXCEPT !.slot = @ + 1]
  /\ Send(p, [dur |-> sPorts[p].slots[timer.slot].dur, trigger |-> "schedule"])
  /\ fired' = [fired EXCEPT ![p] = @ + 1]
  /\ UNCHANGED <<configVars, task, cmd, left, seen, gpio, active, health, clockVars,
                 due, readings, cleared, stuck>>

\* The minute is marked even when the queue is full.
SlotFires(p) ==
  /\ SlotLeft(p) /\ SlotMatches(p)
  /\ sPorts' = [sPorts EXCEPT ![p].last = Minute]
  /\ timer' = [timer EXCEPT !.slot = @ + 1]
  /\ Send(p, [dur |-> sPorts[p].slots[timer.slot].dur, trigger |-> "schedule"])
  /\ fired' = [fired EXCEPT ![p] = @ + 1]
  /\ KeepConfig /\ UNCHANGED led2
  /\ UNCHANGED <<task, cmd, left, seen, gpio, active, health, clockVars, due, readings,
                 cleared, stuck>>

SlotSkipped(p) ==
  /\ SlotLeft(p) /\ ~SlotMatches(p)
  /\ timer' = [timer EXCEPT !.slot = @ + 1]
  /\ UNCHANGED <<configVars, taskVars, health, clockVars, due, readings,
                 fired, cleared, stuck>>

PortScheduled(p) ==
  /\ AtPort("schedule", p) /\ ~SlotLeft(p)
  /\ NextPort(p)
  /\ UNCHANGED <<configVars, taskVars, health, clockVars, due, readings,
                 fired, cleared, stuck>>

Extreme(pct) == pct = Invalid \/ pct <= 5 \/ pct >= 995

\* update_sensor_health().  The counter is only ever compared with the
\* threshold, so it stops there; it passes it with faulty already set.
Checked(h, pct) ==
  IF Extreme(pct)
  THEN [run |-> Shorter(h.run + 1, FaultThreshold),
        faulty |-> h.faulty \/ h.run + 1 = FaultThreshold]
  ELSE [run |-> 0, faulty |-> FALSE]

\* Both sensors are read, and their health updated, before any trigger.
HumidityBegins ==
  /\ timer.callback = "none" /\ "humidity" \in due
  /\ due' = due \ {"humidity"}
  /\ timer' = [callback |-> "humidity", todo |-> Ports, slot |-> 1]
  /\ readings' \in [Ports -> Readings]
  /\ health' = [p \in Ports |-> Checked(health[p], readings'[p])]
  /\ stuck' = [p \in Ports |-> IF Extreme(readings'[p]) THEN stuck[p] ELSE 0]
  /\ UNCHANGED <<configVars, taskVars, clockVars, fired, cleared>>

\* Mutant: a faulty sensor is not left out.
TooDryMutant(p) ==
  /\ sPorts[p].active /\ sPorts[p].thr > 0 /\ sPorts[p].dur > 0
  /\ readings[p] < 10 * sPorts[p].thr

\* An active trigger, a sensor not known to be faulty, a reading under the
\* threshold; Invalid is under every threshold.
TooDry(p) ==
  /\ sPorts[p].active /\ sPorts[p].thr > 0 /\ sPorts[p].dur > 0
  /\ ~health[p].faulty
  /\ readings[p] < 10 * sPorts[p].thr

HumidityFires(p) ==
  /\ AtPort("humidity", p) /\ TooDry(p)
  /\ Send(p, [dur |-> sPorts[p].dur, trigger |-> "humidity"])
  /\ stuck' = [stuck EXCEPT ![p] = IF Extreme(readings[p]) THEN @ + 1 ELSE @]
  /\ NextPort(p)
  /\ UNCHANGED <<configVars, task, cmd, left, seen, gpio, active, health, clockVars,
                 due, readings, fired, cleared>>

HumidityQuiet(p) ==
  /\ AtPort("humidity", p) /\ ~TooDry(p)
  /\ NextPort(p)
  /\ UNCHANGED <<configVars, taskVars, health, clockVars, due, readings,
                 fired, cleared, stuck>>

TimerStep ==
  \/ ScheduleBegins
  \/ HumidityBegins
  \/ \E p \in Ports : \/ SlotFires(p) \/ SlotSkipped(p) \/ PortScheduled(p)
                     \/ HumidityFires(p) \/ HumidityQuiet(p)
  \/ CallbackDone

----------------------------------------------------------------------------
(* Half a minute passes.                                                    *)

Blocked(p) ==
  \/ task[p] = "receive" /\ queue[p] = <<>>
  \/ task[p] = "delay" /\ left[p] > 0

Tick ==
  /\ due = {} /\ timer.callback = "none"
  /\ \A p \in Ports : Blocked(p)
  /\ now' = IF now + 1 = 2 * DayMinutes THEN 0 ELSE now + 1
  /\ due' = {"schedule"} \cup (IF humNext THEN {"humidity"} ELSE {})
  /\ humNext' = ~humNext
  /\ left' = [p \in Ports |-> IF task[p] = "delay" THEN left[p] - 1 ELSE left[p]]
  /\ fired' = IF now % 2 = 1 THEN Each(0) ELSE fired
  /\ cleared' = IF now % 2 = 1 THEN {} ELSE cleared
  /\ UNCHANGED <<configVars, queue, task, cmd, seen, gpio, active, health, timer, readings,
                 stuck>>

----------------------------------------------------------------------------
SlotsReset == main = "duration" /\ main' = "parse"
MarkCleared == main = "parse" /\ main' = "ack"

\* A config step.  Once num_slots is 0 the old slots are gone and the new ones
\* have not fired; activation takes the mark away.
ConfigOrMain ==
  /\ ConfigStep
  /\ fired' = IF SlotsReset THEN [fired EXCEPT ![msg.port] = 0] ELSE fired
  /\ cleared' = CASE SlotsReset -> cleared \ {msg.port}
                  [] MarkCleared /\ fired[msg.port] > 0 -> cleared \cup {msg.port}
                  [] OTHER -> cleared
  /\ UNCHANGED <<taskVars, health, clockVars, timerVars, stuck>>

Next ==
  \/ ConfigOrMain
  \/ Reboot
  \/ \E p \in Ports : TaskStep(p)
  \/ TimerStep
  \/ Tick

Spec == Init /\ [][Next]_vars

\* The scheduler runs every ready watering task and the timer service, and
\* time passes.  Nothing is assumed of the main task, of messages or of power
\* cycles.
Fairness ==
  /\ \A p \in Ports : WF_vars(TaskStep(p))
  /\ WF_vars(TimerStep)
  /\ WF_vars(Tick)

FairSpec == Spec /\ Fairness

----------------------------------------------------------------------------
TaskStates == {"receive", "on", "counted", "lit", "delay", "off", "uncounted"}
Cmd == [dur : Nat, trigger : {"schedule", "humidity", "none"}]
Callbacks == {"schedule", "humidity"}
Timers == [callback : Callbacks \cup {"none"}, todo : SUBSET Ports, slot : Nat \ {0}]

\* Every variable keeps its type; no queue exceeds its length.
TypeOK ==
  /\ ConfigTypeOK
  /\ queue \in [Ports -> Seq(Cmd)]
  /\ \A p \in Ports : Len(queue[p]) <= QueueLen
  /\ task \in [Ports -> TaskStates]
  /\ cmd \in [Ports -> Cmd]
  /\ left \in [Ports -> Nat]
  /\ seen \in [Ports -> Int]
  /\ gpio \in [Ports -> {0, 1}]
  /\ active \in Int
  /\ health \in [Ports -> [run : 0..FaultThreshold, faulty : BOOLEAN]]
  /\ now \in 0..(2 * DayMinutes - 1)
  /\ humNext \in BOOLEAN
  /\ due \subseteq Callbacks
  /\ timer \in Timers
  /\ readings \in [Ports -> Readings \cup {0}]
  /\ fired \in [Ports -> Nat]
  /\ cleared \subseteq Ports
  /\ stuck \in [Ports -> Nat]

Counted == {p \in Ports : task[p] \in {"counted", "lit", "delay", "off"}}

\* s_active_pumps is the number of tasks between their two critical
\* sections, so that remaining = 0 means no other pump is counted
\* (mqtt_manager.c:133, :467-469, :477-479).
ActiveCount == active = Cardinality(Counted)

\* A port waters by schedule at most once a minute, although the check runs
\* twice in it and slots may coincide ("to avoid re-firing within the same
\* minute", mqtt_manager.c:96, :494-496).  Without updates only: see OncePerMark.
\* The mark is in RAM: a restart within the minute counts anew.
OncePerMinute == \A p \in Ports : fired[p] <= 1

\* What an update leaves of it: the slots of one config fire a second time in
\* a minute only if they fired while the handler was still parsing them into
\* an active port and activation then took their mark away, and never a third
\* time (mqtt_manager.c:225-250, :512-514, :778-780).
OncePerMark ==
  \A p \in Ports : fired[p] <= IF p \in cleared THEN 2 ELSE 1

\* A sensor stuck at a rail, or whose ADC read fails, orders at most
\* FaultThreshold - 1 humidity waterings until it reads in band again
\* (mqtt_manager.c:104-112, :668-675).
DeadSensorDose == \A p \in Ports : stuck[p] <= FaultThreshold - 1

Quiet == main = "wait" /\ \A p \in Ports : task[p] = "receive"

\* Whatever the interleaving of the two watering tasks with each other and
\* with the config handler, LED 2 is green once all three are idle
\* (mqtt_manager.c:449-452, :480-481, :790).
QuiescentGreen == Quiet => led2 = "GREEN_STEADY"

\* The strengthenings that make the last four invariants inductive.
FiredInv ==
  \A p \in Ports :
    /\ \/ fired[p] = 0
       \/ fired[p] = 1 /\ (sPorts[p].last = Minute \/ p \in cleared)
       \/ fired[p] = 2 /\ sPorts[p].last = Minute /\ p \in cleared
    /\ (main = "parse" /\ p = msg.port) => p \notin cleared

DoseInv ==
  \A p \in Ports :
    /\ stuck[p] <= FaultThreshold - 1 /\ stuck[p] <= health[p].run
    /\ health[p].faulty <=> health[p].run = FaultThreshold
    /\ (timer.callback = "humidity" /\ p \in timer.todo /\ Extreme(readings[p]))
         => stuck[p] < health[p].run

LedInv ==
  /\ led2 = "CYAN_BLINKING" =>
       active > 0 \/ \E p \in Ports : task[p] = "uncounted" /\ seen[p] = 0
  /\ led2 \in {"BLUE_BLINKING", "WHITE_STEADY"} => main # "wait"

WateringInv == TypeOK /\ ActiveCount /\ FiredInv /\ DoseInv /\ LedInv

\* A pump that was switched on is switched off (mqtt_manager.c:466-475).
PumpStops == \A p \in Ports : gpio[p] = 1 ~> gpio[p] = 0

SlotMinute(p) ==
  \E i \in 1..sPorts[p].n : sPorts[p].active /\ sPorts[p].slots[i].at = Minute

\* A daily slot waters daily: a port that comes to the minute of a slot
\* again and again is watered again and again (mqtt_manager.c:488-496).
DailyWatering ==
  \A p \in Ports : []<>SlotMinute(p) => []<>(gpio[p] = 1)
=============================================================================
