--------------------------- MODULE WateringProofs ---------------------------
(***************************************************************************)
(* Theorems about Watering: types, the pump counter, the schedule and       *)
(* humidity dosing, and LED 2.                                              *)
(***************************************************************************)
EXTENDS Watering, PortConfigProofs, FiniteSetTheorems

----------------------------------------------------------------------------
(* Types.                                                                    *)

\* Sending to a queue keeps it a queue of commands within its length.
LEMMA SendType ==
  ASSUME TypeOK, NEW p \in Ports, NEW c \in Cmd, Send(p, c)
  PROVE  /\ queue' \in [Ports -> Seq(Cmd)]
         /\ \A q \in Ports : Len(queue'[q]) <= QueueLen
<1>1. queue[p] \in Seq(Cmd) /\ Len(queue[p]) \in Nat
  BY LenProperties DEF TypeOK
<1>2. Append(queue[p], c) \in Seq(Cmd) /\ Len(Append(queue[p], c)) = Len(queue[p]) + 1
  BY <1>1, AppendProperties
<1>3. CASE Len(queue[p]) < QueueLen
  BY <1>1, <1>2, <1>3, QueueAssumption DEF Send, TypeOK
<1>4. CASE ~(Len(queue[p]) < QueueLen)
  BY <1>4 DEF Send, TypeOK
<1> QED
  BY <1>3, <1>4

\* The steps that leave the config variables alone keep their types.
LEMMA ConfigTypeFrame ==
  ASSUME ConfigTypeOK, UNCHANGED configVars
  PROVE  ConfigTypeOK'
BY DEF ConfigTypeOK, configVars

\* A watering task sets LED 2 to one of its states.
LEMMA LedType ==
  ASSUME ConfigTypeOK, KeepConfig, sPorts' = sPorts, led2' \in LedStates
  PROVE  ConfigTypeOK'
BY DEF ConfigTypeOK, KeepConfig

\* The state after registration has the types.
LEMMA InitType == Init => TypeOK
<1> SUFFICES ASSUME Init PROVE TypeOK
  OBVIOUS
<1>1. ConfigTypeOK
  BY ConfigInitType DEF Init
<1>2. queue \in [Ports -> Seq(Cmd)] /\ \A p \in Ports : Len(queue[p]) <= QueueLen
  BY QueueAssumption DEF Init, Each
<1>3. cmd \in [Ports -> Cmd]
  BY DEF Init, Each, Cmd, NoCmd
<1>4. health \in [Ports -> [run : 0..FaultThreshold, faulty : BOOLEAN]]
  BY ThresholdAssumption DEF Init, Each, NotSeen
<1>5. timer \in Timers
  BY DEF Init, NoTimer, Timers
<1>6. /\ task \in [Ports -> TaskStates] /\ left \in [Ports -> Nat]
      /\ seen \in [Ports -> Int] /\ gpio \in [Ports -> {0, 1}]
      /\ readings \in [Ports -> Readings \cup {0}]
      /\ fired \in [Ports -> Nat] /\ stuck \in [Ports -> Nat]
  BY DEF Init, Each, TaskStates
<1>7. active \in Int /\ due \subseteq Callbacks /\ cleared \subseteq Ports
  BY DEF Init
<1>9. humNext \in BOOLEAN
  BY Zenon DEF Init
<1>8. now \in 0..(2 * DayMinutes - 1)
  BY Zenon DEF Init
<1> QED
  BY <1>1, <1>2, <1>3, <1>4, <1>5, <1>6, <1>7, <1>8, <1>9, Zenon DEF TypeOK

\* So has the state after a power cycle.
LEMMA RebootType ==
  ASSUME TypeOK, Reboot
  PROVE  TypeOK'
<1>1. ConfigTypeOK'
  BY ConfigRebootType DEF Reboot, TypeOK
<1>2. queue' \in [Ports -> Seq(Cmd)] /\ \A p \in Ports : Len(queue'[p]) <= QueueLen
  BY QueueAssumption DEF Reboot, Each
<1>3. cmd' \in [Ports -> Cmd]
  BY DEF Reboot, Each, Cmd, NoCmd
<1>4. health' \in [Ports -> [run : 0..FaultThreshold, faulty : BOOLEAN]]
  BY ThresholdAssumption DEF Reboot, Each, NotSeen
<1>5. timer' \in Timers
  BY DEF Reboot, NoTimer, Timers
<1>6. /\ task' \in [Ports -> TaskStates] /\ left' \in [Ports -> Nat]
      /\ seen' \in [Ports -> Int] /\ gpio' \in [Ports -> {0, 1}]
      /\ readings' \in [Ports -> Readings \cup {0}]
      /\ fired' \in [Ports -> Nat] /\ stuck' \in [Ports -> Nat]
  BY DEF Reboot, Each, TaskStates
<1>7. active' \in Int /\ due' \subseteq Callbacks /\ cleared' \subseteq Ports
  BY DEF Reboot
<1>9. humNext' \in BOOLEAN
  BY Zenon DEF Reboot
<1>8. now' \in 0..(2 * DayMinutes - 1)
  BY Zenon DEF Reboot, TypeOK
<1> QED
  BY <1>1, <1>2, <1>3, <1>4, <1>5, <1>6, <1>7, <1>8, <1>9, Zenon DEF TypeOK

\* The seven steps of a watering task keep them.
LEMMA TaskType ==
  ASSUME TypeOK, NEW p \in Ports, TaskStep(p)
  PROVE  TypeOK'
<1>1. CASE Receive(p)
  <2>1. queue[p] \in Seq(Cmd) /\ queue[p] # <<>> /\ Len(queue[p]) \in Nat
    BY <1>1, LenProperties DEF Receive, TypeOK
  <2>2. /\ Head(queue[p]) \in Cmd /\ Tail(queue[p]) \in Seq(Cmd)
        /\ Len(Tail(queue[p])) = Len(queue[p]) - 1
    BY <2>1, HeadTailProperties
  <2>3. queue' \in [Ports -> Seq(Cmd)] /\ \A q \in Ports : Len(queue'[q]) <= QueueLen
    BY <1>1, <2>1, <2>2, QueueAssumption DEF Receive, TypeOK
  <2>4. ConfigTypeOK'
    BY <1>1, ConfigTypeFrame DEF Receive, TypeOK
  <2> QED
    BY <1>1, <2>2, <2>3, <2>4
       DEF Receive, Goto, TypeOK, TaskStates, clockVars, timerVars
<1>2. CASE Count(p)
  <2>1. ConfigTypeOK'
    BY <1>2, ConfigTypeFrame DEF Count, TypeOK
  <2> QED
    BY <1>2, <2>1 DEF Count, Goto, TypeOK, TaskStates, clockVars, timerVars
<1>3. CASE ShowPumping(p)
  <2>1. ConfigTypeOK'
    BY <1>3, LedType DEF ShowPumping, TypeOK, LedStates
  <2> QED
    BY <1>3, <2>1 DEF ShowPumping, Goto, TypeOK, TaskStates, clockVars, timerVars
<1>4. CASE StartDelay(p)
  <2>1. ConfigTypeOK'
    BY <1>4, ConfigTypeFrame DEF StartDelay, TypeOK
  <2>2. left' \in [Ports -> Nat]
    BY <1>4 DEF StartDelay, TypeOK, Cmd
  <2> QED
    BY <1>4, <2>1, <2>2 DEF StartDelay, Goto, TypeOK, TaskStates, clockVars, timerVars
<1>5. CASE StopPump(p)
  <2>1. ConfigTypeOK'
    BY <1>5, ConfigTypeFrame DEF StopPump, TypeOK
  <2> QED
    BY <1>5, <2>1 DEF StopPump, Goto, TypeOK, TaskStates, clockVars, timerVars
<1>6. CASE Uncount(p)
  <2>1. ConfigTypeOK'
    BY <1>6, ConfigTypeFrame DEF Uncount, TypeOK
  <2>2. seen' \in [Ports -> Int]
    BY <1>6 DEF Uncount, TypeOK
  <2> QED
    BY <1>6, <2>1, <2>2 DEF Uncount, Goto, TypeOK, TaskStates, clockVars, timerVars
<1>7. CASE ShowIdle(p)
  <2>1. ConfigTypeOK'
    <3>1. led2' \in LedStates
      BY <1>7 DEF ShowIdle, TypeOK, ConfigTypeOK, LedStates
    <3> QED
      BY <1>7, <3>1, LedType DEF ShowIdle, TypeOK
  <2>2. cmd' \in [Ports -> Cmd] /\ seen' \in [Ports -> Int]
    BY <1>7 DEF ShowIdle, TypeOK, Cmd, NoCmd
  <2> QED
    BY <1>7, <2>1, <2>2 DEF ShowIdle, Goto, TypeOK, TaskStates, clockVars, timerVars
<1> QED
  BY <1>1, <1>2, <1>3, <1>4, <1>5, <1>6, <1>7 DEF TaskStep

\* Marking the minute of a port is an update of its entry.
LEMMA MarkType ==
  ASSUME TypeOK, NEW p \in Ports, sPorts' = [sPorts EXCEPT ![p].last = Minute],
         KeepConfig, led2' = led2
  PROVE  ConfigTypeOK'
<1>1. Minute \in Int
  BY DEF TypeOK, Minute
<1>2. sPorts \in [Ports -> PortEntry]
  BY DEF TypeOK, ConfigTypeOK
<1>3. sPorts' \in [Ports -> PortEntry]
  BY <1>1, <1>2 DEF PortEntry
<1> QED
  BY <1>3 DEF TypeOK, ConfigTypeOK, KeepConfig

\* The slot a running schedule callback looks at is a slot of the port.
LEMMA SlotType ==
  ASSUME TypeOK, NEW p \in Ports, SlotLeft(p)
  PROVE  sPorts[p].slots[timer.slot] \in Slot
<1>1. sPorts[p] \in PortEntry /\ timer.slot \in Nat \ {0}
  BY DEF TypeOK, ConfigTypeOK, Timers
<1>2. timer.slot \in 1..MaxSlots
  BY <1>1, SizesAssumption DEF SlotLeft, PortEntry
<1> QED
  BY <1>1, <1>2 DEF PortEntry

\* Updating the health of a sensor keeps its type.
LEMMA CheckedType ==
  ASSUME NEW h \in [run : 0..FaultThreshold, faulty : BOOLEAN], NEW pct
  PROVE  Checked(h, pct) \in [run : 0..FaultThreshold, faulty : BOOLEAN]
<1>1. h.run \in 0..FaultThreshold /\ h.faulty \in BOOLEAN
  OBVIOUS
<1>2. Shorter(h.run + 1, FaultThreshold) \in 0..FaultThreshold /\ 0 \in 0..FaultThreshold
  BY <1>1, ThresholdAssumption DEF Shorter
<1>3. (h.faulty \/ h.run + 1 = FaultThreshold) \in BOOLEAN /\ FALSE \in BOOLEAN
  BY <1>1, Zenon
<1> QED
  BY <1>2, <1>3, Zenon DEF Checked

\* Going on to the next slot, or to the next port, is a state of the loop.
LEMMA LoopType ==
  ASSUME NEW t \in Timers, NEW p
  PROVE  /\ [t EXCEPT !.slot = @ + 1] \in Timers
         /\ [t EXCEPT !.todo = @ \ {p}, !.slot = 1] \in Timers
<1>1. t.slot + 1 \in Nat \ {0} /\ 1 \in Nat \ {0} /\ t.todo \ {p} \in SUBSET Ports
  BY DEF Timers
<1> QED
  BY <1>1 DEF Timers

\* The steps of the timer service keep the types.
LEMMA TimerType ==
  ASSUME TypeOK, TimerStep
  PROVE  TypeOK'
<1>1. CASE ScheduleBegins
  <2>1. ConfigTypeOK'
    BY <1>1, ConfigTypeFrame DEF ScheduleBegins, TypeOK
  <2>2. /\ timer' \in Timers
        /\ due' \subseteq Callbacks
    BY <1>1 DEF ScheduleBegins, TypeOK, Callbacks, Timers
  <2> QED
    BY <1>1, <2>1, <2>2 DEF ScheduleBegins, TypeOK, taskVars, clockVars
<1>2. CASE HumidityBegins
  <2>1. ConfigTypeOK'
    BY <1>2, ConfigTypeFrame DEF HumidityBegins, TypeOK
  <2>2. /\ timer' \in Timers
        /\ due' \subseteq Callbacks
    BY <1>2 DEF HumidityBegins, TypeOK, Callbacks, Timers
  <2>3. health' \in [Ports -> [run : 0..FaultThreshold, faulty : BOOLEAN]]
    <3>1. \A p \in Ports :
            Checked(health[p], readings'[p]) \in [run : 0..FaultThreshold, faulty : BOOLEAN]
      BY CheckedType DEF TypeOK
    <3> QED
      BY <1>2, <3>1, Zenon DEF HumidityBegins
  <2>4. stuck' \in [Ports -> Nat] /\ readings' \in [Ports -> Readings \cup {0}]
    BY <1>2 DEF HumidityBegins, TypeOK
  <2> QED
    BY <1>2, <2>1, <2>2, <2>3, <2>4 DEF HumidityBegins, TypeOK, taskVars, clockVars
<1>3. ASSUME NEW p \in Ports, SlotFires(p) PROVE TypeOK'
  <2>1. ConfigTypeOK'
    BY <1>3, MarkType DEF SlotFires
  <2>2. timer' \in Timers
    BY <1>3, LoopType DEF SlotFires, TypeOK
  <2>3. [dur |-> sPorts[p].slots[timer.slot].dur, trigger |-> "schedule"] \in Cmd
    BY <1>3, SlotType DEF SlotFires, Slot, Cmd
  <2>4. queue' \in [Ports -> Seq(Cmd)] /\ \A q \in Ports : Len(queue'[q]) <= QueueLen
    BY <1>3, <2>3, SendType DEF SlotFires
  <2>5. fired' \in [Ports -> Nat]
    BY <1>3 DEF SlotFires, TypeOK
  <2> QED
    BY <1>3, <2>1, <2>2, <2>4, <2>5 DEF SlotFires, TypeOK, clockVars
<1>4. ASSUME NEW p \in Ports, SlotSkipped(p) PROVE TypeOK'
  <2>1. ConfigTypeOK'
    BY <1>4, ConfigTypeFrame DEF SlotSkipped, TypeOK
  <2>2. timer' \in Timers
    BY <1>4, LoopType DEF SlotSkipped, TypeOK
  <2> QED
    BY <1>4, <2>1, <2>2 DEF SlotSkipped, TypeOK, taskVars, clockVars
<1>5. ASSUME NEW p \in Ports, PortScheduled(p) PROVE TypeOK'
  <2>1. ConfigTypeOK'
    BY <1>5, ConfigTypeFrame DEF PortScheduled, TypeOK
  <2>2. timer' \in Timers
    BY <1>5, LoopType DEF PortScheduled, NextPort, TypeOK
  <2> QED
    BY <1>5, <2>1, <2>2 DEF PortScheduled, TypeOK, taskVars, clockVars
<1>6. ASSUME NEW p \in Ports, HumidityFires(p) PROVE TypeOK'
  <2>1. ConfigTypeOK'
    BY <1>6, ConfigTypeFrame DEF HumidityFires, TypeOK
  <2>2. timer' \in Timers
    BY <1>6, LoopType DEF HumidityFires, NextPort, TypeOK
  <2>3. [dur |-> sPorts[p].dur, trigger |-> "humidity"] \in Cmd
    BY DEF TypeOK, ConfigTypeOK, PortEntry, Cmd
  <2>4. queue' \in [Ports -> Seq(Cmd)] /\ \A q \in Ports : Len(queue'[q]) <= QueueLen
    BY <1>6, <2>3, SendType DEF HumidityFires
  <2>5. stuck' \in [Ports -> Nat]
    BY <1>6 DEF HumidityFires, TypeOK
  <2> QED
    BY <1>6, <2>1, <2>2, <2>4, <2>5 DEF HumidityFires, TypeOK, clockVars
<1>7. ASSUME NEW p \in Ports, HumidityQuiet(p) PROVE TypeOK'
  <2>1. ConfigTypeOK'
    BY <1>7, ConfigTypeFrame DEF HumidityQuiet, TypeOK
  <2>2. timer' \in Timers
    BY <1>7, LoopType DEF HumidityQuiet, NextPort, TypeOK
  <2> QED
    BY <1>7, <2>1, <2>2 DEF HumidityQuiet, TypeOK, taskVars, clockVars
<1>8. CASE CallbackDone
  <2>1. ConfigTypeOK'
    BY <1>8, ConfigTypeFrame DEF CallbackDone, TypeOK
  <2>2. /\ timer' \in Timers
        /\ readings' \in [Ports -> Readings \cup {0}]
    BY <1>8 DEF CallbackDone, NoTimer, Each, Timers
  <2> QED
    BY <1>8, <2>1, <2>2 DEF CallbackDone, TypeOK, taskVars, clockVars
<1> QED
  BY <1>1, <1>2, <1>3, <1>4, <1>5, <1>6, <1>7, <1>8 DEF TimerStep

\* A Tick keeps the types; the remaining delays stay natural numbers because
\* a task whose delay is over is not blocked.
LEMMA TickType ==
  ASSUME TypeOK, Tick
  PROVE  TypeOK'
<1>1. ConfigTypeOK'
  BY ConfigTypeFrame DEF Tick, TypeOK
<1>2. now' \in 0..(2 * DayMinutes - 1)
  <2>1. now \in 0..(2 * DayMinutes - 1) /\ now' = IF now + 1 = 2 * DayMinutes THEN 0 ELSE now + 1
    BY Zenon DEF Tick, TypeOK
  <2> QED
    BY <2>1, DayAssumption
<1>3. due' \subseteq Callbacks
  BY DEF Tick, Callbacks
<1>4. humNext' \in BOOLEAN
  BY Zenon DEF Tick
<1>5. left' \in [Ports -> Nat]
  <2>1. \A p \in Ports : task[p] = "delay" => left[p] > 0
    BY DEF Tick, Blocked
  <2>2. \A p \in Ports : (IF task[p] = "delay" THEN left[p] - 1 ELSE left[p]) \in Nat
    BY <2>1 DEF TypeOK
  <2> QED
    BY <2>2, Zenon DEF Tick
<1>6. fired' \in [Ports -> Nat] /\ cleared' \subseteq Ports
  BY DEF Tick, TypeOK, Each
<1> QED
  BY <1>1, <1>2, <1>3, <1>4, <1>5, <1>6 DEF Tick, TypeOK

\* So does a step of the MQTT task or of the main task.
LEMMA ConfigOrMainType ==
  ASSUME TypeOK, ConfigOrMain
  PROVE  TypeOK'
<1>1. ConfigTypeOK'
  BY ConfigStepType DEF ConfigOrMain, TypeOK
<1>2. fired' \in [Ports -> Nat]
  BY DEF ConfigOrMain, TypeOK
<1>3. cleared' \subseteq Ports
  <2>1. MarkCleared => msg.port \in Ports
    BY DEF MarkCleared, TypeOK, ConfigTypeOK, Indexing
  <2>2. cleared' \in {cleared, cleared \ {msg.port}} \/ (MarkCleared /\ cleared' = cleared \cup {msg.port})
    BY DEF ConfigOrMain
  <2> QED
    BY <2>1, <2>2 DEF TypeOK
<1> QED
  BY <1>1, <1>2, <1>3 DEF ConfigOrMain, TypeOK, taskVars, clockVars, timerVars

\* Every step keeps the types.
LEMMA NextType ==
  ASSUME TypeOK, [Next]_vars
  PROVE  TypeOK'
<1>1. CASE UNCHANGED vars
  <2>1. ConfigTypeOK'
    BY <1>1, ConfigTypeFrame DEF vars, TypeOK
  <2> QED
    BY <1>1, <2>1 DEF vars, wateringVars, TypeOK
<1> QED
  BY <1>1, ConfigOrMainType, RebootType, TaskType, TimerType, TickType DEF Next

\* Every variable keeps its type in every run, for every number of ports,
\* queue length, threshold, day length and set of messages.
THEOREM TypeCorrect == Spec => []TypeOK
BY InitType, NextType, PTL DEF Spec

----------------------------------------------------------------------------
(* The pump counter.                                                         *)

\* The counted tasks are a finite set.
LEMMA CountedFinite == IsFiniteSet(Counted) /\ Cardinality(Counted) \in Nat
<1>1. Counted \in SUBSET Ports
  BY DEF Counted
<1> QED
  BY <1>1, PortsAssumption, FS_Subset, FS_CardinalityType

\* A step of a watering task changes the counter and the set together.
LEMMA TaskCount ==
  ASSUME TypeOK, ActiveCount, NEW p \in Ports, TaskStep(p)
  PROVE  ActiveCount'
<1>1. CASE Count(p)
  <2>1. Counted' = Counted \cup {p} /\ p \notin Counted
    BY <1>1 DEF Count, Goto, Counted, TypeOK
  <2> QED
    BY <1>1, <2>1, CountedFinite, FS_AddElement DEF Count, ActiveCount
<1>2. CASE Uncount(p)
  <2>1. Counted' = Counted \ {p} /\ p \in Counted
    BY <1>2 DEF Uncount, Goto, Counted, TypeOK
  <2> QED
    BY <1>2, <2>1, CountedFinite, FS_RemoveElement DEF Uncount, ActiveCount
<1>3. CASE Receive(p) \/ ShowPumping(p) \/ StartDelay(p) \/ StopPump(p) \/ ShowIdle(p)
  <2>1. Counted' = Counted
    BY <1>3 DEF Receive, ShowPumping, StartDelay, StopPump, ShowIdle, Goto, Counted, TypeOK
  <2>2. active' = active
    BY <1>3 DEF Receive, ShowPumping, StartDelay, StopPump, ShowIdle
  <2> QED
    BY <2>1, <2>2 DEF ActiveCount
<1> QED
  BY <1>1, <1>2, <1>3 DEF TaskStep

\* Only the watering tasks touch the counter.
LEMMA CountFrame ==
  ASSUME ActiveCount, task' = task, active' = active
  PROVE  ActiveCount'
BY DEF ActiveCount, Counted

\* No other step changes where the tasks stand, or the counter.
LEMMA TasksStand ==
  ASSUME ConfigOrMain \/ TimerStep \/ Tick \/ UNCHANGED vars
  PROVE  task' = task /\ active' = active
<1>1. CASE ConfigOrMain
  BY <1>1 DEF ConfigOrMain, taskVars
<1>2. CASE TimerStep
  BY <1>2 DEF TimerStep, ScheduleBegins, HumidityBegins, SlotFires, SlotSkipped,
              PortScheduled, HumidityFires, HumidityQuiet, CallbackDone, taskVars
<1>3. CASE Tick \/ UNCHANGED vars
  BY <1>3 DEF Tick, vars, wateringVars
<1> QED
  BY <1>1, <1>2, <1>3

\* At the start, and after a power cycle, no task is counted.
LEMMA NoneCounted ==
  ASSUME \A p \in Ports : task[p] = "receive"
  PROVE  Cardinality(Counted) = 0
<1>1. Counted = {}
  BY DEF Counted
<1> QED
  BY <1>1, FS_EmptySet

\* Every step keeps the counter right.
LEMMA NextCount ==
  ASSUME TypeOK, ActiveCount, [Next]_vars
  PROVE  ActiveCount'
<1>1. CASE Reboot
  <2>1. active' = 0 /\ \A p \in Ports : task'[p] = "receive"
    BY <1>1 DEF Reboot, Each
  <2>2. Counted' = {}
    BY <2>1 DEF Counted
  <2> QED
    BY <2>1, <2>2, FS_EmptySet DEF ActiveCount
<1> QED
  BY <1>1, TaskCount, TasksStand, CountFrame DEF Next

\* s_active_pumps counts the running waterings, however the two tasks
\* interleave (mqtt_manager.c:467-469, :477-479).
THEOREM ActiveCountCorrect == Spec => []ActiveCount
<1>1. Init => ActiveCount
  BY NoneCounted DEF Init, Each, ActiveCount
<1> QED
  BY <1>1, NextCount, TypeCorrect, PTL DEF Spec

----------------------------------------------------------------------------
(* The schedule: FiredInv, once in a minute for each mark.                   *)

\* A config step leaves the minute a port last fired in, except where it
\* activates the port.
LEMMA ConfigLast ==
  ASSUME ConfigTypeOK, ConfigStep, NEW p \in Ports,
         ~(main = "parse" /\ main' = "ack" /\ p = msg.port)
  PROVE  sPorts'[p].last = sPorts[p].last
<1>0. sPorts \in [Ports -> PortEntry]
  BY DEF ConfigTypeOK
<1>1. CASE ApplyThreshold \/ ApplyDuration
  BY <1>0, <1>1 DEF ApplyThreshold, ApplyDuration, PortEntry
<1>2. CASE ParseSlot
  <2> DEFINE i == sPorts[msg.port].n + 1
             slot == ParsedSlot(sPorts[msg.port].slots[i], msg.sched[i])
  <2> HIDE DEF slot
  <2>1. sPorts' = [sPorts EXCEPT ![msg.port].n = i, ![msg.port].slots[i] = slot]
    BY <1>2, Zenon DEF ParseSlot, slot
  <2> QED
    BY <1>0, <2>1 DEF PortEntry
<1>3. CASE Activate
  BY <1>0, <1>3 DEF Activate, PortEntry
<1>4. CASE sPorts' = sPorts
  BY <1>4
<1>5. \/ sPorts' = sPorts
      \/ ApplyThreshold \/ ApplyDuration \/ ParseSlot \/ Activate
  BY DEF ConfigStep, DataBegin, DataTooLong, DataEnd, AckSent, Handle, Wake, MissingId,
         ReadId, MissingPort, ReadPort, ReadThreshold, ReadDuration, ReadSchedule, Read,
         InvalidValues, FlashDone, AlreadyApplied, StartSave, NvsSet, SetId, SetSched, SetThr,
         SetDur, SaveFails, AckApplied
<1> QED
  BY <1>1, <1>2, <1>3, <1>4, <1>5

\* The handler comes to parsing only by resetting the slots of its port.
LEMMA ConfigParse ==
  ASSUME ConfigStep, main' = "parse"
  PROVE  msg' = msg /\ main \in {"duration", "parse"}
BY DEF ConfigStep, DataBegin, DataTooLong, DataEnd, AckSent, Handle, Wake, MissingId,
       ReadId, MissingPort, ReadPort, ReadThreshold, ReadDuration, ReadSchedule, Read,
       InvalidValues, FlashDone, AlreadyApplied, StartSave, NvsSet, SetId, SetSched, SetThr,
       SetDur, SaveFails, ApplyThreshold, ApplyDuration, ParseSlot, Activate, AckApplied

\* A step of the handler keeps FiredInv: new slots begin without a mark, and a
\* port whose mark activation takes away is remembered.
LEMMA ConfigFired ==
  ASSUME TypeOK, FiredInv, ConfigOrMain
  PROVE  FiredInv'
<1>1. Minute' = Minute /\ ConfigStep
  BY DEF ConfigOrMain, clockVars, Minute
<1>2. SlotsReset => ~MarkCleared
  BY DEF SlotsReset, MarkCleared
<1>3. main' = "parse" => msg' = msg /\ (SlotsReset \/ main = "parse")
  BY <1>1, ConfigParse DEF SlotsReset
<1> SUFFICES ASSUME NEW p \in Ports
             PROVE  /\ \/ fired'[p] = 0
                       \/ fired'[p] = 1 /\ (sPorts'[p].last = Minute' \/ p \in cleared')
                       \/ fired'[p] = 2 /\ sPorts'[p].last = Minute' /\ p \in cleared'
                    /\ (main' = "parse" /\ p = msg'.port) => p \notin cleared'
  BY DEF FiredInv
<1>4. CASE SlotsReset /\ p = msg.port
  <2>1. fired'[p] = 0
    BY <1>4 DEF ConfigOrMain, TypeOK
  <2>2. p \notin cleared'
    BY <1>2, <1>4 DEF ConfigOrMain
  <2> QED
    BY <2>1, <2>2
<1>5. CASE MarkCleared /\ p = msg.port
  <2>1. main = "parse" /\ main' = "ack" /\ p \notin cleared
    BY <1>5 DEF MarkCleared, FiredInv
  <2>2. fired'[p] = fired[p] /\ fired[p] \in {0, 1}
    BY <1>2, <1>5, <2>1 DEF ConfigOrMain, FiredInv
  <2>3. fired[p] > 0 => p \in cleared'
    BY <1>2, <1>5 DEF ConfigOrMain
  <2> QED
    BY <2>1, <2>2, <2>3
<1>6. CASE ~(SlotsReset /\ p = msg.port) /\ ~(MarkCleared /\ p = msg.port)
  <2>1. fired'[p] = fired[p]
    BY <1>6 DEF ConfigOrMain, TypeOK
  <2>2. p \in cleared' <=> p \in cleared
    BY <1>6 DEF ConfigOrMain
  <2>3. sPorts'[p].last = sPorts[p].last
    BY <1>1, <1>6, ConfigLast DEF MarkCleared, TypeOK
  <2>4. (main' = "parse" /\ p = msg'.port) => (main = "parse" /\ p = msg.port)
    BY <1>3, <1>6
  <2> QED
    BY <1>1, <2>1, <2>2, <2>3, <2>4 DEF FiredInv
<1> QED
  BY <1>4, <1>5, <1>6

\* The second half of a minute is the same minute.
LEMMA SameMinute ==
  ASSUME TypeOK, Tick, now % 2 # 1
  PROVE  Minute' = Minute
<1>1. now \in 0..(2 * DayMinutes - 1) /\ now' = IF now + 1 = 2 * DayMinutes THEN 0 ELSE now + 1
  BY Zenon DEF Tick, TypeOK
<1>2. now' = now + 1
  BY <1>1, DayAssumption
<1> QED
  BY <1>1, <1>2, DayAssumption DEF Minute

\* Every step keeps FiredInv.
LEMMA NextFired ==
  ASSUME TypeOK, FiredInv, [Next]_vars
  PROVE  FiredInv'
<1>1. CASE ConfigOrMain
  BY <1>1, ConfigFired
<1>2. CASE Reboot
  BY <1>2 DEF Reboot, ConfigReboot, Each, FiredInv
<1>3. CASE Tick
  <2>1. CASE now % 2 = 1
    BY <1>3, <2>1 DEF Tick, Each, FiredInv
  <2>2. CASE now % 2 # 1
    <3>1. UNCHANGED <<fired, cleared, sPorts, main, msg>>
      BY <1>3, <2>2 DEF Tick, configVars
    <3> QED
      BY <1>3, <2>2, <3>1, SameMinute DEF FiredInv
  <2> QED
    BY <2>1, <2>2
<1>4. ASSUME NEW p \in Ports, SlotFires(p) PROVE FiredInv'
  <2>1. fired[p] = 0 \/ (fired[p] = 1 /\ p \in cleared)
    BY <1>4 DEF SlotFires, SlotMatches, FiredInv
  <2>2. fired'[p] = fired[p] + 1 /\ \A q \in Ports \ {p} : fired'[q] = fired[q]
    BY <1>4 DEF SlotFires, TypeOK
  <2>3. sPorts' = [sPorts EXCEPT ![p].last = Minute] /\ Minute' = Minute
    BY <1>4 DEF SlotFires, clockVars, Minute
  <2>4. sPorts \in [Ports -> PortEntry]
    BY DEF TypeOK, ConfigTypeOK
  <2>5. sPorts'[p].last = Minute /\ \A q \in Ports \ {p} : sPorts'[q] = sPorts[q]
    BY <2>3, <2>4 DEF PortEntry
  <2>6. UNCHANGED <<cleared, main, msg>>
    BY <1>4 DEF SlotFires, KeepConfig
  <2> QED
    BY <2>1, <2>2, <2>3, <2>5, <2>6 DEF FiredInv
<1>5. CASE UNCHANGED <<fired, cleared, now, sPorts, main, msg>>
  BY <1>5 DEF FiredInv, Minute
<1>6. CASE \E p \in Ports : TaskStep(p)
  BY <1>6, <1>5
     DEF TaskStep, Receive, Count, ShowPumping, StartDelay, StopPump, Uncount, ShowIdle,
         KeepConfig, configVars, clockVars
<1>7. CASE TimerStep
  BY <1>4, <1>5, <1>7
     DEF TimerStep, ScheduleBegins, HumidityBegins, SlotSkipped, PortScheduled,
         HumidityFires, HumidityQuiet, CallbackDone, configVars, clockVars
<1>8. CASE UNCHANGED vars
  BY <1>5, <1>8 DEF vars, wateringVars, configVars
<1> QED
  BY <1>1, <1>2, <1>3, <1>6, <1>7, <1>8 DEF Next

\* In any run, with any updates, the slots of one config fire twice in a minute
\* only around an activation that took their mark away, and never a third time
\* (mqtt_manager.c:494-496, :508-524, :778-780).
THEOREM OncePerMarkCorrect == Spec => []OncePerMark
<1>1. Init => FiredInv
  BY DEF Init, ConfigInit, Each, FiredInv
<1>2. FiredInv => OncePerMark
  BY DEF FiredInv, OncePerMark
<1> QED
  BY <1>1, <1>2, NextFired, TypeCorrect, PTL DEF Spec

\* The handler never wakes without a message.
NoUpdates ==
  /\ Messages = {} /\ rx = None /\ configBit = FALSE /\ main = "wait" /\ cleared = {}

\* Without messages no step takes a mark away.
LEMMA NextNoUpdates ==
  ASSUME NoUpdates, [Next]_vars
  PROVE  NoUpdates'
<1>1. CASE ConfigOrMain
  <2>1. AckSent
    BY <1>1
       DEF NoUpdates, ConfigOrMain, ConfigStep, DataEnd, Handle, Wake, MissingId, ReadId,
           MissingPort, ReadPort, ReadThreshold, ReadDuration, ReadSchedule, Read,
           InvalidValues, FlashDone, AlreadyApplied, StartSave, NvsSet, SetId, SetSched,
           SetThr, SetDur, SaveFails, ApplyThreshold, ApplyDuration, ParseSlot, Activate,
           AckApplied
  <2> QED
    BY <1>1, <2>1 DEF NoUpdates, ConfigOrMain, AckSent, SlotsReset, MarkCleared
<1>2. CASE Reboot
  BY <1>2 DEF NoUpdates, Reboot, ConfigReboot
<1>3. CASE \E p \in Ports : TaskStep(p)
  BY <1>3
     DEF NoUpdates, TaskStep, Receive, Count, ShowPumping, StartDelay, StopPump, Uncount,
         ShowIdle, KeepConfig, configVars
<1>4. CASE TimerStep
  BY <1>4
     DEF NoUpdates, TimerStep, ScheduleBegins, HumidityBegins, SlotFires, SlotSkipped,
         PortScheduled, HumidityFires, HumidityQuiet, CallbackDone, KeepConfig, configVars
<1>5. CASE Tick \/ UNCHANGED vars
  BY <1>5 DEF NoUpdates, Tick, vars, wateringVars, configVars
<1> QED
  BY <1>1, <1>2, <1>3, <1>4, <1>5 DEF Next

\* As long as no config comes, a port waters by schedule at most once a minute,
\* however its slots coincide (mqtt_manager.c:96, :494-496).
THEOREM OncePerMinuteCorrect == Messages = {} /\ Spec => []OncePerMinute
<1>1. Messages = {} /\ Init => NoUpdates
  BY DEF Init, ConfigInit, NoUpdates
<1>2. NoUpdates /\ OncePerMark => OncePerMinute
  BY DEF NoUpdates, OncePerMark, OncePerMinute
<1> QED
  BY <1>1, <1>2, NextNoUpdates, OncePerMarkCorrect, PTL DEF Spec

----------------------------------------------------------------------------
(* Humidity: DoseInv, the counter of extreme readings bounds the orders.     *)

\* A humidity pass that begins leaves room for one order on every extreme
\* reading; faulty is set exactly when the counter is at the threshold.
LEMMA BeginsDose ==
  ASSUME TypeOK, DoseInv, HumidityBegins
  PROVE  DoseInv'
<1> SUFFICES ASSUME NEW p \in Ports
             PROVE  /\ stuck'[p] <= FaultThreshold - 1 /\ stuck'[p] <= health'[p].run
                    /\ health'[p].faulty <=> health'[p].run = FaultThreshold
                    /\ Extreme(readings'[p]) => stuck'[p] < health'[p].run
  BY DEF DoseInv
<1>1. /\ health'[p] = Checked(health[p], readings'[p])
      /\ stuck'[p] = IF Extreme(readings'[p]) THEN stuck[p] ELSE 0
  BY Zenon DEF HumidityBegins
<1>2. /\ health[p].run \in 0..FaultThreshold /\ stuck[p] \in Nat
      /\ stuck[p] <= FaultThreshold - 1 /\ stuck[p] <= health[p].run
      /\ health[p].faulty <=> health[p].run = FaultThreshold
  BY DEF TypeOK, DoseInv
<1>3. CASE Extreme(readings'[p])
  <2>1. /\ health'[p].run = Shorter(health[p].run + 1, FaultThreshold)
        /\ health'[p].faulty <=> (health[p].faulty \/ health[p].run + 1 = FaultThreshold)
    <3>1. health'[p] = [run |-> Shorter(health[p].run + 1, FaultThreshold),
                        faulty |-> health[p].faulty \/ health[p].run + 1 = FaultThreshold]
      BY <1>1, <1>3, Zenon DEF Checked
    <3>2. health'[p].run = Shorter(health[p].run + 1, FaultThreshold)
      BY <3>1
    <3>3. health'[p].faulty = (health[p].faulty \/ health[p].run + 1 = FaultThreshold)
      BY <3>1
    <3> QED
      BY <3>2, <3>3, Zenon
  <2>2. stuck'[p] = stuck[p]
    BY <1>1, <1>3
  <2> QED
    BY <1>2, <2>1, <2>2, ThresholdAssumption DEF Shorter
<1>4. CASE ~Extreme(readings'[p])
  <2>1. health'[p].run = 0 /\ ~health'[p].faulty /\ stuck'[p] = 0
    BY <1>1, <1>4 DEF Checked
  <2> QED
    BY <1>4, <2>1, ThresholdAssumption
<1> QED
  BY <1>3, <1>4

\* An order for port p uses the room up and takes p out of the loop.
LEMMA FiresDose ==
  ASSUME TypeOK, DoseInv, NEW p \in Ports, HumidityFires(p)
  PROVE  DoseInv'
<1>1. /\ health' = health /\ readings' = readings
      /\ timer'.callback = timer.callback /\ timer'.todo = timer.todo \ {p}
  BY DEF HumidityFires, NextPort, TypeOK, Timers
<1>2. \A q \in Ports \ {p} : stuck'[q] = stuck[q]
  BY DEF HumidityFires, TypeOK
<1>3. stuck'[p] = IF Extreme(readings[p]) THEN stuck[p] + 1 ELSE stuck[p]
  BY DEF HumidityFires, TypeOK
<1>4. Extreme(readings[p]) => stuck[p] < health[p].run
  BY DEF HumidityFires, AtPort, DoseInv
<1>5. /\ health[p].run \in 0..FaultThreshold /\ health[p].run # FaultThreshold
      /\ stuck[p] \in Nat /\ stuck[p] <= FaultThreshold - 1 /\ stuck[p] <= health[p].run
      /\ health[p].faulty <=> health[p].run = FaultThreshold
  BY DEF HumidityFires, TooDry, TypeOK, DoseInv
<1>6. stuck'[p] <= FaultThreshold - 1 /\ stuck'[p] <= health[p].run
  BY <1>3, <1>4, <1>5, ThresholdAssumption
<1> QED
  BY <1>1, <1>2, <1>5, <1>6 DEF DoseInv

\* Every step keeps DoseInv.
LEMMA NextDose ==
  ASSUME TypeOK, DoseInv, [Next]_vars
  PROVE  DoseInv'
<1>1. CASE Reboot
  BY <1>1, ThresholdAssumption DEF Reboot, Each, NotSeen, NoTimer, DoseInv
<1>2. CASE /\ health' = health /\ stuck' = stuck
           /\ \/ timer'.callback # "humidity"
              \/ readings' = readings /\ timer'.callback = timer.callback
                 /\ timer'.todo \subseteq timer.todo
  BY <1>2 DEF DoseInv
<1>3. CASE ConfigOrMain \/ Tick \/ UNCHANGED vars
  BY <1>2, <1>3 DEF ConfigOrMain, Tick, vars, wateringVars, timerVars
<1>4. CASE \E p \in Ports : TaskStep(p)
  BY <1>2, <1>4
     DEF TaskStep, Receive, Count, ShowPumping, StartDelay, StopPump, Uncount, ShowIdle,
         timerVars
<1>5. CASE ScheduleBegins \/ CallbackDone
  BY <1>2, <1>5 DEF ScheduleBegins, CallbackDone, NoTimer
<1>6. ASSUME NEW p \in Ports, SlotFires(p) \/ SlotSkipped(p) PROVE DoseInv'
  <2>1. timer'.callback = "schedule"
    BY <1>6 DEF SlotFires, SlotSkipped, SlotLeft, AtPort, TypeOK, Timers
  <2> QED
    BY <1>2, <1>6, <2>1 DEF SlotFires, SlotSkipped
<1>7. ASSUME NEW p \in Ports, PortScheduled(p) \/ HumidityQuiet(p) PROVE DoseInv'
  <2>1. timer'.callback = timer.callback /\ timer'.todo \subseteq timer.todo
    BY <1>7 DEF PortScheduled, HumidityQuiet, NextPort, TypeOK, Timers
  <2> QED
    BY <1>2, <1>7, <2>1 DEF PortScheduled, HumidityQuiet
<1> QED
  BY <1>1, <1>3, <1>4, <1>5, <1>6, <1>7, BeginsDose, FiresDose DEF Next, TimerStep

\* A sensor stuck at a rail orders at most FaultThreshold - 1 waterings
\* before a reading in band (mqtt_manager.c:104-112, :644-680).
THEOREM DeadSensorDoseCorrect == Spec => []DeadSensorDose
<1>1. Init => DoseInv
  BY ThresholdAssumption DEF Init, Each, NotSeen, NoTimer, DoseInv
<1>2. DoseInv => DeadSensorDose
  BY DEF DoseInv, DeadSensorDose
<1> QED
  BY <1>1, <1>2, NextDose, TypeCorrect, PTL DEF Spec

----------------------------------------------------------------------------
(* LED 2: LedInv, who is still to set it back.                               *)

\* A step of the main task shows blue or white only while it handles a
\* message, and comes back to waiting with green.
LEMMA ConfigLed ==
  ASSUME ConfigStep
  PROVE  \/ led2' = "GREEN_STEADY"
         \/ led2' \in {"BLUE_BLINKING", "WHITE_STEADY"} /\ main' # "wait"
         \/ led2' = led2 /\ (main' = "wait" => main = "wait")
BY DEF ConfigStep, DataBegin, DataTooLong, DataEnd, AckSent, Handle, Wake, MissingId,
       ReadId, MissingPort, ReadPort, ReadThreshold, ReadDuration, ReadSchedule, Read,
       InvalidValues, FlashDone, AlreadyApplied, StartSave, NvsSet, SetId, SetSched, SetThr,
       SetDur, SaveFails, ApplyThreshold, ApplyDuration, ParseSlot, Activate, AckApplied

\* A step of a watering task that shows cyan is counted, and the one that
\* drops the counter to 0 has read it and will show green.
LEMMA TaskLed ==
  ASSUME TypeOK, ActiveCount, ActiveCount', LedInv, NEW p \in Ports, TaskStep(p)
  PROVE  LedInv'
<1>0. active \in Nat /\ active' \in Nat
  <2>1. Counted \in SUBSET Ports /\ Counted' \in SUBSET Ports
    BY DEF Counted
  <2>2. Cardinality(Counted) \in Nat /\ Cardinality(Counted') \in Nat
    BY <2>1, PortsAssumption, FS_Subset, FS_CardinalityType
  <2> QED
    BY <2>2 DEF ActiveCount
<1>1. main' = main
  BY DEF TaskStep, Receive, Count, ShowPumping, StartDelay, StopPump, Uncount, ShowIdle,
         KeepConfig, configVars
<1>2. \A q \in Ports \ {p} : task'[q] = task[q] /\ seen'[q] = seen[q]
  BY DEF TaskStep, Receive, Count, ShowPumping, StartDelay, StopPump, Uncount, ShowIdle,
         Goto, TypeOK
<1>3. CASE ShowPumping(p)
  <2>1. p \in Counted
    BY <1>3 DEF ShowPumping, Goto, Counted
  <2>2. active # 0
    BY <2>1, CountedFinite, FS_EmptySet DEF ActiveCount
  <2> QED
    BY <1>0, <1>3, <2>2 DEF ShowPumping, LedInv
<1>4. CASE Uncount(p)
  <2>1. led2' = led2 /\ active' = active - 1
    BY <1>4 DEF Uncount, configVars
  <2>2. task'[p] = "uncounted" /\ seen'[p] = active'
    BY <1>4 DEF Uncount, Goto, TypeOK
  <2> QED
    BY <1>0, <1>1, <2>1, <2>2 DEF LedInv
<1>5. CASE ShowIdle(p)
  <2>1. CASE seen[p] = 0
    BY <1>5, <2>1 DEF ShowIdle, LedInv
  <2>2. CASE seen[p] # 0
    <3>1. led2' = led2 /\ active' = active
      BY <1>5, <2>2 DEF ShowIdle
    <3> QED
      BY <1>1, <1>2, <2>2, <3>1 DEF LedInv
  <2> QED
    BY <2>1, <2>2
<1>6. CASE Receive(p) \/ Count(p) \/ StartDelay(p) \/ StopPump(p)
  <2>1. led2' = led2 /\ active' >= active
    BY <1>0, <1>6 DEF Receive, Count, StartDelay, StopPump, configVars
  <2>2. task[p] # "uncounted"
    BY <1>6 DEF Receive, Count, StartDelay, StopPump, Goto
  <2> QED
    BY <1>0, <1>1, <1>2, <2>1, <2>2 DEF LedInv
<1> QED
  BY <1>3, <1>4, <1>5, <1>6 DEF TaskStep

\* Every step keeps LedInv.
LEMMA NextLed ==
  ASSUME TypeOK, ActiveCount, ActiveCount', LedInv, [Next]_vars
  PROVE  LedInv'
<1>1. CASE ConfigOrMain
  BY <1>1, ConfigLed DEF ConfigOrMain, taskVars, LedInv
<1>2. CASE Reboot
  BY <1>2 DEF Reboot, ConfigReboot, LedInv
<1>3. CASE UNCHANGED <<led2, main, active, task, seen>>
  BY <1>3 DEF LedInv
<1>4. CASE TimerStep
  BY <1>3, <1>4
     DEF TimerStep, ScheduleBegins, HumidityBegins, SlotFires, SlotSkipped, PortScheduled,
         HumidityFires, HumidityQuiet, CallbackDone, KeepConfig, configVars, taskVars
<1>5. CASE Tick \/ UNCHANGED vars
  BY <1>3, <1>5 DEF Tick, vars, wateringVars, configVars
<1> QED
  BY <1>1, <1>2, <1>4, <1>5, TaskLed DEF Next

\* LED 2 is green whenever the main task and the watering tasks are idle
\* (mqtt_manager.c:449-452, :480-481, :790).
THEOREM QuiescentGreenCorrect == Spec => []QuiescentGreen
<1>1. Init => LedInv
  BY DEF Init, ConfigInit, LedInv
<1>2. TypeOK /\ ActiveCount /\ LedInv => QuiescentGreen
  <2> SUFFICES ASSUME TypeOK, ActiveCount, LedInv, Quiet PROVE led2 = "GREEN_STEADY"
    BY DEF QuiescentGreen
  <2>1. active = 0
    BY NoneCounted DEF Quiet, ActiveCount
  <2>2. led2 \in LedStates
    BY DEF TypeOK, ConfigTypeOK
  <2> QED
    BY <2>1, <2>2 DEF Quiet, LedInv, LedStates
<1> QED
  BY <1>1, <1>2, NextLed, ActiveCountCorrect, TypeCorrect, PTL DEF Spec
=============================================================================
