-------------------------- MODULE WateringRefinement --------------------------
(***************************************************************************)
(* The config handler keeps its promises while the watering tasks and the    *)
(* timer service run beside it and mark its entries: the theorems of         *)
(* PortConfig hold of Watering, and Watering implements ConfigDevice.        *)
(***************************************************************************)
EXTENDS WateringProofs, PortConfigRefinement

\* A step of a watering task, of the timer service or of time: it touches
\* nothing of the handler but the mark of a port.
Beside ==
  /\ KeepConfig
  /\ \/ sPorts' = sPorts
     \/ \E p \in Ports : sPorts' = [sPorts EXCEPT ![p].last = Minute]

\* Every step is one of the handler or one beside it.
LEMMA NextConfig ==
  ASSUME Next
  PROVE  ConfigNext \/ Beside
<1>1. CASE ConfigOrMain \/ Reboot
  BY <1>1 DEF ConfigOrMain, Reboot, ConfigNext
<1>2. ASSUME UNCHANGED configVars PROVE Beside
  BY <1>2 DEF Beside, KeepConfig, configVars
<1>3. ASSUME NEW p \in Ports, TaskStep(p) PROVE Beside
  <2>1. CASE ShowPumping(p) \/ ShowIdle(p)
    BY <2>1 DEF ShowPumping, ShowIdle, Beside
  <2>2. CASE Receive(p) \/ Count(p) \/ StartDelay(p) \/ StopPump(p) \/ Uncount(p)
    BY <1>2, <2>2 DEF Receive, Count, StartDelay, StopPump, Uncount
  <2> QED
    BY <1>3, <2>1, <2>2 DEF TaskStep
<1>4. CASE TimerStep
  <2>1. ASSUME NEW p \in Ports, SlotFires(p) PROVE Beside
    BY <2>1 DEF SlotFires, Beside
  <2>2. CASE \/ ScheduleBegins \/ HumidityBegins \/ CallbackDone
             \/ \E p \in Ports : \/ SlotSkipped(p) \/ PortScheduled(p)
                                 \/ HumidityFires(p) \/ HumidityQuiet(p)
    BY <1>2, <2>2
       DEF ScheduleBegins, HumidityBegins, CallbackDone, SlotSkipped, PortScheduled,
           HumidityFires, HumidityQuiet
  <2> QED
    BY <1>4, <2>1, <2>2 DEF TimerStep
<1>5. CASE Tick
  BY <1>2, <1>5 DEF Tick
<1> QED
  BY <1>1, <1>3, <1>4, <1>5 DEF Next

\* Such a step leaves the config of every port as it is.
LEMMA BesideKeeps ==
  ASSUME ConfigTypeOK, Beside, NEW p \in Ports
  PROVE  /\ sPorts'[p].id = sPorts[p].id /\ sPorts'[p].active = sPorts[p].active
         /\ sPorts'[p].thr = sPorts[p].thr /\ sPorts'[p].dur = sPorts[p].dur
         /\ sPorts'[p].n = sPorts[p].n /\ sPorts'[p].slots = sPorts[p].slots
<1>1. CASE sPorts' = sPorts
  BY <1>1
<1>2. ASSUME NEW q \in Ports, sPorts' = [sPorts EXCEPT ![q].last = Minute]
      PROVE  sPorts'[p] = sPorts[p] \/ sPorts'[p] = [sPorts[p] EXCEPT !.last = Minute]
  BY <1>2 DEF ConfigTypeOK
<1>3. sPorts[p] \in PortEntry
  BY DEF ConfigTypeOK
<1>4. CASE sPorts'[p] = [sPorts[p] EXCEPT !.last = Minute]
  BY <1>3, <1>4 DEF PortEntry
<1> QED
  BY <1>1, <1>2, <1>4 DEF Beside

\* So it keeps what the handler relies on.
LEMMA BesideRam ==
  ASSUME RamInv, ConfigTypeOK', Beside
  PROVE  RamInv'
<1>1. /\ ConfigTypeOK /\ UNCHANGED <<nvs, main, msg, failed>>
      /\ main \in Indexing => msg.port \in Ports
  BY DEF RamInv, Beside, KeepConfig, ConfigTypeOK
<1>2. RamMatchesNvs'
  <2> SUFFICES ASSUME NEW p \in Ports, p \notin failed, ~(main \in Rewriting /\ p = msg.port)
               PROVE  SameAsSaved(sPorts'[p], nvs[p])
    BY <1>1 DEF RamMatchesNvs
  <2>1. SameAsSaved(sPorts[p], nvs[p])
    BY DEF RamInv, RamMatchesNvs
  <2> QED
    BY <1>1, <2>1, BesideKeeps DEF SameAsSaved
<1>3. SaveProgress'
  BY <1>1 DEF RamInv, SaveProgress
<1>4. UpdateProgress'
  <2>1. CASE main \in {"duration", "parse"}
    <3>1. msg.port \in Ports
      BY <1>1, <2>1 DEF Indexing
    <3> QED
      BY <1>1, <2>1, <3>1, BesideKeeps DEF RamInv, UpdateProgress
  <2>2. CASE main \notin {"duration", "parse"}
    BY <1>1, <2>2 DEF UpdateProgress
  <2> QED
    BY <2>1, <2>2
<1> QED
  BY <1>2, <1>3, <1>4 DEF RamInv

\* And what the acks rest on.
LEMMA BesideAck ==
  ASSUME ConfigTypeOK, AckInv, Beside
  PROVE  AckInv'
<1>1. /\ UNCHANGED <<main, msg>>
      /\ main \in {"nvsId", "nvsSched", "nvsThr", "nvsDur", "duration", "parse", "ack"}
           => msg.port \in Ports
  BY DEF Beside, KeepConfig, ConfigTypeOK, Indexing
<1>2. \A p \in Ports : sPorts'[p].id = sPorts[p].id /\ sPorts'[p].active = sPorts[p].active
  BY BesideKeeps
<1> QED
  BY <1>1, <1>2 DEF AckInv

\* What the handler relies on, the watering loop beside it.
HandlerInv == TypeOK /\ RamInv /\ AckInv

\* It holds at first.
LEMMA InitHandler == Init => HandlerInv
<1> SUFFICES ASSUME Init PROVE HandlerInv
  OBVIOUS
<1>1. TypeOK /\ ConfigInit
  BY InitType DEF Init
<1>2. RamMatchesNvs
  BY <1>1, SavedAssumption, RestoredIsSaved DEF ConfigInit, RamMatchesNvs
<1>3. RamInv
  BY <1>1, <1>2, ConfigInitType DEF ConfigInit, RamInv, SaveProgress, UpdateProgress
<1>4. AckInv
  BY <1>1, SavedAssumption, BootAck DEF ConfigInit
<1> QED
  BY <1>1, <1>3, <1>4 DEF HandlerInv

\* Every step keeps it.
LEMMA StepHandler == HandlerInv /\ [Next]_vars => HandlerInv'
<1> SUFFICES ASSUME HandlerInv, [Next]_vars PROVE HandlerInv'
  OBVIOUS
<1>0. ConfigTypeOK /\ RamInv /\ AckInv /\ TypeOK
  BY DEF HandlerInv, TypeOK
<1>1. TypeOK' /\ ConfigTypeOK'
  BY <1>0, NextType DEF TypeOK
<1>2. CASE ConfigNext
  <2>1. RamInv'
    BY <1>0, <1>2, ConfigStepRam, ConfigRebootRam DEF ConfigNext
  <2>2. AckInv'
    <3>1. CASE ConfigReboot
      BY <1>0, <3>1, RestoredActive DEF ConfigReboot, AckInv, ConfigTypeOK
    <3> QED
      BY <1>0, <1>2, <3>1, ConfigStepAck DEF ConfigNext
  <2> QED
    BY <1>1, <2>1, <2>2 DEF HandlerInv
<1>3. CASE Beside
  <2>1. RamInv' /\ AckInv'
    BY <1>0, <1>1, <1>3, BesideRam, BesideAck
  <2> QED
    BY <1>1, <2>1 DEF HandlerInv
<1>4. CASE UNCHANGED vars
  <2>1. Beside
    BY <1>4 DEF vars, configVars, Beside, KeepConfig
  <2> QED
    BY <1>3, <2>1
<1> QED
  BY <1>2, <1>3, <1>4, NextConfig

\* It holds throughout.
LEMMA HandlerInvCorrect == Spec => []HandlerInv
BY InitHandler, StepHandler, PTL DEF Spec

\* RamMatchesNvs, with all it leaves out, survives the timer service, which
\* marks the entries that the handler rewrites (mqtt_manager.c:496, :773-780,
\* :992-1007).
THEOREM WateringKeepsRam == Spec => []RamMatchesNvs
<1>1. HandlerInv => RamMatchesNvs
  BY DEF HandlerInv, RamInv
<1> QED
  BY <1>1, HandlerInvCorrect, PTL

\* No step of the watering loop makes the handler write a known id again
\* (mqtt_manager.c:766-773).
THEOREM WateringKeepsFlash == Spec => NoRewrite
<1>1. HandlerInv /\ [Next]_vars =>
        [\A p \in Ports : nvs'[p] # nvs[p] => p = msg.port /\ msg.id # sPorts[p].id]_configVars
  <2> SUFFICES ASSUME HandlerInv, [Next]_vars, NEW p \in Ports, nvs'[p] # nvs[p]
               PROVE  p = msg.port /\ msg.id # sPorts[p].id
    OBVIOUS
  <2>1. ~Beside /\ ~UNCHANGED vars
    BY DEF Beside, KeepConfig, vars, configVars
  <2>2. ConfigNext
    BY <2>1, NextConfig
  <2> QED
    BY <2>2, RewriteStep DEF HandlerInv, TypeOK
<1> QED
  BY <1>1, HandlerInvCorrect, PTL DEF Spec, NoRewrite

\* While it is watering too, an "applied" ack names a port whose entry has that
\* id and, unless the id is empty, is active (mqtt_manager.c:766-770, :789).
THEOREM WateringKeepsAcks == Spec => AppliedMeansRunning
<1>1. HandlerInv /\ [Next]_vars =>
        [Len(outbox') > Len(outbox) =>
           LET a == outbox'[Len(outbox')] IN
             a.status = "applied" => /\ a.port \in Ports
                                     /\ sPorts[a.port].id = a.id
                                     /\ a.id # NoId => sPorts[a.port].active
                                     /\ sPorts' = sPorts]_configVars
  <2>1. ASSUME HandlerInv, Beside \/ UNCHANGED vars PROVE ~(Len(outbox') > Len(outbox))
    <3>1. outbox' = outbox
      BY <2>1 DEF Beside, KeepConfig, vars, configVars
    <3>2. Len(outbox) \in Nat
      BY <2>1, LenProperties DEF HandlerInv, TypeOK, ConfigTypeOK
    <3> QED
      BY <3>1, <3>2
  <2>2. HandlerInv => ConfigTypeOK /\ AckInv
    BY DEF HandlerInv, TypeOK
  <2> QED
    BY <2>1, <2>2, NextConfig, AckStep
<1> QED
  BY <1>1, HandlerInvCorrect, PTL DEF Spec, AppliedMeansRunning

\* The whole device, watering included, implements the abstract device that
\* ConfigProtocol puts behind the broker, id and port read one after the other
\* from a changing buffer: a watering task and a timer callback are invisible
\* to the server (mqtt_manager.c:695-791, :454-527).
THEOREM WateringImplementsDevice == Spec => ImplementsDevice
<1>1. Init => Device!DeviceInit
  <2> SUFFICES ASSUME Init PROVE Device!DeviceInit
    OBVIOUS
  <2>1. [p \in Ports |-> sPorts[p].id] = [p \in Ports |-> Restored(Saved[p]).id]
    BY DEF Init, ConfigInit
  <2> QED
    BY <2>1 DEF Init, ConfigInit, Blank, Empty, Phase, Device!DeviceInit, Device!NoHead,
                Device!NoJob
<1>2. HandlerInv /\ [Next]_vars => [Device!DeviceNext]_(Device!deviceVars)
  <2>1. ASSUME HandlerInv, Beside PROVE UNCHANGED Device!deviceVars
    <3>1. Running' = Running
      BY <2>1, BesideKeeps DEF HandlerInv, TypeOK, Running
    <3>2. UNCHANGED <<Copying, HeadIn(configBuf), HeadIn(msg), SavedIds>>
      BY <2>1 DEF Beside, KeepConfig, Copying, HeadIn, SavedIds
    <3>3. UNCHANGED <<configBit, Phase, outbox, boots>>
      BY <2>1 DEF Beside, KeepConfig, Phase
    <3> QED
      BY <3>1, <3>2, <3>3, Unseen
  <2>2. ASSUME HandlerInv, UNCHANGED vars PROVE UNCHANGED Device!deviceVars
    <3>1. Beside
      BY <2>2 DEF vars, configVars, Beside, KeepConfig
    <3> QED
      BY <2>1, <2>2, <3>1
  <2>3. ASSUME HandlerInv, ConfigNext PROVE [Device!DeviceNext]_(Device!deviceVars)
    BY <2>3, StepMaps DEF HandlerInv, RamInv
  <2> QED
    BY <2>1, <2>2, <2>3, NextConfig
<1> QED
  BY <1>1, <1>2, HandlerInvCorrect, PTL DEF Spec, ImplementsDevice, Device!DeviceSpec
=============================================================================
