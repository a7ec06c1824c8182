-------------------------- MODULE ProvisioningProofs --------------------------
(***************************************************************************)
(* Theorems about Provisioning: server, radio, event group and flash are     *)
(* shared safely, whatever the five tasks do and for any forms.              *)
(***************************************************************************)
EXTENDS Provisioning, SequenceTheorems, TLAPS

Events == {"disconnected", "got_ip"}
Pending(event) == \E i \in 1..Len(events) : events[i] = event

\* The part of app_main() in which the event group exists.
Serving == main \in {"await", "stopMonitor", "stopServer", "stopping", "undefined"}

\* Who exists when: the event group and the handler while app_main() awaits
\* them, the handler only while the server does, the monitor until it is deleted;
\* a server that the monitor has stopped stays off until the monitor starts it
\* again.
TaskInv ==
  /\ group <=> Serving
  /\ handler # "idle" => Serving /\ server \in {"on", "stopping"}
  /\ server # "off" => Serving
  /\ monitor # "off" => main \in {"await", "stopMonitor"}
  /\ monitor \in {"radio", "cold", "restart", "serve"} => server = "off"
  /\ call # "none" <=> main = "saved" \/ handler = "try"

\* A stopped radio has no server beside it: who starts the server has started
\* the radio before.
RadioInv ==
  radio = "off" => /\ server = "off" /\ monitor \in {"off", "cold", "restart"}
                   /\ main \notin {"boot", "saved", "provision"}

\* An address that is still to be reported came during the call that waits.
AddressInv ==
  /\ call = "wait" /\ Pending("got_ip") => addressed
  /\ call = "woken" /\ result = "connect" => addressed

ProvisioningInv == TypeOK /\ TaskInv /\ RadioInv /\ AddressInv /\ EraseIsFinal

----------------------------------------------------------------------------
(* The event queue.                                                          *)

\* An event that joins the queue.
LEMMA Posted ==
  ASSUME events \in Seq(Events), NEW e \in Events, events' = Append(events, e)
  PROVE  events' \in Seq(Events) /\ \A y : Pending(y)' => Pending(y) \/ y = e
<1>1. /\ events' \in Seq(Events) /\ Len(events') = Len(events) + 1 /\ Len(events) \in Nat
      /\ \A i \in 1..Len(events) : events'[i] = events[i]
      /\ events'[Len(events) + 1] = e
  BY AppendProperties, LenProperties
<1>2. ASSUME NEW y, Pending(y)' PROVE Pending(y) \/ y = e
  <2>1. PICK i \in 1..Len(events') : events'[i] = y
    BY <1>2 DEF Pending
  <2> QED
    BY <1>1, <2>1 DEF Pending
<1> QED
  BY <1>1, <1>2

\* The event loop takes the first one.
LEMMA Taken ==
  ASSUME events \in Seq(Events), events # <<>>, events' = Tail(events)
  PROVE  /\ events' \in Seq(Events) /\ Head(events) \in Events /\ Pending(Head(events))
         /\ \A y : Pending(y)' => Pending(y)
<1>1. /\ Len(events) \in Nat \ {0} /\ Head(events) = events[1]
      /\ Head(events) \in Events /\ events' \in Seq(Events)
      /\ Len(events') = Len(events) - 1
      /\ \A i \in 1..Len(events') : events'[i] = events[i + 1]
  BY HeadTailProperties, EmptySeq
<1>2. ASSUME NEW y, Pending(y)' PROVE Pending(y)
  <2>1. PICK i \in 1..Len(events') : events'[i] = y
    BY <1>2 DEF Pending
  <2>2. i + 1 \in 1..Len(events) /\ events[i + 1] = y
    BY <1>1, <2>1
  <2> QED
    BY <2>2 DEF Pending
<1> QED
  BY <1>1, <1>2 DEF Pending

\* A disconnect brings no address.
LEMMA Disconnected ==
  ASSUME events \in Seq(Events), Disconnect
  PROVE  /\ events' \in Seq(Events) /\ station' = "idle"
         /\ Pending("got_ip")' => Pending("got_ip")
<1>1. CASE station = "idle"
  BY <1>1 DEF Disconnect, Pending
<1>2. CASE station # "idle"
  <2>1. events' = Append(events, "disconnected") /\ "disconnected" \in Events
    BY <1>2 DEF Disconnect, Events
  <2> QED
    BY <2>1, Posted DEF Disconnect
<1> QED
  BY <1>1, <1>2

----------------------------------------------------------------------------
(* Types.                                                                    *)

\* It holds at first.
LEMMA InitInv == Init => ProvisioningInv
<1> SUFFICES ASSUME Init PROVE ProvisioningInv
  OBVIOUS
<1>1. TypeOK
  <2>1. events \in Seq({"disconnected", "got_ip"})
    BY EmptySeq DEF Init
  <2>2. /\ group \in BOOLEAN /\ done \in BOOLEAN /\ hibernating \in BOOLEAN
        /\ connecting \in BOOLEAN /\ nvsUp \in BOOLEAN /\ addressed \in BOOLEAN
    BY Zenon DEF Init
  <2>3. nvs \in [{"ssid", "pwd", "broker"} -> OptionalForms]
    BY DEF Init, Empty, OptionalForms
  <2>4. led \in [{"network", "application"} ->
                 {"off", "blue", "red_blinking", "red", "green", "purple"}]
    BY DEF Init, Dark
  <2>5. form \in OptionalForms
    BY DEF Init, OptionalForms
  <2> QED
    BY <2>1, <2>2, <2>3, <2>4, <2>5, HoldAssumption, BoundsAssumption DEF Init, TypeOK
<1>2. TaskInv /\ RadioInv /\ AddressInv /\ EraseIsFinal
  BY DEF Init, TaskInv, Serving, RadioInv, AddressInv, EraseIsFinal
<1> QED
  BY <1>1, <1>2 DEF ProvisioningInv

\* Every step keeps the types of the flags.
LEMMA StepFlags ==
  ASSUME TypeOK, Next
  PROVE  /\ group' \in BOOLEAN /\ done' \in BOOLEAN /\ hibernating' \in BOOLEAN
         /\ connecting' \in BOOLEAN /\ nvsUp' \in BOOLEAN /\ addressed' \in BOOLEAN
<1>0. /\ group \in BOOLEAN /\ done \in BOOLEAN /\ hibernating \in BOOLEAN
      /\ connecting \in BOOLEAN /\ nvsUp \in BOOLEAN /\ addressed \in BOOLEAN
  BY DEF TypeOK
<1> USE <1>0 DEF taskVars, httpVars, signalVars, tryVars, wifiVars, flashVars, faultVars,
                 ByHandler, ByMonitor, ByMain, ByButton, Off, Returns, TryConnect
<1>1. CASE StoreSsid \/ StorePwd \/ StoreBroker
  BY <1>1, Zenon DEF StoreSsid, StorePwd, StoreBroker, Store
<1>2. CASE BeginTry \/ TryFails \/ TrySucceeds \/ Signal \/ Respond
  BY <1>2, Zenon DEF BeginTry, TryFails, TrySucceeds, Signal, Respond
<1>3. CASE \E reached \in BOOLEAN : Probe(reached)
  BY <1>3, Zenon DEF Probe
<1>4. CASE \E f \in Forms : Accept(f)
  BY <1>4, Zenon DEF Accept
<1>5. CASE MonitorStep
  BY <1>5, Zenon
     DEF MonitorStep, Overheat, MonitorStopsServer, ServerFreed, ServerStopped, Hibernate, Recover,
         RestartAp, RestartServer
<1>6. CASE Boot \/ SavedFail \/ SavedSucceed \/ Provision
  BY <1>6, Zenon DEF Boot, SavedFail, SavedSucceed, Provision
<1>7. CASE Awaited \/ StopMonitor \/ MainStopsServer \/ DeleteGroup \/ StopAp
  BY <1>7, Zenon DEF Awaited, StopMonitor, MainStopsServer, DeleteGroup, StopAp
<1>8. CASE Joined
  <2>1. addressed' \in BOOLEAN
    BY <1>8, Zenon DEF Joined
  <2> QED
    BY <1>8, <2>1, Zenon DEF Joined
<1>9. CASE Arm \/ TurnedAway \/ Dropped \/ HandleEvent \/ TimesOut
  BY <1>9, Zenon DEF Arm, TurnedAway, Dropped, HandleEvent, TimesOut
<1>10. CASE PollLow \/ PollHigh \/ Erase \/ Restart
  BY <1>10, Zenon DEF PollLow, PollHigh, Erase, Restart
<1> QED
  BY <1>1, <1>2, <1>3, <1>4, <1>5, <1>6, <1>7, <1>8, <1>9, <1>10 DEF Next, MainStep, HandlerStep

\* Every step keeps the types.
LEMMA StepType ==
  ASSUME TypeOK, Next
  PROVE  TypeOK'
<1>0. /\ events \in Seq(Events) /\ form \in OptionalForms /\ "disconnected" \in Events
         /\ "got_ip" \in Events
      /\ Nothing \in OptionalForms /\ Empty \in [{"ssid", "pwd", "broker"} -> OptionalForms]
      /\ Forms \subseteq OptionalForms
  BY DEF TypeOK, Events, OptionalForms, Empty
<1>l. /\ Dark \in [{"network", "application"} -> {"off", "blue", "red_blinking", "red", "green",
         "purple"}]
      /\ \A w \in {"network", "application"},
         c \in {"off", "blue", "red_blinking", "red", "green", "purple"} :
           Light(w, c) => led' \in [{"network", "application"} ->
                                    {"off", "blue", "red_blinking", "red", "green", "purple"}]
  BY DEF TypeOK, Dark, Light
<1>e. events' \in Seq(Events) => events' \in Seq({"disconnected", "got_ip"})
  BY DEF Events
<1> USE <1>0, <1>l, <1>e, StepFlags
    DEF TypeOK, taskVars, httpVars, signalVars, tryVars, wifiVars, flashVars, faultVars
<1>1. ASSUME NEW here, NEW key \in {"ssid", "pwd", "broker"}, NEW next, NEW skip,
             Store(here, key, next, skip), next \in {"pwd", "broker", "connect"},
               skip \in {"broker", "connect"}
      PROVE  TypeOK'
  <2>1. nvs' \in [{"ssid", "pwd", "broker"} -> OptionalForms]
    BY <1>1 DEF Store
  <2>2. handler' \in {"idle", "ssid", "pwd", "broker", "connect", "try", "probe", "signal",
        "respond"}
    BY <1>1 DEF Store
  <2> QED
    BY <1>1, <2>1, <2>2 DEF Store, ByHandler
<1>2. CASE StoreSsid \/ StorePwd \/ StoreBroker
  BY <1>1, <1>2 DEF StoreSsid, StorePwd, StoreBroker
<1>3. CASE BeginTry
  BY <1>3, Disconnected DEF BeginTry, TryConnect, InHandler, ByHandler
<1>4. CASE TryFails \/ TrySucceeds
  BY <1>4, ZenonT(60) DEF TryFails, TrySucceeds, Returns, InHandler, ByHandler
<1>5. CASE \E reached \in BOOLEAN : Probe(reached)
  BY <1>5 DEF Probe, InHandler, ByHandler
<1>6. CASE Signal
  BY <1>6 DEF Signal, InHandler, ByHandler
<1>7. CASE Respond
  BY <1>7 DEF Respond, InHandler, ByHandler
<1>8. CASE \E f \in Forms : Accept(f)
  BY <1>8 DEF Accept, InHandler, ByHandler
<1>9. CASE Overheat
  BY <1>9 DEF Overheat, InMonitor, ByMonitor
<1>10. CASE MonitorStopsServer
  BY <1>10 DEF MonitorStopsServer, StopCall, InMonitor, ByMonitor
<1>11. CASE ServerFreed \/ ServerStopped
  <2>1. CASE ServerFreed
    BY <2>1 DEF ServerFreed, ByMonitor
  <2>2. CASE ServerStopped
    BY <2>2 DEF ServerStopped, InMonitor, ByMonitor
  <2> QED
    BY <1>11, <2>1, <2>2
<1>12. CASE Hibernate
  BY <1>12, Disconnected DEF Hibernate, StopRadio, InMonitor, ByMonitor
<1>13. CASE Recover
  BY <1>13 DEF Recover, InMonitor, ByMonitor
<1>14. CASE RestartAp
  BY <1>14 DEF RestartAp, InMonitor, ByMonitor
<1>15. CASE RestartServer
  BY <1>15 DEF RestartServer, StartServer, InMonitor, ByMonitor
<1>16. CASE Boot
  <2>1. CASE HasCredentials /\ InMain("boot", "saved") /\ TryConnect
             /\ Light("network", "red_blinking")
    BY <1>16, <2>1, Disconnected DEF Boot, TryConnect, InMain, ByMain
  <2>2. CASE InMain("boot", "provision") /\ UNCHANGED <<tryVars, wifiVars, led>>
    BY <1>16, <2>2 DEF Boot, InMain, ByMain
  <2> QED
    BY <1>16, <2>1, <2>2 DEF Boot
<1>17. CASE SavedFail \/ SavedSucceed
  BY <1>17, ZenonT(60) DEF SavedFail, SavedSucceed, Returns, InMain, ByMain
<1>18. CASE Provision
  BY <1>18 DEF Provision, StartServer, InMain, ByMain
<1>19. CASE Awaited
  BY <1>19 DEF Awaited, InMain, ByMain
<1>20. CASE StopMonitor
  BY <1>20 DEF StopMonitor, InMain, ByMain
<1>21. CASE MainStopsServer
  BY <1>21 DEF MainStopsServer, StopCall, InMain, ByMain
<1>22. CASE DeleteGroup
  BY <1>22 DEF DeleteGroup, StopReturns, InMain, ByMain
<1>23. CASE StopAp
  BY <1>23 DEF StopAp, InMain, ByMain
<1>24. CASE Arm
  BY <1>24 DEF Arm, FreshBits, Off
<1>25. CASE Joined
  BY <1>25, Posted DEF Joined, Off
<1>26. CASE TurnedAway
  BY <1>26, Disconnected DEF TurnedAway, Off
<1>27. CASE Dropped
  BY <1>27, Disconnected, BoundsAssumption DEF Dropped, Off
<1>28. CASE HandleEvent
  <2>1. events' \in Seq(Events)
    BY <1>28, Taken DEF HandleEvent
  <2>2. call' \in {"none", "drain", "wait", "woken"} /\ wifiBits' \subseteq {"connect", "fail"}
        /\ result' \in {"none", "connect", "fail", "timeout"}
    BY <1>28 DEF HandleEvent, Outcome
  <2> QED
    BY <1>28, <2>1, <2>2 DEF HandleEvent, Off
<1>29. CASE TimesOut
  BY <1>29 DEF TimesOut, Off
<1>30. CASE PollLow
  BY <1>30, HoldAssumption DEF PollLow, ByButton
<1>31. CASE PollHigh
  BY <1>31, HoldAssumption DEF PollHigh, ByButton
<1>32. CASE Erase
  BY <1>32 DEF Erase, ByButton
<1>33. CASE Restart
  BY <1>33, EmptySeq, HoldAssumption, BoundsAssumption DEF Restart
<1> QED
  BY <1>2, <1>3, <1>4, <1>5, <1>6, <1>7, <1>8, <1>9, <1>10, <1>11, <1>12, <1>13, <1>14, <1>15,
     <1>16, <1>17, <1>18, <1>19, <1>20, <1>21, <1>22, <1>23, <1>24, <1>25, <1>26, <1>27, <1>28,
     <1>29, <1>30, <1>31, <1>32, <1>33
     DEF Next, MainStep, HandlerStep, MonitorStep

----------------------------------------------------------------------------
(* The steps.                                                                *)

\* Every step keeps handler, server, monitor and event group together.
LEMMA StepTask ==
  ASSUME TypeOK, TaskInv, Next
  PROVE  TaskInv' /\ (RadioInv => RadioInv')
<1> USE DEF TypeOK, TaskInv, RadioInv, Serving, taskVars, httpVars, signalVars, tryVars, wifiVars,
    flashVars
<1>1. ASSUME NEW here, NEW key, NEW next, NEW skip, Store(here, key, next, skip),
             here \in {"ssid", "pwd", "broker"}, next \in {"pwd", "broker", "connect"},
             skip \in {"broker", "connect"}
      PROVE  TaskInv' /\ (RadioInv => RadioInv')
  <2>1. handler = here /\ handler' \in {"pwd", "broker", "connect"}
    BY <1>1 DEF Store
  <2> QED
    BY <1>1, <2>1 DEF Store, ByHandler
<1>2. CASE StoreSsid \/ StorePwd \/ StoreBroker
  BY <1>1, <1>2 DEF StoreSsid, StorePwd, StoreBroker
<1>3. CASE BeginTry
  BY <1>3 DEF BeginTry, TryConnect, InHandler, ByHandler
<1>4. CASE TryFails
  BY <1>4 DEF TryFails, Returns, InHandler, ByHandler
<1>5. CASE TrySucceeds
  BY <1>5 DEF TrySucceeds, Returns, InHandler, ByHandler
<1>6. CASE \E reached \in BOOLEAN : Probe(reached)
  BY <1>6 DEF Probe, InHandler, ByHandler
<1>7. CASE Signal
  BY <1>7 DEF Signal, InHandler, ByHandler
<1>8. CASE Respond
  BY <1>8 DEF Respond, InHandler, ByHandler
<1>9. CASE \E f \in Forms : Accept(f)
  BY <1>9 DEF Accept, InHandler, ByHandler
<1>10. CASE Overheat
  BY <1>10 DEF Overheat, InMonitor, ByMonitor
<1>11. CASE MonitorStopsServer
  BY <1>11 DEF MonitorStopsServer, StopCall, InMonitor, ByMonitor
<1>12. CASE ServerFreed \/ ServerStopped
  BY <1>12 DEF ServerFreed, ServerStopped, InMonitor, ByMonitor
<1>13. CASE Hibernate
  BY <1>13 DEF Hibernate, StopRadio, InMonitor, ByMonitor
<1>14. CASE Recover
  BY <1>14 DEF Recover, InMonitor, ByMonitor
<1>15. CASE RestartAp
  BY <1>15 DEF RestartAp, InMonitor, ByMonitor
<1>16. CASE RestartServer
  BY <1>16 DEF RestartServer, StartServer, InMonitor, ByMonitor
<1>17. CASE Boot
  BY <1>17 DEF Boot, TryConnect, InMain, ByMain
<1>18. CASE SavedFail
  BY <1>18 DEF SavedFail, Returns, InMain, ByMain
<1>19. CASE SavedSucceed
  BY <1>19 DEF SavedSucceed, Returns, InMain, ByMain
<1>20. CASE Provision
  BY <1>20 DEF Provision, StartServer, InMain, ByMain
<1>21. CASE Awaited
  BY <1>21 DEF Awaited, InMain, ByMain
<1>22. CASE StopMonitor
  BY <1>22 DEF StopMonitor, InMain, ByMain
<1>23. CASE MainStopsServer
  BY <1>23 DEF MainStopsServer, StopCall, InMain, ByMain
<1>24. CASE DeleteGroup
  BY <1>24 DEF DeleteGroup, StopReturns, InMain, ByMain
<1>25. CASE StopAp
  BY <1>25 DEF StopAp, InMain, ByMain
<1>26. CASE Arm
  BY <1>26 DEF Arm, FreshBits
<1>27. CASE Joined \/ TurnedAway \/ Dropped
  BY <1>27 DEF Joined, TurnedAway, Dropped, Disconnect, Off
<1>28. CASE HandleEvent
  BY <1>28 DEF HandleEvent, Off
<1>29. CASE TimesOut
  BY <1>29 DEF TimesOut, Off
<1>30. CASE PollLow \/ PollHigh \/ Erase
  BY <1>30 DEF PollLow, PollHigh, Erase, ByButton
<1>31. CASE Restart
  BY <1>31 DEF Restart
<1> QED
  BY <1>2, <1>3, <1>4, <1>5, <1>6, <1>7, <1>8, <1>9, <1>10, <1>11, <1>12, <1>13, <1>14, <1>15,
     <1>16, <1>17, <1>18, <1>19, <1>20, <1>21, <1>22, <1>23, <1>24, <1>25, <1>26, <1>27, <1>28,
     <1>29, <1>30, <1>31 DEF Next, MainStep, HandlerStep, MonitorStep

\* Every step keeps an address with the call it came in.
LEMMA StepAddress ==
  ASSUME TypeOK, AddressInv, Next
  PROVE  AddressInv'
<1>0. events \in Seq(Events) /\ "got_ip" \in Events
  BY DEF TypeOK, Events
<1> USE <1>0 DEF AddressInv, tryVars, wifiVars
\* A step that leaves the call alone and brings no address.
<1>1. ASSUME UNCHANGED <<call, result, addressed>>, Pending("got_ip")' => Pending("got_ip")
      PROVE  AddressInv'
  BY <1>1
<1>2. ASSUME UNCHANGED events PROVE Pending("got_ip")' <=> Pending("got_ip")
  BY <1>2 DEF Pending
<1>3. CASE StoreSsid \/ StorePwd \/ StoreBroker
  BY <1>1, <1>2, <1>3 DEF StoreSsid, StorePwd, StoreBroker, Store
<1>4. CASE BeginTry
  BY <1>4 DEF BeginTry, TryConnect
<1>5. CASE TryFails \/ TrySucceeds
  BY <1>5 DEF TryFails, TrySucceeds, Returns
<1>6. CASE \E reached \in BOOLEAN : Probe(reached)
  BY <1>1, <1>2, <1>6 DEF Probe
<1>7. CASE Signal \/ Respond \/ \E f \in Forms : Accept(f)
  BY <1>1, <1>2, <1>7 DEF Signal, Respond, Accept
<1>8. CASE \/ Overheat \/ MonitorStopsServer \/ ServerFreed \/ ServerStopped
           \/ Recover \/ RestartAp \/ RestartServer
  BY <1>1, <1>2, <1>8
     DEF Overheat, MonitorStopsServer, ServerFreed, ServerStopped, Recover, RestartAp,
         RestartServer, ByMonitor
<1>9. CASE Hibernate
  BY <1>1, <1>9, Disconnected DEF Hibernate, StopRadio, ByMonitor
<1>10. CASE Boot
  <2>1. CASE TryConnect
    BY <2>1 DEF TryConnect
  <2>2. CASE UNCHANGED <<tryVars, wifiVars, led>>
    BY <1>1, <1>2, <2>2
  <2> QED
    BY <1>10, <2>1, <2>2 DEF Boot
<1>11. CASE SavedFail \/ SavedSucceed
  BY <1>11 DEF SavedFail, SavedSucceed, Returns
<1>12. CASE Provision \/ Awaited \/ StopMonitor \/ MainStopsServer \/ DeleteGroup \/ StopAp
  BY <1>1, <1>2, <1>12 DEF Provision, Awaited, StopMonitor, MainStopsServer, DeleteGroup, StopAp
\* The wait begins with nothing left of earlier attempts.
<1>13. CASE Arm
  <2>1. call' = "wait" /\ ~Pending("got_ip")'
    BY <1>13 DEF Arm, FreshBits, Pending
  <2> QED
    BY <2>1
<1>14. CASE Joined
  <2>1. addressed' <=> call # "none"
    <3>1. addressed' = (call # "none")
      BY <1>14, Zenon DEF Joined
    <3> QED
      BY <3>1, Zenon
  <2> QED
    BY <1>14, <2>1 DEF Joined
<1>15. CASE TurnedAway \/ Dropped
  BY <1>1, <1>15, Disconnected DEF TurnedAway, Dropped
<1>16. CASE HandleEvent
  <2>1. /\ Pending(Head(events)) /\ (Pending("got_ip")' => Pending("got_ip"))
        /\ UNCHANGED addressed
    BY <1>16, Taken DEF HandleEvent
  <2>2. CASE call = "wait" /\ call' = "woken"
    <3>1. result' = "connect" => Head(events) = "got_ip"
      BY <1>16, <2>2 DEF HandleEvent, Outcome
    <3> QED
      BY <2>1, <2>2, <3>1
  <2>3. CASE UNCHANGED <<call, result>>
    BY <1>1, <2>1, <2>3
  <2> QED
    BY <1>16, <2>2, <2>3 DEF HandleEvent
<1>17. CASE TimesOut
  BY <1>17 DEF TimesOut
<1>18. CASE PollLow \/ PollHigh \/ Erase
  BY <1>1, <1>2, <1>18 DEF PollLow, PollHigh, Erase, ByButton
<1>19. CASE Restart
  BY <1>19 DEF Restart
<1> QED
  BY <1>3, <1>4, <1>5, <1>6, <1>7, <1>8, <1>9, <1>10, <1>11, <1>12, <1>13, <1>14, <1>15, <1>16,
     <1>17, <1>18, <1>19 DEF Next, MainStep, HandlerStep, MonitorStep

\* Nothing is written to an erased flash before the restart.
LEMMA StepErase ==
  ASSUME EraseIsFinal, Next
  PROVE  EraseIsFinal'
<1> USE DEF EraseIsFinal, flashVars
<1>1. CASE StoreSsid \/ StorePwd \/ StoreBroker
  BY <1>1 DEF StoreSsid, StorePwd, StoreBroker, Store, ByHandler
<1>2. CASE BeginTry \/ TryFails \/ TrySucceeds \/ Signal \/ Respond \/ \E f \in Forms : Accept(f)
  BY <1>2 DEF BeginTry, TryFails, TrySucceeds, Signal, Respond, Accept, ByHandler
<1>3. CASE \E reached \in BOOLEAN : Probe(reached)
  BY <1>3 DEF Probe, ByHandler
<1>4. CASE MonitorStep
  BY <1>4
     DEF MonitorStep, Overheat, MonitorStopsServer, ServerFreed, ServerStopped, Hibernate, Recover,
         RestartAp, RestartServer, ByMonitor
<1>5. CASE MainStep
  BY <1>5
     DEF MainStep, Boot, SavedFail, SavedSucceed, Provision, Awaited, StopMonitor, MainStopsServer,
         DeleteGroup, StopAp, ByMain
<1>6. CASE Arm \/ Joined \/ TurnedAway \/ Dropped \/ HandleEvent \/ TimesOut
  BY <1>6 DEF Arm, Joined, TurnedAway, Dropped, HandleEvent, TimesOut, Off
<1>7. CASE PollLow \/ PollHigh \/ Erase \/ Restart
  BY <1>7 DEF PollLow, PollHigh, Erase, Restart
<1> QED
  BY <1>1, <1>2, <1>3, <1>4, <1>5, <1>6, <1>7 DEF Next, HandlerStep

----------------------------------------------------------------------------
(* The theorems.                                                             *)

\* ProvisioningInv holds in every state: what the steps above preserve together.
THEOREM ProvisioningSafe ==
  Spec => []ProvisioningInv
<1>1. Init => ProvisioningInv
  BY InitInv
<1>2. ProvisioningInv /\ [Next]_vars => ProvisioningInv'
  <2>1. ASSUME ProvisioningInv, Next PROVE ProvisioningInv'
    BY <2>1, StepType, StepTask, StepAddress, StepErase DEF ProvisioningInv
  <2>2. ASSUME ProvisioningInv, UNCHANGED vars PROVE ProvisioningInv'
    BY <2>2
       DEF vars, taskVars, httpVars, signalVars, tryVars, wifiVars, flashVars, faultVars,
           ProvisioningInv,
           TypeOK, TaskInv, Serving, RadioInv, AddressInv, Pending, EraseIsFinal
  <2> QED
    BY <2>1, <2>2
<1> QED
  BY <1>1, <1>2, PTL DEF Spec

\* Every variable keeps its type, and hold_count stays below HOLD_THRESHOLD.
THEOREM TypeCorrect ==
  Spec => []TypeOK
<1>1. ProvisioningInv => TypeOK
  BY DEF ProvisioningInv
<1> QED
  BY <1>1, ProvisioningSafe, PTL

\* No handler sets its bit in a deleted event group (web_server.c:239,
\* gb-src.c:136).
THEOREM SignalsReachGroup ==
  Spec => []SignalsLiveGroup
<1>1. ProvisioningInv => SignalsLiveGroup
  BY DEF ProvisioningInv, TaskInv, SignalsLiveGroup
<1> QED
  BY <1>1, ProvisioningSafe, PTL

\* No attempt to connect reports an address of another (wifi_manager.c:187-188).
THEOREM SuccessesAreReal ==
  Spec => []SuccessIsReal
<1>1. ProvisioningInv => SuccessIsReal
  BY DEF ProvisioningInv, AddressInv, SuccessIsReal
<1> QED
  BY <1>1, ProvisioningSafe, PTL

\* Hibernation never takes the radio from an attempt to connect
\* (gb-src.c:52-58).
THEOREM RadioIsKept ==
  Spec => []RadioKept
<1>1. ProvisioningInv => RadioKept
  BY DEF ProvisioningInv, TaskInv, RadioInv, RadioKept
<1> QED
  BY <1>1, ProvisioningSafe, PTL

\* Nothing of provisioning outlives it (gb-src.c:134-140), if app_main() gets
\* past the server: it may stop a freed one, and what follows is undefined.
THEOREM ProvisioningIsOver ==
  Spec => []ProvisioningOver
<1>1. ProvisioningInv => ProvisioningOver
  BY DEF ProvisioningInv, TaskInv, Serving, ProvisioningOver
<1> QED
  BY <1>1, ProvisioningSafe, PTL

\* The flash stays empty from the erase to the restart (gb-src.c:42-43).
THEOREM EraseStays ==
  Spec => []EraseIsFinal
<1>1. ProvisioningInv => EraseIsFinal
  BY DEF ProvisioningInv
<1> QED
  BY <1>1, ProvisioningSafe, PTL
=============================================================================
