--------------------------- MODULE ConfigProtocol ---------------------------
(***************************************************************************)
(* Phase 3 end to end for one registered device: concurrent POST requests   *)
(* (server/app/api.py), publish_config() and mqtt_loop() (mqtt.py),          *)
(* handle_config_ack() (handlers.py), the broker with its one retained       *)
(* config/push message, and the device of ConfigDevice.                      *)
(*                                                                          *)
(* Every await of the server is a point where another coroutine may run, so  *)
(* what lies between two of them is one action.  Both MQTT clients use clean *)
(* sessions and the broker keeps nothing on disk: what is under way on a     *)
(* connection is lost with it, a restart of the broker also loses the        *)
(* retained message.                                                         *)
(***************************************************************************)
EXTENDS ConfigDevice

CONSTANTS
  Configs,    \* the ids of the configs users post
  PortOf,     \* the port each config is for
  Fitting,    \* the configs whose payload fits s_config_buf
  MaxLinkFaults,   \* bound: lost connections of the device, besides power cycles
  MaxServerFaults  \* bound: lost connections and crashes of server and broker

MessageOf(c) == [id |-> c, port |-> PortOf[c], fits |-> c \in Fitting]

ASSUME ConfigsAssumption == Configs \subseteq Ids
ASSUME PortOfAssumption == PortOf \in [Configs -> Ports]
ASSUME FittingAssumption == Fitting \subseteq Configs
ASSUME FaultsAssumption == MaxLinkFaults \in Nat /\ MaxServerFaults \in Nat
ASSUME ServerAssumption == Heads = {MessageOf(c) : c \in Configs} /\ ~BadValues
\* The server draws random ids: halves of two do not make up a third.
ASSUME RandomIdsAssumption == \A h \in Mixed : h.id \notin Configs
\* The database of a new device holds no config, and neither does its flash.
ASSUME NewDeviceAssumption == AtPowerOn = [p \in Ports |-> NoId]

VARIABLES
  post,       \* where the POST request for each config stands
  row,        \* status of its row in device_configs, or "none"
  ackedAt,    \* the rows with acked_at set
  ack,        \* the ack in handle_config_ack() and the status it loaded
  client,     \* the connection of mqtt_loop()
  toServer,   \* PUBACKs and acks on their way to the server, or waiting in its queue
  retained,   \* the retained config/push message
  toDevice,   \* config/push messages on their way to the device
  link,       \* whether the device is connected
  started,    \* s_running
  asked,      \* a SUBSCRIBE is under way
  subscribed, \* the device's session has the subscription
  linkFaults, serverFaults,  \* faults so far
  published,  \* ghost: configs the broker has received
  latest,     \* ghost: the last of them for each port
  ran         \* ghost: configs the device has run

dbVars == <<row, ackedAt>>
serverVars == <<post, dbVars, ack, client>>
brokerVars == <<retained, toDevice, toServer, subscribed>>
linkVars == <<link, started, asked>>
faults == <<linkFaults, serverFaults>>
ghostVars == <<published, latest, ran>>
vars == <<deviceVars, serverVars, brokerVars, linkVars, faults, ghostVars>>

NoAck == [id |-> NoId, status |-> "none", loaded |-> "none"]

\* The device has registered and is about to enter mqtt_manager_run().
Init ==
  /\ DeviceInit
  /\ post = [c \in Configs |-> "idle"] /\ row = [c \in Configs |-> "none"] /\ ackedAt = {}
  /\ ack = NoAck /\ client = "listening"
  /\ toServer = <<>> /\ retained = None /\ toDevice = <<>> /\ subscribed = FALSE
  /\ link = "up" /\ started = FALSE /\ asked = FALSE
  /\ linkFaults = 0 /\ serverFaults = 0
  /\ published = {} /\ latest = [p \in Ports |-> NoId] /\ ran = {}

----------------------------------------------------------------------------
(* push_config_endpoint(), one coroutine for each config.                    *)

Step(c, here, next) == post[c] = here /\ post' = [post EXCEPT ![c] = next]

\* Mutant: published before the row is committed.
InsertMutant(c) ==
  /\ Step(c, "idle", "publish")
  /\ UNCHANGED <<deviceVars, dbVars, ack, client, brokerVars, linkVars, faults, ghostVars>>

Insert(c) ==
  /\ Step(c, "idle", "publish")
  /\ row' = [row EXCEPT ![c] = "pending"]
  /\ UNCHANGED <<deviceVars, ackedAt, ack, client, brokerVars, linkVars, faults, ghostVars>>

\* What the broker sends to the server: PUBACKs, and the acks of the device.
Puback(c) == [port |-> PortOf[c], id |-> c, status |-> "puback"]

\* The broker stores the message, confirms it, and forwards it to a
\* subscribed device.
Publish(c) ==
  /\ Step(c, "publish", "puback")
  /\ client # "down"
  /\ retained' = c
  /\ toServer' = Append(toServer, Puback(c))
  /\ toDevice' = IF subscribed THEN Append(toDevice, c) ELSE toDevice
  /\ published' = published \cup {c}
  /\ latest' = [latest EXCEPT ![PortOf[c]] = c]
  /\ UNCHANGED <<deviceVars, dbVars, ack, client, subscribed, linkVars, faults, ran>>

\* Mutant: the failure is not noticed.
PublishFailsMutant(c) ==
  /\ Step(c, "publish", "mark")
  /\ client = "down"
  /\ UNCHANGED <<deviceVars, dbVars, ack, client, brokerVars, linkVars, faults, ghostVars>>

\* RuntimeError in publish_config(): the row stays pending.
PublishFails(c) ==
  /\ Step(c, "publish", "failed")
  /\ client = "down"
  /\ UNCHANGED <<deviceVars, dbVars, ack, client, brokerVars, linkVars, faults, ghostVars>>

\* The client reads PUBACKs at once, acks wait in its queue for the loop; so
\* a PUBACK may overtake an ack, and never the other way round.
PublishConfirmed(c) ==
  /\ Step(c, "puback", "mark")
  /\ \E i \in 1..Len(toServer) :
       /\ toServer[i] = Puback(c)
       /\ toServer' = SubSeq(toServer, 1, i - 1) \o SubSeq(toServer, i + 1, Len(toServer))
  /\ UNCHANGED <<deviceVars, dbVars, ack, client, retained, toDevice, subscribed, linkVars,
                 faults, ghostVars>>

\* The status is written whatever the row holds by now.
MarkPushed(c) ==
  /\ Step(c, "mark", "done")
  /\ row' = [row EXCEPT ![c] = "pushed"]
  /\ UNCHANGED <<deviceVars, ackedAt, ack, client, brokerVars, linkVars, faults, ghostVars>>

PostStep(c) ==
  Publish(c) \/ PublishFails(c) \/ PublishConfirmed(c) \/ MarkPushed(c)

----------------------------------------------------------------------------
(* mqtt_loop() and handle_config_ack(): one message at a time.               *)

\* Connected, _client set; the acks are subscribed to a little later.
Connect ==
  /\ client = "down" /\ client' = "connected"
  /\ UNCHANGED <<deviceVars, post, dbVars, ack, brokerVars, linkVars, faults, ghostVars>>

Listen ==
  /\ client = "connected" /\ client' = "listening"
  /\ UNCHANGED <<deviceVars, post, dbVars, ack, brokerVars, linkVars, faults, ghostVars>>

\* An ack without config_id is ignored; otherwise its row is loaded, if there
\* is one.
LoadRow ==
  /\ ack = NoAck /\ toServer # <<>> /\ Head(toServer).status # "puback"
  /\ toServer' = Tail(toServer)
  /\ ack' = LET a == Head(toServer) IN
              IF a.id = NoId THEN NoAck
              ELSE [id |-> a.id, status |-> a.status,
                    loaded |-> IF a.id \in Configs THEN row[a.id] ELSE "none"]
  /\ UNCHANGED <<deviceVars, post, dbVars, client, retained, toDevice, subscribed, linkVars,
                 faults, ghostVars>>

\* The session writes the columns that changed since they were loaded.
CommitAck ==
  /\ ack # NoAck
  /\ row' = IF ack.loaded \in {"none", ack.status} THEN row
            ELSE [row EXCEPT ![ack.id] = ack.status]
  /\ ackedAt' = IF ack.loaded = "none" THEN ackedAt ELSE ackedAt \cup {ack.id}
  /\ ack' = NoAck
  /\ UNCHANGED <<deviceVars, post, client, brokerVars, linkVars, faults, ghostVars>>

----------------------------------------------------------------------------
(* The device's connection.                                                  *)

KeepServer == UNCHANGED <<serverVars, ghostVars>>

\* mqtt_manager_run(): s_running is set, then the topic is subscribed to.
StartRun ==
  /\ ~started
  /\ started' = TRUE /\ asked' = (link = "up")
  /\ KeepServer /\ UNCHANGED <<deviceVars, brokerVars, link, faults>>

\* Mutant: MQTT_EVENT_CONNECTED does not subscribe again.
LinkUpMutant ==
  /\ link = "down"
  /\ link' = "up"
  /\ KeepServer /\ UNCHANGED <<deviceVars, brokerVars, started, asked, faults>>

\* MQTT_EVENT_CONNECTED.
LinkUp ==
  /\ link = "down"
  /\ link' = "up" /\ asked' = started
  /\ KeepServer /\ UNCHANGED <<deviceVars, brokerVars, started, faults>>

\* The broker answers every SUBSCRIBE with the retained message.
Subscribe ==
  /\ asked
  /\ asked' = FALSE /\ subscribed' = TRUE
  /\ toDevice' = IF retained = None THEN toDevice ELSE Append(toDevice, retained)
  /\ KeepServer /\ UNCHANGED <<deviceVars, retained, toServer, link, started, faults>>

Receive ==
  /\ toDevice # <<>>
  /\ CopyBegin(MessageOf(Head(toDevice))) \/ CopyNothing(MessageOf(Head(toDevice)))
  /\ toDevice' = Tail(toDevice)
  /\ KeepServer /\ UNCHANGED <<retained, toServer, subscribed, linkVars, faults>>

Routed(a) == IF client = "listening" THEN Append(toServer, a) ELSE toServer

AckOut ==
  /\ link = "up"
  /\ SendAck
  /\ toServer' = Routed(Head(outbox))
  /\ KeepServer /\ UNCHANGED <<retained, toDevice, subscribed, linkVars, faults>>

DeviceStep ==
  /\ CopyEnd \/ MainStep
  /\ ran' = ran \cup {running'[p] : p \in Ports}
  /\ UNCHANGED <<serverVars, brokerVars, linkVars, faults, published, latest>>

----------------------------------------------------------------------------
(* Faults.                                                                   *)

LinkFault ==
  linkFaults < MaxLinkFaults /\ linkFaults' = linkFaults + 1 /\ UNCHANGED serverFaults

ServerFault ==
  serverFaults < MaxServerFaults /\ serverFaults' = serverFaults + 1 /\ UNCHANGED linkFaults

SessionEnds ==
  /\ link' = "down" /\ asked' = FALSE /\ subscribed' = FALSE /\ toDevice' = <<>>

LinkLost ==
  /\ LinkFault /\ link = "up"
  /\ SessionEnds
  /\ KeepServer /\ UNCHANGED <<deviceVars, retained, toServer, started>>

\* The connection breaks between an ack and its PUBACK: the client keeps the
\* ack and sends it again.
AckRepeated ==
  /\ LinkFault /\ link = "up" /\ outbox # <<>>
  /\ toServer' = Routed(Head(outbox))
  /\ SessionEnds
  /\ KeepServer /\ UNCHANGED <<deviceVars, retained, started>>

DeviceRestarts ==
  /\ Restart
  /\ SessionEnds /\ started' = FALSE
  /\ KeepServer /\ UNCHANGED <<retained, toServer, faults>>

\* A request that waits for its PUBACK gets an MqttError.
Unconfirmed == [c \in Configs |-> IF post[c] = "puback" THEN "failed" ELSE post[c]]

ServerDisconnected ==
  /\ ServerFault /\ client # "down"
  /\ client' = "down" /\ toServer' = <<>>
  /\ post' = Unconfirmed
  /\ UNCHANGED <<deviceVars, dbVars, ack, retained, toDevice, subscribed, linkVars, ghostVars>>

ServerCrashes ==
  /\ ServerFault
  /\ client' = "down" /\ toServer' = <<>> /\ ack' = NoAck
  /\ post' = [c \in Configs |-> IF post[c] \in {"publish", "puback", "mark"} THEN "failed"
                            ELSE post[c]]
  /\ UNCHANGED <<deviceVars, dbVars, retained, toDevice, subscribed, linkVars, ghostVars>>

BrokerRestarts ==
  /\ ServerFault
  /\ retained' = None
  /\ SessionEnds
  /\ client' = "down" /\ toServer' = <<>> /\ post' = Unconfirmed
  /\ UNCHANGED <<deviceVars, dbVars, ack, started, ghostVars>>

----------------------------------------------------------------------------
\* The device is connected and idle and nothing is on its way to it.
Settled ==
  /\ link = "up" /\ started /\ ~asked /\ toDevice = <<>>
  /\ copying = None /\ ~bit /\ phase = "idle"

\* And no ack is on its way, nor a request.
AllSettled ==
  /\ Settled /\ outbox = <<>> /\ toServer = <<>> /\ ack = NoAck
  /\ \A c \in Configs : post[c] \in {"idle", "done", "failed"}

\* Every config has been pushed: the system waits for the next request.
Quiescent ==
  /\ AllSettled /\ client = "listening" /\ \A c \in Configs : post[c] # "idle"
  /\ UNCHANGED vars

ServerStep == Connect \/ Listen \/ LoadRow \/ CommitAck
LinkStep == StartRun \/ LinkUp \/ Subscribe \/ Receive \/ AckOut
FaultStep ==
  \/ LinkLost \/ AckRepeated \/ DeviceRestarts
  \/ ServerDisconnected \/ ServerCrashes \/ BrokerRestarts

Next ==
  \/ \E c \in Configs : Insert(c) \/ PostStep(c)
  \/ ServerStep \/ LinkStep \/ DeviceStep \/ FaultStep
  \/ Quiescent

Spec == Init /\ [][Next]_vars

\* Coroutines, tasks and the network make progress; users need not push and
\* faults need not happen.
Fairness ==
  /\ \A c \in Configs : WF_vars(PostStep(c))
  /\ WF_vars(Connect) /\ WF_vars(Listen) /\ WF_vars(LoadRow) /\ WF_vars(CommitAck)
  /\ WF_vars(StartRun) /\ WF_vars(LinkUp) /\ WF_vars(Subscribe)
  /\ WF_vars(Receive) /\ WF_vars(AckOut)
  /\ WF_vars(DeviceStep)

FairSpec == Spec /\ Fairness

----------------------------------------------------------------------------
PostStates == {"idle", "publish", "puback", "mark", "done", "failed"}
Statuses == {"none", "pending", "pushed", "applied", "rejected"}
AckMessage == [port : Int, id : Ids \cup {NoId}, status : {"applied", "rejected"}]
PubackMessage == [port : Ports, id : Configs, status : {"puback"}]
OptionalIds == Ids \cup {NoId}

\* Every variable keeps its type.  Between two copies the buffer holds the
\* head of one message (mqtt_manager.c:379-381); the handler's id and port
\* may come from two.
TypeOK ==
  /\ copying \in Heads \cup {None}
  /\ head \in {HeadOf(m) : m \in Heads} \cup {NoHead}
  /\ bit \in BOOLEAN /\ phase \in Phases
  /\ job \in [id : OptionalIds, port : Int]
  /\ phase \in {"accepted", "applied"} => job.port \in Ports
  /\ running \in [Ports -> OptionalIds] /\ saved \in [Ports -> OptionalIds]
  /\ outbox \in Seq(AckMessage) /\ boots \in 0..MaxBoots
  /\ post \in [Configs -> PostStates] /\ row \in [Configs -> Statuses]
  /\ ackedAt \subseteq Configs
  /\ ack \in [id : OptionalIds, status : Statuses, loaded : Statuses]
  /\ client \in {"down", "connected", "listening"}
  /\ toServer \in Seq(AckMessage \cup PubackMessage)
  /\ retained \in Configs \cup {None} /\ toDevice \in Seq(Configs) /\ subscribed \in BOOLEAN
  /\ link \in {"up", "down"} /\ started \in BOOLEAN /\ asked \in BOOLEAN
  /\ linkFaults \in 0..MaxLinkFaults /\ serverFaults \in 0..MaxServerFaults
  /\ published \subseteq Configs /\ latest \in [Ports -> Configs \cup {NoId}]
  /\ ran \subseteq OptionalIds

\* Whatever was lost, mixed up in the buffer or repeated: a settled device
\* runs the retained config, the last one published, on its port (mqtt.py:79-85,
\* mqtt_manager.c:354-361).  The copy that mixed up a message ends with an
\* event bit, so the whole message is handled after it.
RetainedRuns ==
  (Settled /\ retained \in Fitting) => running[PortOf[retained]] = retained

\* A row says "applied" only if the device has run that config
\* (handlers.py:90-95).
AppliedWasRun == \A c \in Configs : row[c] = "applied" => c \in ran

\* A config the device runs, on whichever port, is in the database: it was
\* stored before it was sent (api.py:132-145).
RunningIsStored ==
  \A p \in Ports : running[p] \in Configs => row[running[p]] # "none"

\* A settled device runs on each port a config that was posted for it: every
\* message names the port "um die richtige Pumpe zu adressieren"
\* (greenbox-docs.tex:605-606).
RunsOnItsPort ==
  \A p \in Ports : (Settled /\ running[p] \in Configs) => PortOf[running[p]] = p

\* "status transitions from pending -> pushed -> applied/rejected"
\* (models.py:5-6): what the device answered is never overwritten by an older
\* status.
StatusForward ==
  [][\A c \in Configs : row[c] \in {"applied", "rejected"} => row'[c] # "pushed"]_vars

\* A row leaves "pending" only when the broker has the message
\* (api.py:146-149).
PushedIsPublished == \A c \in Configs : row[c] \notin {"none", "pending"} => c \in published

\* Lost connections and power cycles of the device never lose the
\* acknowledgement of the retained config: the device acknowledges it again
\* (mqtt_manager.c:723-725, :766-770).
AckSurvivesDevice ==
  (AllSettled /\ serverFaults = 0 /\ retained \in Fitting) => retained \in ackedAt

\* In the end the device runs the retained config for good.
Converges == <>[](retained \in Fitting => running[PortOf[retained]] = retained)

\* "retain=true ensures offline devices receive the latest config when they
\* next connect" (mqtt.py:80-81): the latest of each port.
LatestRuns ==
  \A p \in Ports : (Settled /\ latest[p] \in Fitting) => running[p] = latest[p]
=============================================================================
