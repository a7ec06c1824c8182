----------------------------- MODULE Registration -----------------------------
(***************************************************************************)
(* Phase 2: mqtt_manager_register() with its event bits and the MQTT task,   *)
(* against handle_registration() on the server.                              *)
(*                                                                          *)
(* The main task goes through the stages of an attempt; in each it makes a   *)
(* call, blocks on the event group and looks at the bits it was woken with.  *)
(* The MQTT task raises bits at any time, also between two of these steps.   *)
(* Destroying a client waits for its task, so a destroyed client raises       *)
(* nothing more; what it has sent may still be answered.                      *)
(***************************************************************************)
EXTENDS Naturals, Sequences, SequencesExt

CONSTANTS
  MaxRetries,      \* MAX_RETRIES
  MaxFaults,       \* bound: refused or lost connections and answers that come too late
  MaxServerFaults, \* bound: lost connections, crashes and failed requests of the server
  MaxBoots         \* bound: power cycles

ASSUME RetriesAssumption == MaxRetries \in Nat \ {0}
ASSUME BoundsAssumption == MaxFaults \in Nat /\ MaxServerFaults \in Nat /\ MaxBoots \in Nat

VARIABLES
  stage,      \* where mqtt_manager_register() stands
  step,       \* "call", "blocked" or "woken" within a stage that waits
  attempt,    \* attempts that have failed
  status,     \* the status the main task reads from s_response_buf
  bits,       \* the bits set in s_mqtt_events
  got,        \* the bits wait_bits() returned last
  group,      \* whether the event group exists
  clients,    \* MQTT clients initialised and not destroyed
  led,        \* what LED 2 shows
  link,       \* the connection of the newest client
  asked,      \* its SUBSCRIBE is on its way
  request,    \* its reg/request: "none", "queued" in the outbox, "sent" without PUBACK
  subscribed, \* the broker's session has the subscription to reg/response
  toDevice,   \* packets on their way to the device
  reply,      \* s_response_buf
  requests,   \* requests that wait for handle_registration()
  server,     \* mqtt_loop(): "down", "listening", "answering"
  answer,     \* the status handle_registration() is about to publish
  row,        \* whether the device is in the devices table
  faults, serverFaults, boots,  \* faults so far
  missed,     \* ghost: requests that found no server
  spoilt      \* ghost: something went wrong in this attempt

mainVars == <<stage, step, attempt, status, led>>
eventVars == <<bits, got>>
clientVars == <<group, clients>>
netVars == <<link, asked, request, subscribed, toDevice, reply>>
serverVars == <<requests, server, answer, row>>
faultVars == <<faults, serverFaults, boots, missed>>
vars == <<mainVars, eventVars, clientVars, netVars, serverVars, faultVars, spoilt>>

Success == {"registered", "already_registered"}
Stages == {"connect", "subscribe", "publish", "answer"}

\* The bit each stage hopes for, and the bits it waits for.
Wanted == [connect |-> "CONNECTED", subscribe |-> "SUBSCRIBED",
           publish |-> "PUBLISHED", answer |-> "DATA"]
Awaited == [s \in Stages |-> {Wanted[s], "DISCONNECTED"}
                             \cup (IF s = "connect" THEN {"ERROR"} ELSE {})]

NoSession == link' = "down" /\ asked' = FALSE /\ subscribed' = FALSE /\ toDevice' = <<>>

Init ==
  /\ stage = "begin" /\ step = "call" /\ attempt = 0 /\ status = "none" /\ led = "off"
  /\ bits = {} /\ got = {} /\ group = FALSE /\ clients = 0
  /\ link = "down" /\ asked = FALSE /\ request = "none" /\ subscribed = FALSE
  /\ toDevice = <<>> /\ reply = "none"
  /\ requests = 0 /\ server = "listening" /\ answer = "none" /\ row = FALSE
  /\ faults = 0 /\ serverFaults = 0 /\ boots = 0 /\ missed = 0 /\ spoilt = FALSE

----------------------------------------------------------------------------
(* wait_bits(): xEventGroupWaitBits() clears what it waited for if it        *)
(* returns because of it, and nothing when the time is up.                   *)

\* The MQTT task sets a bit; the wake-up clears the awaited bits at once,
\* before the main task runs.
Raise(e) ==
  /\ IF step = "blocked" /\ e \in Awaited[stage]
     THEN /\ got' = bits \cup {e} /\ bits' = (bits \cup {e}) \ Awaited[stage]
          /\ step' = "woken"
     ELSE bits' = bits \cup {e} /\ UNCHANGED <<got, step>>
  /\ UNCHANGED <<stage, attempt, led, clientVars>>

Wait ==
  /\ stage \in Stages /\ step = "call"
  /\ IF bits \cap Awaited[stage] = {}
     THEN step' = "blocked" /\ UNCHANGED eventVars
     ELSE step' = "woken" /\ got' = bits /\ bits' = bits \ Awaited[stage]
  /\ UNCHANGED <<stage, attempt, status, led, clientVars, netVars, serverVars, faultVars, spoilt>>

Underway(packet) == Contains(toDevice, packet)

\* What the stage waits for can still come.
Coming ==
  CASE stage = "connect" -> TRUE
    [] stage = "subscribe" -> asked \/ Underway("suback")
    [] stage = "publish" -> request # "none"
    [] OTHER -> request = "queued" \/ requests > 0 \/ server = "answering"
                \/ \E s \in Success : Underway(s)

\* Mutant: the wait for an answer is repeated until there is one.
TimesOutMutant ==
  /\ step = "blocked"
  /\ IF Coming THEN /\ faults < MaxFaults /\ faults' = faults + 1 /\ spoilt' = TRUE
               ELSE UNCHANGED <<faults, spoilt>>
  /\ step' = IF stage = "answer" THEN "call" ELSE "woken"
  /\ got' = bits
  /\ UNCHANGED <<stage, attempt, status, led, bits, clientVars, netVars, serverVars,
                 serverFaults, boots, missed>>

\* The time is up, whatever the server does.  It is a fault if what was awaited
\* is only late.
TimesOut ==
  /\ step = "blocked"
  /\ IF Coming THEN /\ faults < MaxFaults /\ faults' = faults + 1 /\ spoilt' = TRUE
               ELSE UNCHANGED <<faults, spoilt>>
  /\ step' = "woken" /\ got' = bits
  /\ UNCHANGED <<stage, attempt, status, led, bits, clientVars, netVars, serverVars,
                 serverFaults, boots, missed>>

----------------------------------------------------------------------------
(* mqtt_manager_register().                                                  *)

Begin ==
  /\ stage = "begin" /\ stage' = "attempt"
  /\ group' = TRUE /\ bits' = {}
  /\ UNCHANGED <<step, attempt, status, led, got, clients, netVars, serverVars, faultVars, spoilt>>

\* Mutant: the bits of the last attempt are kept.
FreshBitsMutant == bits
FreshBits == {}

\* Mutant: one attempt too many.
RetriesLeftMutant == attempt <= MaxRetries
RetriesLeft == attempt < MaxRetries

\* A client is initialised and started, with a session of its own.
StartAttempt ==
  /\ stage = "attempt" /\ RetriesLeft
  /\ stage' = "connect" /\ step' = "call" /\ led' = "yellow"
  /\ bits' = FreshBits /\ spoilt' = FALSE
  /\ clients' = clients + 1 /\ NoSession /\ request' = "none"
  /\ UNCHANGED <<attempt, status, got, group, reply, serverVars, faultVars>>

WokenBy(e) == stage \in Stages /\ Wanted[stage] = e /\ step = "woken" /\ e \in got

\* A SUBSCRIBE without a connection is refused and not kept.
Subscribe ==
  /\ WokenBy("CONNECTED")
  /\ stage' = "subscribe" /\ step' = "call"
  /\ bits' = bits \ {"SUBSCRIBED"}
  /\ asked' = (link = "up")
  /\ UNCHANGED <<attempt, status, led, got, clientVars, link, request, subscribed, toDevice, reply,
                 serverVars, faultVars, spoilt>>

\* A QoS 1 message is kept in the outbox until its PUBACK.
Publish ==
  /\ WokenBy("SUBSCRIBED")
  /\ stage' = "publish" /\ step' = "call"
  /\ bits' = bits \ {"PUBLISHED", "DATA"}
  /\ request' = "queued"
  /\ UNCHANGED <<attempt, status, led, got, clientVars, link, asked, subscribed, toDevice, reply,
                 serverVars, faultVars, spoilt>>

AwaitAnswer ==
  /\ WokenBy("PUBLISHED")
  /\ stage' = "answer" /\ step' = "call"
  /\ UNCHANGED <<attempt, status, led, eventVars, clientVars, netVars, serverVars, faultVars, spoilt>>

\* json_get_str() reads s_response_buf, which the MQTT task may overwrite
\* meanwhile (Receive).
ReadReply ==
  /\ WokenBy("DATA")
  /\ stage' = "parse" /\ status' = reply
  /\ UNCHANGED <<step, attempt, led, eventVars, clientVars, netVars, serverVars, faultVars, spoilt>>

Registered ==
  /\ stage = "parse" /\ status \in Success
  /\ stage' = "registered" /\ led' = "green"
  /\ UNCHANGED <<step, attempt, status, eventVars, clientVars, netVars, serverVars, faultVars, spoilt>>

\* Mutant: a client without an answer is not destroyed.
DestroyMutant ==
  /\ clients' = IF stage = "answer" THEN clients ELSE clients - 1
  /\ NoSession /\ request' = "none" /\ UNCHANGED <<group, reply>>

\* esp_mqtt_client_stop(), esp_mqtt_client_destroy(): connection, session and
\* outbox go with the client.
Destroy ==
  /\ clients' = clients - 1
  /\ NoSession /\ request' = "none" /\ UNCHANGED <<group, reply>>

FailureColour ==
  CASE stage = "connect" /\ "ERROR" \in got -> "red_fast"
    [] stage = "answer" -> "white"
    [] stage = "parse" -> led
    [] OTHER -> "red_slow"

\* Every other outcome of a wait, and a status that is none of the two: the
\* server knows no other, so the LED of "rejected" is left out.
Fails ==
  /\ \/ stage \in Stages /\ step = "woken" /\ ~WokenBy(Wanted[stage])
     \/ stage = "parse" /\ status \notin Success
  /\ led' = FailureColour
  /\ Destroy
  /\ stage' = "backoff"
  /\ UNCHANGED <<step, attempt, status, eventVars, serverVars, faultVars, spoilt>>

Backoff ==
  /\ stage = "backoff"
  /\ stage' = "attempt" /\ attempt' = attempt + 1
  /\ UNCHANGED <<step, status, led, eventVars, clientVars, netVars, serverVars, faultVars, spoilt>>

\* app_main() halts.
GiveUp ==
  /\ stage = "attempt" /\ ~RetriesLeft
  /\ stage' = "gaveUp" /\ led' = "red" /\ group' = FALSE
  /\ UNCHANGED <<step, attempt, status, eventVars, clients, netVars, serverVars, faultVars, spoilt>>

MainStep ==
  \/ Begin \/ StartAttempt \/ Wait \/ Subscribe \/ Publish \/ AwaitAnswer
  \/ ReadReply \/ Registered \/ Fails \/ Backoff \/ GiveUp

----------------------------------------------------------------------------
(* The connection: esp-mqtt's task and the broker.                           *)

LinkFault == faults < MaxFaults /\ faults' = faults + 1 /\ spoilt' = TRUE
NoFault == UNCHANGED <<faultVars, spoilt>>

Connects ==
  /\ clients > 0 /\ link = "down"
  /\ link' = "up" /\ Raise("CONNECTED")
  /\ NoFault /\ UNCHANGED <<status, asked, request, subscribed, toDevice, reply, serverVars>>

\* esp-mqtt reports an error first and then the end of the connection.
Refused ==
  /\ clients > 0 /\ link = "down" /\ LinkFault
  /\ link' = "refused" /\ Raise("ERROR")
  /\ UNCHANGED <<status, asked, request, subscribed, toDevice, reply, serverVars,
                 serverFaults, boots, missed>>

Aborted ==
  /\ link = "refused"
  /\ link' = "down" /\ Raise("DISCONNECTED")
  /\ NoFault /\ UNCHANGED <<status, asked, request, subscribed, toDevice, reply, serverVars>>

\* A message without PUBACK is sent again over the next connection.
LinkLost ==
  /\ clients > 0 /\ link = "up" /\ LinkFault
  /\ NoSession /\ Raise("DISCONNECTED")
  /\ request' = IF request = "sent" THEN "queued" ELSE request
  /\ UNCHANGED <<status, reply, serverVars, serverFaults, boots, missed>>

BrokerSubscribes ==
  /\ asked /\ link = "up"
  /\ asked' = FALSE /\ subscribed' = TRUE /\ toDevice' = Append(toDevice, "suback")
  /\ NoFault
  /\ UNCHANGED <<mainVars, eventVars, clientVars, link, request, reply, serverVars>>

\* The broker keeps nothing for a server that is not connected.
BrokerForwards ==
  /\ request = "queued" /\ link = "up"
  /\ request' = "sent" /\ toDevice' = Append(toDevice, "puback")
  /\ IF server = "down"
     THEN missed' = missed + 1 /\ spoilt' = TRUE /\ UNCHANGED requests
     ELSE requests' = requests + 1 /\ UNCHANGED <<missed, spoilt>>
  /\ UNCHANGED <<mainVars, eventVars, clientVars, link, asked, subscribed, reply,
                 server, answer, row, faults, serverFaults, boots>>

\* Another status in the buffer while the main task parses it: it reads the
\* old one, the new one, or a mixture that is none of the two.
Receive ==
  /\ toDevice # <<>>
  /\ toDevice' = Tail(toDevice)
  /\ LET packet == Head(toDevice) IN
       \/ packet = "suback" /\ Raise("SUBSCRIBED") /\ UNCHANGED <<status, request, reply, spoilt>>
       \/ /\ packet = "puback" /\ Raise("PUBLISHED")
          /\ request' = "none" /\ UNCHANGED <<status, reply, spoilt>>
       \/ /\ packet \in Success /\ Raise("DATA")
          /\ reply' = packet
          /\ status' \in IF stage = "parse" /\ status # packet THEN {status, packet, "torn"}
                         ELSE {status}
          /\ spoilt' = (spoilt \/ (status' = "torn" /\ stage = "parse"))
          /\ UNCHANGED request
  /\ UNCHANGED <<link, asked, subscribed, serverVars, faultVars>>

NetworkStep == Connects \/ Aborted \/ BrokerSubscribes \/ BrokerForwards \/ Receive

----------------------------------------------------------------------------
(* The server: one message at a time.                                        *)

OnServer == UNCHANGED <<mainVars, eventVars, clientVars, link, asked, request, subscribed, reply>>

\* Mutant: the response is prepared before the commit.
HandleMutant ==
  /\ server = "listening" /\ requests > 0
  /\ requests' = requests - 1 /\ server' = "answering"
  /\ answer' = IF row THEN "already_registered" ELSE "registered"
  /\ OnServer /\ NoFault /\ UNCHANGED <<row, toDevice>>

\* Mutant: an INSERT without looking fails for a device that has a row.
HandleInsertOnly ==
  /\ server = "listening" /\ requests > 0
  /\ requests' = requests - 1
  /\ server' = IF row THEN "listening" ELSE "answering"
  /\ answer' = "registered" /\ row' = TRUE
  /\ OnServer /\ NoFault /\ UNCHANGED toDevice

\* The row is inserted or updated and committed.
Handle ==
  /\ server = "listening" /\ requests > 0
  /\ requests' = requests - 1 /\ server' = "answering"
  /\ answer' = IF row THEN "already_registered" ELSE "registered"
  /\ row' = TRUE
  /\ OnServer /\ NoFault /\ UNCHANGED toDevice

Respond ==
  /\ server = "answering" /\ server' = "listening"
  /\ toDevice' = IF subscribed THEN Append(toDevice, answer) ELSE toDevice
  /\ OnServer /\ NoFault /\ UNCHANGED <<requests, answer, row>>

Reconnect ==
  /\ server = "down" /\ server' = "listening"
  /\ OnServer /\ NoFault /\ UNCHANGED <<toDevice, requests, answer, row>>

ServerStep == Handle \/ Respond \/ Reconnect

\* The connection is lost or the server crashes: what it has not handled, and
\* the response it has not published, are gone.
ServerFails ==
  /\ server # "down" /\ serverFaults < MaxServerFaults
  /\ serverFaults' = serverFaults + 1
  /\ server' = "down" /\ requests' = 0
  /\ spoilt' = TRUE
  /\ OnServer /\ UNCHANGED <<toDevice, answer, row, faults, boots, missed>>

\* The database fails a request; mqtt_loop() logs it and goes on.  The commit
\* may have been carried out.
HandlingFails ==
  /\ server = "listening" /\ requests > 0 /\ serverFaults < MaxServerFaults
  /\ serverFaults' = serverFaults + 1
  /\ requests' = requests - 1
  /\ row' \in {row, TRUE}
  /\ spoilt' = TRUE
  /\ OnServer /\ UNCHANGED <<toDevice, server, answer, faults, boots, missed>>

PowerCycle ==
  /\ boots < MaxBoots /\ boots' = boots + 1
  /\ stage' = "begin" /\ step' = "call" /\ attempt' = 0 /\ status' = "none" /\ led' = "off"
  /\ bits' = {} /\ got' = {} /\ group' = FALSE /\ clients' = 0
  /\ NoSession /\ request' = "none" /\ reply' = "none"
  /\ UNCHANGED <<serverVars, faults, serverFaults, missed, spoilt>>

Over == stage \in {"registered", "gaveUp"}

\* Phase 3 is another module.
Finished == Over /\ UNCHANGED vars

Next ==
  \/ MainStep \/ TimesOut \/ NetworkStep \/ ServerStep
  \/ Refused \/ LinkLost \/ ServerFails \/ HandlingFails \/ PowerCycle
  \/ Finished

Spec == Init /\ [][Next]_vars

\* The main task, the timer of a wait, the clients' tasks and a connected
\* server run; faults need not happen, and a server that is away need not come
\* back.
Fairness ==
  /\ WF_vars(MainStep) /\ WF_vars(TimesOut /\ ~Coming)
  /\ WF_vars(NetworkStep) /\ WF_vars(Handle \/ Respond)

FairSpec == Spec /\ Fairness

----------------------------------------------------------------------------
Bits == {"CONNECTED", "DISCONNECTED", "SUBSCRIBED", "PUBLISHED", "DATA", "ERROR"}
Packets == {"suback", "puback"} \cup Success
Statuses == Success \cup {"none", "torn"}
Colours == {"off", "yellow", "red_fast", "red_slow", "white", "green", "red"}

\* Every variable keeps its type; an attempt indexes backoff_ms[] within its
\* MAX_RETRIES entries (mqtt_manager.c:823-858).
TypeOK ==
  /\ stage \in Stages \cup {"begin", "attempt", "parse", "registered", "backoff", "gaveUp"}
  /\ step \in {"call", "blocked", "woken"} /\ attempt \in 0..MaxRetries
  /\ stage = "backoff" => attempt < MaxRetries
  /\ status \in Statuses /\ led \in Colours
  /\ bits \subseteq Bits /\ got \subseteq Bits /\ group \in BOOLEAN /\ clients \in 0..1
  /\ link \in {"up", "down", "refused"} /\ asked \in BOOLEAN
  /\ request \in {"none", "queued", "sent"}
  /\ subscribed \in BOOLEAN /\ toDevice \in Seq(Packets)
  /\ reply \in Success \cup {"none"} /\ requests \in Nat
  /\ server \in {"down", "listening", "answering"} /\ answer \in Success \cup {"none"}
  /\ row \in BOOLEAN /\ spoilt \in BOOLEAN
  /\ faults \in 0..MaxFaults /\ serverFaults \in 0..MaxServerFaults /\ boots \in 0..MaxBoots
  /\ missed \in Nat

\* Whichever attempt an answer belongs to, a device that goes on to Phase 3
\* or shows green is in the database (mqtt_manager.c:920-926,
\* handlers.py:73-86).
RegisteredMeansRow == (stage = "registered" \/ led = "green") => row

\* An attempt fails only if something went wrong while it lasted: no bit and
\* no answer of an earlier attempt spoils it (mqtt_manager.c:846, :862, :886).
NoNeedlessRetry == stage = "backoff" => spoilt

\* A fault costs the attempt it hits, a server that is away costs every attempt
\* whose request it misses, and one attempt more is lost at most, because only
\* one answer differs from those before it.  So none fails without a fault or
\* a power cycle, and to use up ten attempts takes nine lost or late messages,
\* failed or missed requests (mqtt_manager.c:823-933, handlers.py:49-71).
FaultCost ==
  LET failed == attempt + (IF stage = "backoff" THEN 1 ELSE 0)
  IN failed <= faults + serverFaults + missed
               + (IF faults + serverFaults + boots = 0 THEN 0 ELSE 1)

\* The event group is deleted only when no client is left whose task could
\* set a bit in it (mqtt_manager.c:937, :362).
GroupOutlivesClient == clients > 0 => group

\* Phase 2 comes to an end, also when the server goes away for good
\* (mqtt_manager.c:823, :936-941).
RegistrationEnds == <>Over
=============================================================================
