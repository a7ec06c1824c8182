----------------------------- MODULE PortConfig -----------------------------
(***************************************************************************)
(* The device side of Phase 3 (gb-src/components/mqtt_manager): a           *)
(* /config/push message is copied by the MQTT task into s_config_buf, an    *)
(* event bit wakes the main task, and handle_config_message() validates it, *)
(* saves it with nvs_manager_set_port_config() and rewrites the port's      *)
(* entry of s_ports while the timer service and the watering tasks go on.   *)
(*                                                                          *)
(* A message is abstracted to the fields the handler branches on; None is a  *)
(* field that is not there.  Times are minutes of the day; NoTime stands for *)
(* a "time" that sscanf cannot read.  The two tasks run on two cores: the    *)
(* handler reads the buffer field by field, and a field read during the copy *)
(* is the old one, the new one or a mixture.  Acks leave in the order they   *)
(* were published.                                                           *)
(***************************************************************************)
EXTENDS Integers, Sequences, FiniteSets

CONSTANTS
  Ports,      \* the pump ports, {1, 2} on the board
  Ids,        \* config ids the server generates
  NoId,       \* the empty config_id, also the one of a zeroed entry
  None,       \* "no value": a missing field, an NVS key never written, no copy
  Messages,   \* the /config/push payloads that may arrive
  Garbled,    \* what else the fields may read as while the buffer is overwritten
  MaxSlots,   \* MAX_SCHEDULE_SLOTS
  RawSlots,   \* complete slot objects that fit schedule_raw[256]
  Saved,      \* the NVS content at the first power-on
  MaxOutbox,  \* bound: acks published and not yet sent
  MaxBoots    \* bound: power cycles

NoTime == -1
Never == -1

RawSlot == [at : Nat \cup {NoTime}, dur : Nat]
Slot == [at : Nat, dur : Nat]
Text == [id : Ids \cup {NoId, None}, port : Int \cup {None}, thr : Int, dur : Nat,
         sched : Seq(RawSlot)]
Payload == [id : Ids \cup {NoId, None}, port : Int \cup {None}, thr : Int, dur : Nat,
            sched : Seq(RawSlot), fits : BOOLEAN]
NvsEntry == [id : Ids \cup {NoId, None}, sched : Seq(RawSlot) \cup {None},
             thr : Int \cup {None}, dur : Nat \cup {None}]

ASSUME PortsAssumption == IsFiniteSet(Ports) /\ Ports \subseteq Nat /\ 1 \in Ports
ASSUME IdsAssumption == NoId \notin Ids
ASSUME NoneAssumption == None \notin Ids \cup {NoId} \cup Int /\ None \notin Seq(RawSlot)
ASSUME SizesAssumption == MaxSlots \in Nat /\ RawSlots \in Nat
ASSUME BoundsAssumption == MaxOutbox \in Nat \ {0} /\ MaxBoots \in Nat
ASSUME MessagesAssumption == Messages \subseteq Payload /\ None \notin Messages
ASSUME GarbledAssumption == Garbled \subseteq Text
ASSUME SavedAssumption == Saved \in [Ports -> NvsEntry]

VARIABLES
  rx,         \* the message the MQTT task is copying, or None
  configBuf,  \* s_config_buf
  configBit,  \* EVT_CONFIG_RECEIVED
  main,       \* where the main task stands in its loop and in the handler
  msg,        \* the handler's local variables
  sPorts,     \* s_ports
  nvs,        \* the four cfg_* keys of each port
  outbox,     \* acks handed to the MQTT client
  led2,       \* the state last requested for LED 2
  failed,     \* ghost: ports whose last save did not complete
  boots       \* ghost: power cycles so far

configVars == <<rx, configBuf, configBit, main, msg, sPorts, nvs, outbox, led2,
                failed, boots>>

\* The zeroed buffer has none of the fields; the handler's locals start as zero.
Empty == [id |-> None, port |-> None, thr |-> 0, dur |-> 0, sched |-> <<>>]
Blank == [id |-> NoId, port |-> 0, thr |-> 0, dur |-> 0, sched |-> <<>>]
TextOf(m) == [id |-> m.id, port |-> m.port, thr |-> m.thr, dur |-> m.dur, sched |-> m.sched]
ZeroSlots == [i \in 1..MaxSlots |-> [at |-> 0, dur |-> 0]]
ZeroPort == [id |-> NoId, thr |-> 0, dur |-> 0, n |-> 0, slots |-> ZeroSlots,
             active |-> FALSE, last |-> 0]

----------------------------------------------------------------------------
(* parse_schedule(): entries are overwritten in place, at most MaxSlots of   *)
(* them, and an unreadable time leaves the one that was there.               *)

Shorter(a, b) == IF a <= b THEN a ELSE b

ParsedSlot(old, raw) ==
  [at |-> IF raw.at = NoTime THEN old.at ELSE raw.at, dur |-> raw.dur]

ParsedSlots(old, sched) ==
  [i \in 1..MaxSlots |-> IF i <= Len(sched) THEN ParsedSlot(old[i], sched[i]) ELSE old[i]]

\* json_get_array() cuts the array text to the buffer; an object cut in two
\* has no closing brace and ends the parse.
Kept(sched) == SubSeq(sched, 1, Shorter(Len(sched), RawSlots))

\* What the boot code makes of a port's NVS keys: all four, or nothing.
Restored(e) ==
  IF None \in {e.id, e.sched, e.thr, e.dur}
  THEN ZeroPort
  ELSE [id |-> e.id, thr |-> e.thr, dur |-> e.dur,
        n |-> Shorter(Len(e.sched), MaxSlots),
        slots |-> ParsedSlots(ZeroSlots, e.sched), active |-> TRUE, last |-> Never]

----------------------------------------------------------------------------
(* The state after registration, with what `saved` holds loaded and GREEN    *)
(* left on LED 2 by mqtt_manager_register().                                 *)

ConfigInit ==
  /\ rx = None
  /\ configBuf = Empty
  /\ configBit = FALSE
  /\ main = "wait"
  /\ msg = Blank
  /\ nvs = Saved
  /\ sPorts = [p \in Ports |-> Restored(Saved[p])]
  /\ outbox = <<>>
  /\ led2 = "GREEN_STEADY"
  /\ failed = {}
  /\ boots = 0

\* Power loss at any point: RAM and the client's outbox are gone.
ConfigReboot ==
  /\ boots < MaxBoots
  /\ boots' = boots + 1
  /\ rx' = None /\ configBuf' = Empty /\ configBit' = FALSE
  /\ main' = "wait" /\ msg' = Blank
  /\ sPorts' = [p \in Ports |-> Restored(nvs[p])]
  /\ outbox' = <<>> /\ led2' = "GREEN_STEADY" /\ failed' = {}
  /\ UNCHANGED nvs

----------------------------------------------------------------------------
(* The MQTT task: MQTT_EVENT_DATA on the config topic.  The copy is not      *)
(* atomic: the main task may be reading the buffer meanwhile.                *)

DataBegin(m) ==
  /\ rx = None
  /\ m.fits
  /\ rx' = m
  /\ UNCHANGED <<configBuf, configBit, main, msg, sPorts, nvs, outbox, led2, failed, boots>>

DataEnd ==
  /\ rx # None
  /\ configBuf' = TextOf(rx)
  /\ configBit' = TRUE
  /\ rx' = None
  /\ UNCHANGED <<main, msg, sPorts, nvs, outbox, led2, failed, boots>>

\* Payloads of 512 bytes or more are not copied, yet the bit is set.
DataTooLong(m) ==
  /\ rx = None
  /\ ~m.fits
  /\ configBit' = TRUE
  /\ UNCHANGED <<rx, configBuf, main, msg, sPorts, nvs, outbox, led2, failed, boots>>

AckSent ==
  /\ outbox # <<>>
  /\ outbox' = Tail(outbox)
  /\ UNCHANGED <<rx, configBuf, configBit, main, msg, sPorts, nvs, led2, failed, boots>>

----------------------------------------------------------------------------
(* The main task: one loop iteration of mqtt_manager_run() and               *)
(* handle_config_message().                                                  *)

Publish(port, id, status) ==
  /\ Len(outbox) < MaxOutbox
  /\ outbox' = Append(outbox, [port |-> port, id |-> id, status |-> status])

Wake ==
  /\ main = "wait" /\ configBit
  /\ configBit' = FALSE
  /\ led2' = "BLUE_BLINKING"
  /\ main' = "readId"
  /\ UNCHANGED <<rx, configBuf, msg, sPorts, nvs, outbox, failed, boots>>

\* What one read of a field may find the buffer to be.
Visible == IF rx = None THEN {configBuf} ELSE {configBuf, TextOf(rx)} \cup Garbled

\* config_id and port are read first, and without both the message is
\* rejected, always in the name of port 1.
MissingId ==
  /\ main = "readId"
  /\ \E b \in Visible : b.id = None
  /\ Publish(1, NoId, "rejected")
  /\ led2' = "WHITE_STEADY"
  /\ main' = "flash"
  /\ UNCHANGED <<rx, configBuf, configBit, msg, sPorts, nvs, failed, boots>>

MissingPort ==
  /\ main = "readPort"
  /\ \E b \in Visible : b.port = None
  /\ Publish(1, msg.id, "rejected")
  /\ led2' = "WHITE_STEADY"
  /\ main' = "flash"
  /\ UNCHANGED <<rx, configBuf, configBit, msg, sPorts, nvs, failed, boots>>

\* The reads take the fields into the locals one by one.
Read(here, next, fields) ==
  /\ main = here
  /\ msg' = fields
  /\ main' = next
  /\ UNCHANGED <<rx, configBuf, configBit, sPorts, nvs, outbox, led2, failed, boots>>

ReadId ==
  \E b \in Visible :
    b.id # None /\ Read("readId", "readPort", [msg EXCEPT !.id = b.id])

ReadPort ==
  \E b \in Visible :
    b.port # None /\ Read("readPort", "readThr", [msg EXCEPT !.port = b.port])

ReadThreshold ==
  \E b \in Visible : Read("readThr", "readDur", [msg EXCEPT !.thr = b.thr])

ReadDuration ==
  \E b \in Visible : Read("readDur", "readSched", [msg EXCEPT !.dur = b.dur])

ReadSchedule ==
  \E b \in Visible : Read("readSched", "check", [msg EXCEPT !.sched = Kept(b.sched)])

ValidValues == msg.port \in Ports /\ msg.thr \in 0..100

InvalidValues ==
  /\ main = "check"
  /\ ~ValidValues
  /\ Publish(msg.port, msg.id, "rejected")
  /\ led2' = "WHITE_STEADY"
  /\ main' = "flash"
  /\ UNCHANGED <<rx, configBuf, configBit, msg, sPorts, nvs, failed, boots>>

\* vTaskDelay(10 s) with LED 2 white, then green, and return.
FlashDone ==
  /\ main = "flash"
  /\ led2' = "GREEN_STEADY"
  /\ main' = "wait"
  /\ msg' = Blank
  /\ UNCHANGED <<rx, configBuf, configBit, sPorts, nvs, outbox, failed, boots>>

\* Mutant: the idempotency test is gone.
SameConfigMutant == FALSE

\* The idempotency test: only the id of the running config is compared.
SameConfig == sPorts[msg.port].id = msg.id

\* Mutant: returns without setting LED 2 back.
AlreadyAppliedMutant ==
  /\ main = "check"
  /\ ValidValues /\ SameConfig
  /\ Publish(msg.port, msg.id, "applied")
  /\ main' = "wait"
  /\ msg' = Blank
  /\ UNCHANGED <<rx, configBuf, configBit, sPorts, nvs, led2, failed, boots>>

AlreadyApplied ==
  /\ main = "check"
  /\ ValidValues /\ SameConfig
  /\ main' = "ack"
  /\ UNCHANGED <<rx, configBuf, configBit, msg, sPorts, nvs, outbox, led2, failed, boots>>

StartSave ==
  /\ main = "check"
  /\ ValidValues /\ ~SameConfig
  /\ main' = "nvsId"
  /\ UNCHANGED <<rx, configBuf, configBit, msg, sPorts, nvs, outbox, led2, failed, boots>>

----------------------------------------------------------------------------
(* nvs_manager_set_port_config(): four writes, each durable on its own (the  *)
(* NVS library writes entries to flash as they are set).  An error skips the *)
(* rest; the handler ignores the result and goes on.                         *)

NvsSet(here, next, entry) ==
  /\ main = here
  /\ nvs' = [nvs EXCEPT ![msg.port] = entry]
  /\ main' = next
  /\ UNCHANGED <<rx, configBuf, configBit, msg, sPorts, outbox, led2, boots>>

SetId ==
  /\ NvsSet("nvsId", "nvsSched", [nvs[msg.port] EXCEPT !.id = msg.id])
  /\ UNCHANGED failed

SetSched ==
  /\ NvsSet("nvsSched", "nvsThr", [nvs[msg.port] EXCEPT !.sched = msg.sched])
  /\ UNCHANGED failed

SetThr ==
  /\ NvsSet("nvsThr", "nvsDur", [nvs[msg.port] EXCEPT !.thr = msg.thr])
  /\ UNCHANGED failed

\* Mutant: acknowledged once saved, before it is applied.
SetDurMutant ==
  /\ NvsSet("nvsDur", "ack", [nvs[msg.port] EXCEPT !.dur = msg.dur])
  /\ failed' = failed \ {msg.port}

SetDur ==
  /\ NvsSet("nvsDur", "apply", [nvs[msg.port] EXCEPT !.dur = msg.dur])
  /\ failed' = failed \ {msg.port}

SaveFails ==
  /\ main \in {"nvsId", "nvsSched", "nvsThr", "nvsDur"}
  /\ main' = "apply"
  /\ failed' = failed \cup {msg.port}
  /\ UNCHANGED <<rx, configBuf, configBit, msg, sPorts, nvs, outbox, led2, boots>>

----------------------------------------------------------------------------
(* The new config reaches s_ports field by field, and the timer callbacks    *)
(* may read it half done.                                                    *)

ApplyThreshold ==
  /\ main = "apply"
  /\ sPorts' = [sPorts EXCEPT ![msg.port].id = msg.id, ![msg.port].thr = msg.thr]
  /\ main' = "duration"
  /\ UNCHANGED <<rx, configBuf, configBit, msg, nvs, outbox, led2, failed, boots>>

\* Mutant: num_slots is not reset.
ApplyDurationMutant ==
  /\ main = "duration"
  /\ sPorts' = [sPorts EXCEPT ![msg.port].dur = msg.dur]
  /\ main' = "parse"
  /\ UNCHANGED <<rx, configBuf, configBit, msg, nvs, outbox, led2, failed, boots>>

\* Also parse_schedule()'s reset of num_slots.
ApplyDuration ==
  /\ main = "duration"
  /\ sPorts' = [sPorts EXCEPT ![msg.port].dur = msg.dur, ![msg.port].n = 0]
  /\ main' = "parse"
  /\ UNCHANGED <<rx, configBuf, configBit, msg, nvs, outbox, led2, failed, boots>>

\* Mutant: the array bound is not checked.
MoreSlotsMutant == sPorts[msg.port].n < Len(msg.sched)

MoreSlots == sPorts[msg.port].n < Shorter(Len(msg.sched), MaxSlots)

ParseSlot ==
  /\ main = "parse"
  /\ MoreSlots
  /\ LET i == sPorts[msg.port].n + 1 IN
       sPorts' = [sPorts EXCEPT ![msg.port].n = i,
                                ![msg.port].slots[i] = ParsedSlot(@, msg.sched[i])]
  /\ UNCHANGED <<rx, configBuf, configBit, main, msg, nvs, outbox, led2, failed, boots>>

Activate ==
  /\ main = "parse"
  /\ ~MoreSlots
  /\ sPorts' = [sPorts EXCEPT ![msg.port].active = TRUE, ![msg.port].last = Never]
  /\ main' = "ack"
  /\ UNCHANGED <<rx, configBuf, configBit, msg, nvs, outbox, led2, failed, boots>>

\* Mutant: the ack names what the buffer holds by now.
AckAppliedMutant ==
  /\ main = "ack"
  /\ Publish(configBuf.port, configBuf.id, "applied")
  /\ led2' = "GREEN_STEADY"
  /\ main' = "wait"
  /\ msg' = Blank
  /\ UNCHANGED <<rx, configBuf, configBit, sPorts, nvs, failed, boots>>

AckApplied ==
  /\ main = "ack"
  /\ Publish(msg.port, msg.id, "applied")
  /\ led2' = "GREEN_STEADY"
  /\ main' = "wait"
  /\ msg' = Blank
  /\ UNCHANGED <<rx, configBuf, configBit, sPorts, nvs, failed, boots>>

Handle ==
  \/ Wake \/ MissingId \/ ReadId \/ MissingPort \/ ReadPort
  \/ ReadThreshold \/ ReadDuration \/ ReadSchedule
  \/ InvalidValues \/ FlashDone
  \/ AlreadyApplied \/ StartSave
  \/ SetId \/ SetSched \/ SetThr \/ SetDur \/ SaveFails
  \/ ApplyThreshold \/ ApplyDuration \/ ParseSlot \/ Activate \/ AckApplied

ConfigStep ==
  \/ \E m \in Messages : DataBegin(m) \/ DataTooLong(m)
  \/ DataEnd
  \/ AckSent
  \/ Handle

ConfigNext == ConfigStep \/ ConfigReboot

ConfigSpec == ConfigInit /\ [][ConfigNext]_configVars

----------------------------------------------------------------------------
MainStates ==
  {"wait", "readId", "readPort", "readThr", "readDur", "readSched", "check", "flash",
   "nvsId", "nvsSched", "nvsThr", "nvsDur", "apply", "duration", "parse", "ack"}
LedStates == {"GREEN_STEADY", "BLUE_BLINKING", "WHITE_STEADY", "CYAN_BLINKING"}
PortEntry == [id : Ids \cup {NoId}, thr : Int, dur : Nat, n : 0..MaxSlots,
              slots : [1..MaxSlots -> Slot], active : BOOLEAN, last : Int]
Fields == [id : Ids \cup {NoId}, port : Int, thr : Int, dur : Nat, sched : Seq(RawSlot)]
Ack == [port : Int, id : Ids \cup {NoId}, status : {"applied", "rejected"}]

\* Past the validation, i.e. where the handler uses msg.port as an index.
Indexing == {"nvsId", "nvsSched", "nvsThr", "nvsDur", "apply", "duration", "parse", "ack"}

\* Every variable of the handler keeps its type.  Where the handler indexes
\* s_ports or writes NVS its local names a port (mqtt_manager.c:754, :763), and
\* between two copies the buffer holds one whole message (:379-381).
ConfigTypeOK ==
  /\ rx \in Messages \cup {None}
  /\ configBuf \in {TextOf(m) : m \in Messages} \cup {Empty}
  /\ configBit \in BOOLEAN
  /\ main \in MainStates
  /\ msg \in Fields
  /\ main \in Indexing => msg.port \in Ports
  /\ sPorts \in [Ports -> PortEntry]
  /\ nvs \in [Ports -> NvsEntry]
  /\ outbox \in Seq(Ack) /\ Len(outbox) <= MaxOutbox
  /\ led2 \in LedStates
  /\ failed \subseteq Ports
  /\ boots \in 0..MaxBoots

\* Two configs water alike: same id, trigger and slots.  A slot whose time
\* could not be read is compared by its duration only.
SameAsSaved(pc, e) ==
  LET r == Restored(e) IN
    /\ pc.active = r.active /\ pc.id = r.id /\ pc.thr = r.thr /\ pc.dur = r.dur
    /\ pc.n = r.n
    /\ \A i \in 1..r.n : /\ pc.slots[i].dur = r.slots[i].dur
                         /\ e.sched[i].at # NoTime => pc.slots[i].at = r.slots[i].at

Rewriting == {"nvsSched", "nvsThr", "nvsDur", "apply", "duration", "parse"}

\* What runs is what was saved: outside the handler's save-and-apply section
\* every port has the id, the trigger and the slots its NVS keys hold, unless
\* its last save failed (mqtt_manager.c:773-780, :992-1007).  The time of a
\* slot whose saved time is unreadable is left out: see RestartRestores.
RamMatchesNvs ==
  \A p \in Ports :
    \/ p \in failed
    \/ main \in Rewriting /\ p = msg.port
    \/ SameAsSaved(sPorts[p], nvs[p])

\* The part of a port's entry that decides when it waters.
Waters(pc) == <<pc.active, pc.id, pc.thr, pc.dur, [i \in 1..pc.n |-> pc.slots[i]]>>

\* A restart brings back exactly what runs ("restores any saved port configs
\* from NVS", mqtt_manager.c:946-947; nvs_manager.c:139-141): the slots too, with
\* their times.
RestartRestores ==
  \A p \in Ports :
    \/ p \in failed
    \/ main \in Rewriting /\ p = msg.port
    \/ Waters(sPorts[p]) = Waters(Restored(nvs[p]))

\* What makes RamMatchesNvs inductive: how far the save and the update of
\* s_ports have come at each point of the handler.
SaveProgress ==
  LET e == nvs[msg.port] IN
    /\ main \in {"nvsSched", "nvsThr", "nvsDur"} => e.id = msg.id
    /\ main \in {"nvsThr", "nvsDur"} => e.sched = msg.sched
    /\ main = "nvsDur" => e.thr = msg.thr
    /\ (main \in {"apply", "duration", "parse"} /\ msg.port \notin failed)
         => e.id = msg.id /\ e.sched = msg.sched /\ e.thr = msg.thr /\ e.dur = msg.dur

UpdateProgress ==
  LET pc == sPorts[msg.port] IN
    /\ main \in {"duration", "parse"} => pc.id = msg.id /\ pc.thr = msg.thr
    /\ main = "parse" =>
         /\ pc.dur = msg.dur
         /\ pc.n <= Shorter(Len(msg.sched), MaxSlots)
         /\ \A i \in 1..pc.n :
              /\ pc.slots[i].dur = msg.sched[i].dur
              /\ msg.sched[i].at # NoTime => pc.slots[i].at = msg.sched[i].at

RamInv == ConfigTypeOK /\ RamMatchesNvs /\ SaveProgress /\ UpdateProgress

\* What NoRewrite and AppliedMeansRunning rest on: a port gets a new id while
\* it is saved, carries it once it is applied, and a port with an id is
\* active unless the handler is just parsing its schedule.
AckInv ==
  /\ main \in {"nvsId", "nvsSched", "nvsThr", "nvsDur"} => sPorts[msg.port].id # msg.id
  /\ main \in {"duration", "parse", "ack"} => sPorts[msg.port].id = msg.id
  /\ \A p \in Ports :
       sPorts[p].id # NoId =>
         sPorts[p].active \/ (main \in {"duration", "parse"} /\ p = msg.port)

\* Idempotency: a redelivered or retained message with the id a port
\* already runs never writes the flash again (mqtt_manager.c:723-725).
NoRewrite ==
  [][\A p \in Ports : nvs'[p] # nvs[p] => p = msg.port /\ msg.id # sPorts[p].id]_configVars

\* An "applied" ack is only ever published for the id the port it names has at
\* that moment, in an entry that is active and no longer being parsed
\* (mqtt_manager.c:766-770, :789).  Only the empty id, which a port without
\* config has too, is acknowledged for an entry that may be inactive.
AppliedMeansRunning ==
  [][Len(outbox') > Len(outbox) =>
       LET a == outbox'[Len(outbox')] IN
         a.status = "applied" => /\ a.port \in Ports
                                 /\ sPorts[a.port].id = a.id
                                 /\ a.id # NoId => sPorts[a.port].active
                                 /\ sPorts' = sPorts]_configVars

\* The handler waits, and nothing is on its way to it.
Settled == main = "wait" /\ ~configBit /\ rx = None

BodyOf(pc) == <<pc.thr, pc.dur, pc.n>>

\* A config id names one config: an active port that runs the id of a pushed
\* message runs that message's trigger and slots ("Persist a complete
\* per-port watering config", nvs_manager.c:139).
IdNamesBody ==
  \A p \in Ports, m \in Messages :
    (Settled /\ sPorts[p].active /\ sPorts[p].id = m.id)
      => BodyOf(sPorts[p]) = <<m.thr, m.dur, Shorter(Len(Kept(m.sched)), MaxSlots)>>

----------------------------------------------------------------------------
(* What the rest of the system relies on: only the config ids.               *)

HeadsOf(ms) == {[id |-> m.id, port |-> m.port, fits |-> m.fits] : m \in ms}

ASSUME HeadsOfAssumption == None \notin HeadsOf(Messages)

Phase ==
  CASE main = "wait" -> "idle"
    [] main = "readId" -> "woken"
    [] main = "readPort" -> "named"
    [] main = "readThr" -> "taken"
    [] main \in {"readDur", "readSched", "check"} ->
         IF msg.thr \in 0..100 THEN "taken" ELSE "bad"
    [] main = "flash" -> "flash"
    [] main \in {"nvsId", "nvsSched", "nvsThr", "nvsDur", "apply"} -> "accepted"
    [] main \in {"duration", "parse", "ack"} -> "applied"

Device == INSTANCE ConfigDevice WITH
  Heads <- HeadsOf(Messages),
  Mixed <- {[id |-> b.id, port |-> b.port] : b \in Garbled},
  BadValues <- (\E m \in Messages : m.thr \notin 0..100),
  AtPowerOn <- [p \in Ports |-> Restored(Saved[p]).id],
  copying <- IF rx = None THEN None ELSE [id |-> rx.id, port |-> rx.port, fits |-> rx.fits],
  head <- [id |-> configBuf.id, port |-> configBuf.port],
  bit <- configBit,
  phase <- Phase,
  job <- [id |-> msg.id, port |-> msg.port],
  running <- [p \in Ports |-> sPorts[p].id],
  saved <- [p \in Ports |-> Restored(nvs[p]).id]

\* The handler implements the abstract device: torn saves, half written
\* entries of s_ports and mixed bodies never show another config id than the
\* abstract one, and its id and port come from the buffer in the same two
\* reads (mqtt_manager.c:730-791).
ImplementsDevice == Device!DeviceSpec
=============================================================================
