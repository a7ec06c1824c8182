---------------------------- MODULE ConfigDevice ----------------------------
(***************************************************************************)
(* What the device promises about /config/push messages, without schedule,  *)
(* trigger values, the four NVS keys or LED 2: which config id runs on each  *)
(* port, which one a restart would bring back, and which acks are sent.      *)
(* PortConfig implements it; ConfigProtocol puts it behind the broker.       *)
(***************************************************************************)
EXTENDS Integers, Sequences

CONSTANTS
  Ports,      \* the pump ports
  Ids,        \* config ids
  NoId,       \* the empty id, also the one of a port without config
  None,       \* a missing field, or no message is being copied
  Heads,      \* [id, port, fits] of the messages that may arrive
  Mixed,      \* what else id and port may read as while the buffer is overwritten
  BadValues,  \* whether one of them may carry a threshold outside 0..100
  AtPowerOn,  \* the config ids in flash at the first power-on
  MaxOutbox,  \* bound: acks published and not yet sent
  MaxBoots    \* bound: power cycles

NoHead == [id |-> None, port |-> None]
NoJob == [id |-> NoId, port |-> 0]
BufferHead == [id : Ids \cup {NoId, None}, port : Int \cup {None}]

ASSUME DevicePortsAssumption == Ports \subseteq Nat
ASSUME HeadsAssumption ==
  /\ Heads \subseteq [id : Ids \cup {NoId, None}, port : Int \cup {None}, fits : BOOLEAN]
  /\ None \notin Heads
ASSUME MixedAssumption == Mixed \subseteq BufferHead
ASSUME DeviceIdsAssumption == NoId \notin Ids /\ None \notin Ids \cup {NoId} \cup Int
ASSUME BadValuesAssumption == BadValues \in BOOLEAN
ASSUME AtPowerOnAssumption == AtPowerOn \in [Ports -> Ids \cup {NoId}]
ASSUME DeviceBoundsAssumption == MaxOutbox \in Nat \ {0} /\ MaxBoots \in Nat

VARIABLES
  copying,  \* the message the MQTT task is copying, or None
  head,     \* config_id and port in s_config_buf
  bit,      \* EVT_CONFIG_RECEIVED
  phase,    \* how far the handler has come
  job,      \* the handler's config_id and port
  running,  \* the config id of each port
  saved,    \* the config id of each port after a restart
  outbox,   \* acks handed to the MQTT client
  boots     \* power cycles so far

deviceVars == <<copying, head, bit, phase, job, running, saved, outbox, boots>>

HeadOf(m) == [id |-> m.id, port |-> m.port]

DeviceInit ==
  /\ copying = None /\ head = NoHead /\ bit = FALSE
  /\ phase = "idle" /\ job = NoJob
  /\ running = AtPowerOn /\ saved = AtPowerOn
  /\ outbox = <<>> /\ boots = 0

\* Power loss: only the flash remains.
Restart ==
  /\ boots < MaxBoots
  /\ boots' = boots + 1
  /\ copying' = None /\ head' = NoHead /\ bit' = FALSE
  /\ phase' = "idle" /\ job' = NoJob
  /\ running' = saved
  /\ outbox' = <<>>
  /\ UNCHANGED saved

----------------------------------------------------------------------------
(* The MQTT task.  While it copies, a field may read as the old one, the new *)
(* one or a mixture; afterwards the buffer holds the message.                *)

CopyBegin(m) ==
  /\ copying = None /\ m.fits
  /\ copying' = m
  /\ UNCHANGED <<head, bit, phase, job, running, saved, outbox, boots>>

CopyEnd ==
  /\ copying # None
  /\ copying' = None /\ head' = HeadOf(copying) /\ bit' = TRUE
  /\ UNCHANGED <<phase, job, running, saved, outbox, boots>>

\* A message longer than the buffer leaves the previous one in it.
CopyNothing(m) ==
  /\ copying = None /\ ~m.fits
  /\ bit' = TRUE
  /\ UNCHANGED <<copying, head, phase, job, running, saved, outbox, boots>>

SendAck ==
  /\ outbox # <<>>
  /\ outbox' = Tail(outbox)
  /\ UNCHANGED <<copying, head, bit, phase, job, running, saved, boots>>

----------------------------------------------------------------------------
(* The main task.                                                            *)

\* Mutant: a status the server does not know.
PublishAckMutant(port, id, status) ==
  /\ Len(outbox) < MaxOutbox
  /\ outbox' = Append(outbox, [port |-> port, id |-> id, status |-> "done"])

PublishAck(port, id, status) ==
  /\ Len(outbox) < MaxOutbox
  /\ outbox' = Append(outbox, [port |-> port, id |-> id, status |-> status])

WakeUp ==
  /\ phase = "idle" /\ bit
  /\ bit' = FALSE
  /\ phase' = "woken"
  /\ UNCHANGED <<copying, head, job, running, saved, outbox, boots>>

Visible == IF copying = None THEN {head} ELSE {head, HeadOf(copying)} \cup Mixed

RejectId ==
  /\ phase = "woken"
  /\ \E h \in Visible : h.id = None
  /\ PublishAck(1, NoId, "rejected")
  /\ phase' = "flash"
  /\ UNCHANGED <<copying, head, bit, job, running, saved, boots>>

TakeId ==
  /\ phase = "woken"
  /\ \E h \in Visible : h.id # None /\ job' = [job EXCEPT !.id = h.id]
  /\ phase' = "named"
  /\ UNCHANGED <<copying, head, bit, running, saved, outbox, boots>>

RejectPort ==
  /\ phase = "named"
  /\ \E h \in Visible : h.port = None
  /\ PublishAck(1, job.id, "rejected")
  /\ phase' = "flash"
  /\ UNCHANGED <<copying, head, bit, job, running, saved, boots>>

TakePort ==
  /\ phase = "named"
  /\ \E h \in Visible : h.port # None /\ job' = [job EXCEPT !.port = h.port]
  /\ phase' = "taken"
  /\ UNCHANGED <<copying, head, bit, running, saved, outbox, boots>>

\* A threshold outside 0..100, pushed or read during a copy.
TakeBadValue ==
  /\ phase = "taken"
  /\ BadValues \/ copying # None
  /\ phase' = "bad"
  /\ UNCHANGED <<copying, head, bit, job, running, saved, outbox, boots>>

RejectValues ==
  /\ phase = "bad" \/ (phase = "taken" /\ job.port \notin Ports)
  /\ PublishAck(job.port, job.id, "rejected")
  /\ phase' = "flash"
  /\ UNCHANGED <<copying, head, bit, job, running, saved, boots>>

BackToIdle ==
  /\ phase = "flash"
  /\ phase' = "idle" /\ job' = NoJob
  /\ UNCHANGED <<copying, head, bit, running, saved, outbox, boots>>

\* Mutant: a known config is ignored, not acknowledged again.
RunsAlreadyMutant ==
  /\ phase = "taken" /\ job.port \in Ports
  /\ running[job.port] = job.id
  /\ phase' = "idle" /\ job' = NoJob
  /\ UNCHANGED <<copying, head, bit, running, saved, outbox, boots>>

RunsAlready ==
  /\ phase = "taken" /\ job.port \in Ports
  /\ running[job.port] = job.id
  /\ phase' = "applied"
  /\ UNCHANGED <<copying, head, bit, job, running, saved, outbox, boots>>

Accept ==
  /\ phase = "taken" /\ job.port \in Ports
  /\ running[job.port] # job.id
  /\ phase' = "accepted"
  /\ UNCHANGED <<copying, head, bit, job, running, saved, outbox, boots>>

\* May be skipped: the handler ignores a failed save.
Save ==
  /\ phase = "accepted"
  /\ saved' = [saved EXCEPT ![job.port] = job.id]
  /\ UNCHANGED <<copying, head, bit, phase, job, running, outbox, boots>>

Apply ==
  /\ phase = "accepted"
  /\ running' = [running EXCEPT ![job.port] = job.id]
  /\ phase' = "applied"
  /\ UNCHANGED <<copying, head, bit, job, saved, outbox, boots>>

\* Mutant: acknowledges what is in the buffer by now.
AcknowledgeMutant ==
  /\ phase = "applied"
  /\ PublishAck(head.port, head.id, "applied")
  /\ phase' = "idle" /\ job' = NoJob
  /\ UNCHANGED <<copying, head, bit, running, saved, boots>>

Acknowledge ==
  /\ phase = "applied"
  /\ PublishAck(job.port, job.id, "applied")
  /\ phase' = "idle" /\ job' = NoJob
  /\ UNCHANGED <<copying, head, bit, running, saved, boots>>

MainStep ==
  \/ WakeUp \/ RejectId \/ TakeId \/ RejectPort \/ TakePort
  \/ TakeBadValue \/ RejectValues \/ BackToIdle
  \/ RunsAlready \/ Accept \/ Save \/ Apply \/ Acknowledge

DeviceNext ==
  \/ \E m \in Heads : CopyBegin(m) \/ CopyNothing(m)
  \/ CopyEnd
  \/ SendAck
  \/ MainStep
  \/ Restart

DeviceSpec == DeviceInit /\ [][DeviceNext]_deviceVars

Phases == {"idle", "woken", "named", "taken", "bad", "flash", "accepted", "applied"}
=============================================================================
