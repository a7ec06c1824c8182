------------------------ MODULE PortConfigRefinement ------------------------
(***************************************************************************)
(* PortConfig implements ConfigDevice: every step of the handler, and every *)
(* write of the four NVS keys, is a step of the abstract device or none.    *)
(***************************************************************************)
EXTENDS PortConfigProofs

Bad == \E m \in Messages : m.thr \notin 0..100

\* What the rest of the system sees of the state.
Copying == IF rx = None THEN None ELSE [id |-> rx.id, port |-> rx.port, fits |-> rx.fits]
HeadIn(r) == [id |-> r.id, port |-> r.port]
Running == [p \in Ports |-> sPorts[p].id]
SavedIds == [p \in Ports |-> Restored(nvs[p]).id]

\* A threshold outside the range comes in a message or is read during a copy.
LEMMA BadThreshold ==
  ASSUME ConfigTypeOK, rx = None, NEW b \in Visible, b.thr \notin 0..100
  PROVE  Bad
<1>1. b = configBuf
  BY DEF Visible
<1>2. configBuf # Empty
  BY <1>1 DEF Empty
<1>3. PICK m \in Messages : configBuf = TextOf(m)
  BY <1>2 DEF ConfigTypeOK
<1>4. m.thr = b.thr
  BY <1>1, <1>3 DEF TextOf
<1> QED
  BY <1>4 DEF Bad

\* A copy goes on for the abstract device too.
LEMMA CopyingSeen ==
  ASSUME ConfigTypeOK
  PROVE  (rx = None) <=> (Copying = None)
<1>1. CASE rx = None
  BY <1>1 DEF Copying
<1>2. CASE rx # None
  <2>1. rx \in Messages
    BY <1>2 DEF ConfigTypeOK
  <2>2. [id |-> rx.id, port |-> rx.port, fits |-> rx.fits] \in HeadsOf(Messages)
    BY <2>1 DEF HeadsOf
  <2> QED
    BY <1>2, <2>2, HeadsOfAssumption DEF Copying
<1> QED
  BY <1>1, <1>2

\* What a read may find, the abstract device may find.
LEMMA VisibleMaps ==
  ASSUME ConfigTypeOK, NEW b \in Visible
  PROVE  \E h \in Device!Visible : h.id = b.id /\ h.port = b.port
<1> DEFINE h == [id |-> b.id, port |-> b.port]
<1>1. h.id = b.id /\ h.port = b.port
  OBVIOUS
<1>2. CASE rx = None
  <2>1. b = configBuf
    BY <1>2 DEF Visible
  <2> QED
    BY <1>1, <1>2, <2>1 DEF Device!Visible
<1>3. CASE rx # None
  <2>1. b = configBuf \/ b = TextOf(rx) \/ b \in Garbled
    BY <1>3 DEF Visible
  <2>2. [id |-> rx.id, port |-> rx.port, fits |-> rx.fits] # None
    BY <1>3, CopyingSeen DEF Copying
  <2>3. CASE b = configBuf
    BY <1>1, <1>3, <2>2, <2>3 DEF Device!Visible
  <2>4. CASE b = TextOf(rx)
    BY <1>1, <1>3, <2>2, <2>4 DEF Device!Visible, Device!HeadOf, TextOf
  <2>5. CASE b \in Garbled
    BY <1>1, <1>3, <2>2, <2>5 DEF Device!Visible
  <2> QED
    BY <2>1, <2>3, <2>4, <2>5
<1> QED
  BY <1>2, <1>3

\* A step that nobody sees.
LEMMA Unseen ==
  ASSUME UNCHANGED <<Copying, HeadIn(configBuf), configBit, Phase, HeadIn(msg), Running, SavedIds,
                     outbox, boots>>
  PROVE  UNCHANGED Device!deviceVars
BY DEF Device!deviceVars, Copying, HeadIn, Running, SavedIds

\* A message begins to be copied.
LEMMA DataBeginMaps ==
  ASSUME ConfigTypeOK, NEW m \in Messages, DataBegin(m)
  PROVE  Device!DeviceNext
<1> DEFINE h == [id |-> m.id, port |-> m.port, fits |-> m.fits]
<1>1. h \in HeadsOf(Messages) /\ h.fits /\ Device!HeadOf(h) = [id |-> m.id, port |-> m.port]
  BY DEF HeadsOf, Device!HeadOf, DataBegin
<1>2. m # None /\ rx = None /\ rx' = m
  BY MessagesAssumption DEF DataBegin
<1>3. Device!CopyBegin(h)
  BY <1>1, <1>2 DEF Device!CopyBegin, DataBegin, Phase
<1> QED
  BY <1>1, <1>3 DEF Device!DeviceNext

\* The rest of it: the buffer then holds the whole message.
LEMMA DataEndMaps ==
  ASSUME ConfigTypeOK, DataEnd
  PROVE  Device!DeviceNext
<1>1. rx # None /\ [id |-> rx.id, port |-> rx.port, fits |-> rx.fits] # None
  BY CopyingSeen DEF DataEnd, Copying
<1>2. configBuf'.id = rx.id /\ configBuf'.port = rx.port
  BY DEF DataEnd, TextOf
<1>3. Device!CopyEnd
  BY <1>1, <1>2 DEF Device!CopyEnd, Device!HeadOf, DataEnd, Phase
<1> QED
  BY <1>3 DEF Device!DeviceNext

\* A message that does not fit.
LEMMA DataTooLongMaps ==
  ASSUME NEW m \in Messages, DataTooLong(m)
  PROVE  Device!DeviceNext
<1> DEFINE h == [id |-> m.id, port |-> m.port, fits |-> m.fits]
<1>1. h \in HeadsOf(Messages) /\ ~h.fits
  BY DEF HeadsOf, DataTooLong
<1>2. Device!CopyNothing(h)
  BY <1>1 DEF Device!CopyNothing, DataTooLong, Phase
<1> QED
  BY <1>1, <1>2 DEF Device!DeviceNext

\* An ack that leaves, and a power cycle.
LEMMA OthersMap ==
  ASSUME AckSent \/ ConfigReboot
  PROVE  Device!DeviceNext
<1>1. CASE AckSent
  <2>1. Device!SendAck
    BY <1>1 DEF Device!SendAck, AckSent, Phase
  <2> QED
    BY <2>1 DEF Device!DeviceNext
<1>2. CASE ConfigReboot
  <2>1. [p \in Ports |-> sPorts[p].id]' = [p \in Ports |-> Restored(nvs[p]).id]
    BY <1>2 DEF ConfigReboot
  <2>2. Device!Restart
    BY <1>2, <2>1
       DEF Device!Restart, ConfigReboot, Blank, Empty, Device!NoHead, Device!NoJob, Phase
  <2> QED
    BY <2>2 DEF Device!DeviceNext
<1> QED
  BY <1>1, <1>2

\* The handler up to the id and the port: two reads, as the abstract device
\* makes them.
LEMMA ReadMaps ==
  ASSUME ConfigTypeOK, Wake \/ MissingId \/ ReadId \/ MissingPort \/ ReadPort
  PROVE  Device!DeviceNext
<1>0. msg \in Fields /\ Visible \subseteq Text
  BY VisibleType DEF ConfigTypeOK
<1>1. CASE Wake
  <2>1. Device!WakeUp
    BY <1>1 DEF Device!WakeUp, Wake, Phase
  <2> QED
    BY <2>1 DEF Device!DeviceNext, Device!MainStep
<1>2. CASE MissingId
  <2>1. \E h \in Device!Visible : h.id = None
    BY <1>2, VisibleMaps DEF MissingId
  <2>2. Device!RejectId
    BY <1>2, <2>1 DEF Device!RejectId, Device!PublishAck, MissingId, Publish, Phase
  <2> QED
    BY <2>2 DEF Device!DeviceNext, Device!MainStep
<1>3. CASE ReadId
  <2>1. PICK b \in Visible : b.id # None /\ Read("readId", "readPort", [msg EXCEPT !.id = b.id])
    BY <1>3 DEF ReadId
  <2>2. PICK h \in Device!Visible : h.id = b.id
    BY VisibleMaps
  <2>3. msg'.id = b.id /\ msg'.port = msg.port
    BY <1>0, <2>1 DEF Read, Fields
  <2>4. Device!TakeId
    BY <2>1, <2>2, <2>3 DEF Device!TakeId, Read, Phase
  <2> QED
    BY <2>4 DEF Device!DeviceNext, Device!MainStep
<1>4. CASE MissingPort
  <2>1. \E h \in Device!Visible : h.port = None
    BY <1>4, VisibleMaps DEF MissingPort
  <2>2. Device!RejectPort
    BY <1>4, <2>1 DEF Device!RejectPort, Device!PublishAck, MissingPort, Publish, Phase
  <2> QED
    BY <2>2 DEF Device!DeviceNext, Device!MainStep
<1>5. CASE ReadPort
  <2>1. PICK b \in Visible :
          b.port # None /\ Read("readPort", "readThr", [msg EXCEPT !.port = b.port])
    BY <1>5 DEF ReadPort
  <2>2. PICK h \in Device!Visible : h.port = b.port
    BY VisibleMaps
  <2>3. msg'.id = msg.id /\ msg'.port = b.port
    BY <1>0, <2>1 DEF Read, Fields
  <2>4. Device!TakePort
    BY <2>1, <2>2, <2>3 DEF Device!TakePort, Read, Phase
  <2> QED
    BY <2>4 DEF Device!DeviceNext, Device!MainStep
<1> QED
  BY <1>1, <1>2, <1>3, <1>4, <1>5

\* The reads of the rest: the abstract device sees whether the threshold fits.
LEMMA ReadBodyMaps ==
  ASSUME ConfigTypeOK, ReadThreshold \/ ReadDuration \/ ReadSchedule
  PROVE  Device!DeviceNext \/ UNCHANGED Device!deviceVars
<1>0. msg \in Fields
  BY DEF ConfigTypeOK
<1>1. CASE ReadThreshold
  <2>1. PICK b \in Visible : Read("readThr", "readDur", [msg EXCEPT !.thr = b.thr])
    BY <1>1 DEF ReadThreshold
  <2>2. msg'.id = msg.id /\ msg'.port = msg.port /\ msg'.thr = b.thr
    BY <1>0, <2>1 DEF Read, Fields
  <2>3. /\ UNCHANGED <<rx, configBuf, configBit, sPorts, nvs, outbox, boots>>
        /\ Phase = "taken"
        /\ Phase' = IF b.thr \in 0..100 THEN "taken" ELSE "bad"
    BY <2>1, <2>2 DEF Read, Phase
  <2>4. CASE b.thr \in 0..100
    <3>1. UNCHANGED <<Copying, HeadIn(configBuf), HeadIn(msg), Running, SavedIds>>
      BY <2>2, <2>3 DEF Copying, HeadIn, Running, SavedIds
    <3> QED
      BY <2>3, <2>4, <3>1, Unseen
  <2>5. CASE b.thr \notin 0..100
    <3>1. Bad \/ rx # None
      BY <2>5, BadThreshold
    <3>2. rx # None => [id |-> rx.id, port |-> rx.port, fits |-> rx.fits] # None
      BY CopyingSeen DEF Copying
    <3>3. Device!TakeBadValue
      BY <2>2, <2>3, <2>5, <3>1, <3>2 DEF Device!TakeBadValue, Bad
    <3> QED
      BY <3>3 DEF Device!DeviceNext, Device!MainStep
  <2> QED
    BY <2>4, <2>5
<1>2. CASE ReadDuration \/ ReadSchedule
  <2>1. /\ msg'.id = msg.id /\ msg'.port = msg.port /\ msg'.thr = msg.thr
        /\ UNCHANGED <<rx, configBuf, configBit, sPorts, nvs, outbox, boots>>
        /\ main \in {"readDur", "readSched"} /\ main' \in {"readSched", "check"}
    BY <1>0, <1>2 DEF ReadDuration, ReadSchedule, Read, Fields
  <2>2. Phase' = Phase
    BY <2>1 DEF Phase
  <2>3. UNCHANGED <<Copying, HeadIn(configBuf), HeadIn(msg), Running, SavedIds>>
    BY <2>1 DEF Copying, HeadIn, Running, SavedIds
  <2> QED
    BY <2>1, <2>2, <2>3, Unseen
<1> QED
  BY <1>1, <1>2

\* A rejection, and the way back.
LEMMA RejectMaps ==
  ASSUME InvalidValues \/ FlashDone
  PROVE  Device!DeviceNext
<1>1. CASE InvalidValues
  <2>1. Phase = "bad" \/ (Phase = "taken" /\ msg.port \notin Ports)
    BY <1>1 DEF InvalidValues, ValidValues, Phase
  <2>2. Device!RejectValues
    BY <1>1, <2>1 DEF Device!RejectValues, Device!PublishAck, InvalidValues, Publish, Phase
  <2> QED
    BY <2>2 DEF Device!DeviceNext, Device!MainStep
<1>2. CASE FlashDone
  <2>1. Device!BackToIdle
    BY <1>2 DEF Device!BackToIdle, Device!NoJob, FlashDone, Blank, Phase
  <2> QED
    BY <2>1 DEF Device!DeviceNext, Device!MainStep
<1> QED
  BY <1>1, <1>2

\* Whether the port runs the config already.
LEMMA DecideMaps ==
  ASSUME AlreadyApplied \/ StartSave
  PROVE  Device!DeviceNext
<1>1. CASE AlreadyApplied
  <2>1. Device!RunsAlready
    BY <1>1 DEF Device!RunsAlready, AlreadyApplied, ValidValues, SameConfig, Phase
  <2> QED
    BY <2>1 DEF Device!DeviceNext, Device!MainStep
<1>2. CASE StartSave
  <2>1. Device!Accept
    BY <1>2 DEF Device!Accept, StartSave, ValidValues, SameConfig, Phase
  <2> QED
    BY <2>1 DEF Device!DeviceNext, Device!MainStep
<1> QED
  BY <1>1, <1>2

\* One key is written: a restart would now bring back the new config, or what
\* it would have brought back before.
LEMMA KeyMaps ==
  ASSUME ConfigTypeOK, NEW entry \in NvsEntry,
         NEW here \in {"nvsId", "nvsSched", "nvsThr", "nvsDur"},
         NEW next \in {"nvsSched", "nvsThr", "nvsDur", "apply"},
         NvsSet(here, next, entry), entry.id = msg.id,
         LET e == nvs[msg.port] IN
           None \in {entry.sched, entry.thr, entry.dur} => None \in {e.sched, e.thr, e.dur}
  PROVE  Device!DeviceNext \/ UNCHANGED Device!deviceVars
<1> DEFINE e == nvs[msg.port]
<1>1. msg.port \in Ports /\ msg.id \in Ids \cup {NoId} /\ main = here /\ e \in NvsEntry
  BY DEF NvsSet, ConfigTypeOK, Indexing, Fields
<1>2. nvs' = [nvs EXCEPT ![msg.port] = entry] /\ nvs \in [Ports -> NvsEntry] /\ main' = next
  BY DEF NvsSet, ConfigTypeOK
<1>3. Phase = "accepted" /\ Phase' = "accepted"
  BY <1>1, <1>2 DEF Phase
<1>4. UNCHANGED <<rx, configBuf, configBit, msg, sPorts, outbox, boots>>
  BY DEF NvsSet
<1>5. SavedIds' = [SavedIds EXCEPT ![msg.port] = Restored(entry).id]
  BY <1>1, <1>2 DEF SavedIds
<1>6. CASE None \in {entry.sched, entry.thr, entry.dur}
  <2>1. Restored(entry).id = NoId /\ Restored(e).id = NoId
    BY <1>6 DEF Restored, ZeroPort
  <2>2. SavedIds' = SavedIds
    BY <1>1, <1>5, <2>1 DEF SavedIds
  <2>3. UNCHANGED <<Copying, HeadIn(configBuf), HeadIn(msg), Running>>
    BY <1>4 DEF Copying, HeadIn, Running
  <2> QED
    BY <1>3, <1>4, <2>2, <2>3, Unseen
<1>7. CASE None \notin {entry.sched, entry.thr, entry.dur}
  <2>1. Restored(entry).id = msg.id
    BY <1>1, <1>7, NoneAssumption DEF Restored
  <2>2. Device!Save
    BY <1>3, <1>4, <1>5, <2>1 DEF Device!Save, SavedIds
  <2> QED
    BY <2>2 DEF Device!DeviceNext, Device!MainStep
<1> QED
  BY <1>6, <1>7

\* The save, or what is left out of it when it fails.
LEMMA SaveMaps ==
  ASSUME ConfigTypeOK, SaveProgress, SetId \/ SetSched \/ SetThr \/ SetDur \/ SaveFails
  PROVE  Device!DeviceNext \/ UNCHANGED Device!deviceVars
<1> DEFINE e == nvs[msg.port]
<1>1. msg.port \in Ports /\ msg.id \in Ids \cup {NoId} /\ e \in NvsEntry
  BY DEF ConfigTypeOK, SetId, SetSched, SetThr, SetDur, SaveFails, NvsSet, Indexing, Fields
<1>2. msg.sched \in Seq(RawSlot) /\ msg.thr \in Int /\ msg.dur \in Nat
      /\ msg.sched # None /\ msg.thr # None /\ msg.dur # None
  BY NoneAssumption DEF ConfigTypeOK, Fields
<1>3. CASE SetId
  <2> DEFINE entry == [e EXCEPT !.id = msg.id]
  <2>1. entry \in NvsEntry /\ entry.id = msg.id
        /\ entry.sched = e.sched /\ entry.thr = e.thr /\ entry.dur = e.dur
    BY <1>1 DEF NvsEntry
  <2> HIDE DEF entry
  <2> QED
    BY <1>1, <1>3, <2>1, KeyMaps DEF SetId, entry
<1>4. CASE SetSched
  <2> DEFINE entry == [e EXCEPT !.sched = msg.sched]
  <2>1. e.id = msg.id
    BY <1>4 DEF SetSched, NvsSet, SaveProgress
  <2>2. entry \in NvsEntry /\ entry.id = msg.id
        /\ entry.sched = msg.sched /\ entry.thr = e.thr /\ entry.dur = e.dur
    BY <1>1, <1>2, <2>1 DEF NvsEntry
  <2> HIDE DEF entry
  <2> QED
    BY <1>1, <1>2, <1>4, <2>2, KeyMaps DEF SetSched, entry
<1>5. CASE SetThr
  <2> DEFINE entry == [e EXCEPT !.thr = msg.thr]
  <2>1. e.id = msg.id
    BY <1>5 DEF SetThr, NvsSet, SaveProgress
  <2>2. entry \in NvsEntry /\ entry.id = msg.id
        /\ entry.sched = e.sched /\ entry.thr = msg.thr /\ entry.dur = e.dur
    BY <1>1, <1>2, <2>1 DEF NvsEntry
  <2> HIDE DEF entry
  <2> QED
    BY <1>1, <1>2, <1>5, <2>2, KeyMaps DEF SetThr, entry
<1>6. CASE SetDur
  <2> DEFINE entry == [e EXCEPT !.dur = msg.dur]
  <2>1. e.id = msg.id
    BY <1>6 DEF SetDur, NvsSet, SaveProgress
  <2>2. entry \in NvsEntry /\ entry.id = msg.id
        /\ entry.sched = e.sched /\ entry.thr = e.thr /\ entry.dur = msg.dur
    BY <1>1, <1>2, <2>1 DEF NvsEntry
  <2> HIDE DEF entry
  <2> QED
    BY <1>1, <1>2, <1>6, <2>2, KeyMaps DEF SetDur, entry
<1>7. CASE SaveFails
  <2>1. UNCHANGED <<Copying, HeadIn(configBuf), HeadIn(msg), Running, SavedIds>>
    BY <1>7 DEF SaveFails, Copying, HeadIn, Running, SavedIds
  <2>2. UNCHANGED <<configBit, Phase, outbox, boots>>
    BY <1>7 DEF SaveFails, Phase
  <2> QED
    BY <2>1, <2>2, Unseen
<1> QED
  BY <1>3, <1>4, <1>5, <1>6, <1>7

\* The new config reaches s_ports and is acknowledged: its id is written first.
LEMMA ApplyMaps ==
  ASSUME ConfigTypeOK,
         ApplyThreshold \/ ApplyDuration \/ ParseSlot \/ Activate \/ AckApplied
  PROVE  Device!DeviceNext \/ UNCHANGED Device!deviceVars
<1>1. msg.port \in Ports /\ sPorts \in [Ports -> PortEntry]
  BY DEF ConfigTypeOK, ApplyThreshold, ApplyDuration, ParseSlot, Activate, AckApplied, Indexing
<1>2. CASE ApplyThreshold
  <2>1. Running' = [Running EXCEPT ![msg.port] = msg.id]
    BY <1>1, <1>2 DEF ApplyThreshold, Running, PortEntry
  <2>2. Device!Apply
    BY <1>2, <2>1 DEF Device!Apply, ApplyThreshold, Running, Phase
  <2> QED
    BY <2>2 DEF Device!DeviceNext, Device!MainStep
<1>3. CASE ApplyDuration \/ ParseSlot \/ Activate
  <2>1. \A p \in Ports : sPorts'[p].id = sPorts[p].id
    <3>1. CASE ApplyDuration
      BY <1>1, <3>1 DEF ApplyDuration, PortEntry
    <3>2. CASE ParseSlot
      BY <1>1, <3>2 DEF ParseSlot, PortEntry
    <3>3. CASE Activate
      BY <1>1, <3>3 DEF Activate, PortEntry
    <3> QED
      BY <1>3, <3>1, <3>2, <3>3
  <2>r. Running' = Running
    BY <2>1 DEF Running
  <2>2. UNCHANGED <<Copying, HeadIn(configBuf), HeadIn(msg), SavedIds>>
    BY <1>3 DEF ApplyDuration, ParseSlot, Activate, Copying, HeadIn, SavedIds
  <2>3. UNCHANGED <<configBit, Phase, outbox, boots>>
    BY <1>3 DEF ApplyDuration, ParseSlot, Activate, Phase
  <2> QED
    BY <2>r, <2>2, <2>3, Unseen
<1>4. CASE AckApplied
  <2>1. Device!Acknowledge
    BY <1>4 DEF Device!Acknowledge, Device!PublishAck, Device!NoJob, AckApplied, Publish, Blank,
                Phase
  <2> QED
    BY <2>1 DEF Device!DeviceNext, Device!MainStep
<1> QED
  BY <1>2, <1>3, <1>4
----------------------------------------------------------------------------
(* The refinement.                                                           *)

\* Every step of the handler is a step of the abstract device, or one that it
\* does not see.
LEMMA StepMaps ==
  ASSUME ConfigTypeOK, SaveProgress, ConfigNext
  PROVE  Device!DeviceNext \/ UNCHANGED Device!deviceVars
BY DataBeginMaps, DataEndMaps, DataTooLongMaps, OthersMap, ReadMaps, ReadBodyMaps, RejectMaps,
   DecideMaps, SaveMaps, ApplyMaps
   DEF ConfigNext, ConfigStep, Handle

\* The handler implements the abstract device, for any messages in any order,
\* any mixture of them in the buffer, saves that fail half way and power cycles
\* at any point: whatever is proved of ConfigDevice behind the broker holds of
\* handle_config_message() (mqtt_manager.c:695-791).
THEOREM HandlerImplementsDevice == ConfigSpec => ImplementsDevice
<1>1. ConfigInit => Device!DeviceInit
  <2> SUFFICES ASSUME ConfigInit PROVE Device!DeviceInit
    OBVIOUS
  <2>1. [p \in Ports |-> sPorts[p].id] = [p \in Ports |-> Restored(Saved[p]).id]
    BY DEF ConfigInit
  <2> QED
    BY <2>1 DEF ConfigInit, Blank, Empty, Phase, Device!DeviceInit, Device!NoHead, Device!NoJob
<1>2. ConfigTypeOK /\ SaveProgress /\ [ConfigNext]_configVars =>
        [Device!DeviceNext]_(Device!deviceVars)
  <2>1. ASSUME UNCHANGED configVars PROVE UNCHANGED Device!deviceVars
    <3>1. UNCHANGED <<Copying, HeadIn(configBuf), HeadIn(msg), Running, SavedIds>>
      BY <2>1 DEF configVars, Copying, HeadIn, Running, SavedIds
    <3>2. UNCHANGED <<configBit, Phase, outbox, boots>>
      BY <2>1 DEF configVars, Phase
    <3> QED
      BY <3>1, <3>2, Unseen
  <2> QED
    BY <2>1, StepMaps
<1>3. RamInv => ConfigTypeOK /\ SaveProgress
  BY DEF RamInv
<1> QED
  BY <1>1, <1>2, <1>3, RamInvCorrect, PTL
     DEF ConfigSpec, ImplementsDevice, Device!DeviceSpec
=============================================================================
