-------------------------- MODULE PortConfigProofs --------------------------
(***************************************************************************)
(* Theorems about PortConfig: the handler keeps its types, and a port runs  *)
(* what a reboot would bring back.                                          *)
(***************************************************************************)
EXTENDS PortConfig, SequenceTheorems, TLAPS

\* A parsed slot has a readable time.
LEMMA ParsedSlotType ==
  ASSUME NEW old \in Slot, NEW raw \in RawSlot
  PROVE  ParsedSlot(old, raw) \in Slot
BY DEF ParsedSlot, Slot, RawSlot

\* What parse_schedule() leaves in the slot array is an array of slots.
LEMMA ParsedSlotsType ==
  ASSUME NEW old \in [1..MaxSlots -> Slot], NEW sched \in Seq(RawSlot)
  PROVE  ParsedSlots(old, sched) \in [1..MaxSlots -> Slot]
<1> SUFFICES ASSUME NEW i \in 1..MaxSlots
             PROVE  ParsedSlots(old, sched)[i] \in Slot
  BY DEF ParsedSlots
<1>1. CASE i <= Len(sched)
  <2>1. sched[i] \in RawSlot
    BY <1>1, SizesAssumption
  <2> QED
    BY <1>1, <2>1, ParsedSlotType DEF ParsedSlots
<1>2. CASE ~(i <= Len(sched))
  BY <1>2 DEF ParsedSlots
<1> QED
  BY <1>1, <1>2

\* The smaller of two naturals is one, and at most either.
LEMMA ShorterBound ==
  ASSUME NEW a \in Nat, NEW b \in Nat
  PROVE  /\ Shorter(a, b) \in Nat
         /\ Shorter(a, b) <= a /\ Shorter(a, b) <= b
BY DEF Shorter

\* The cut schedule text still holds slots.
LEMMA KeptType ==
  ASSUME NEW sched \in Seq(RawSlot)
  PROVE  Kept(sched) \in Seq(RawSlot)
<1>1. Len(sched) \in Nat
  BY LenProperties
<1> DEFINE k == Shorter(Len(sched), RawSlots)
<1>2. k \in Nat /\ k <= Len(sched)
  BY <1>1, SizesAssumption, ShorterBound
<1>3. \A i \in 1..k : sched[i] \in RawSlot
  BY <1>1, <1>2
<1> QED
  BY <1>2, <1>3, SubSeqProperties DEF Kept

\* The boot code makes a well-formed entry of whatever the NVS keys hold.
LEMMA RestoredType ==
  ASSUME NEW e \in NvsEntry
  PROVE  Restored(e) \in PortEntry
<1>0. ZeroSlots \in [1..MaxSlots -> Slot]
  BY DEF ZeroSlots, Slot
<1>1. CASE None \in {e.id, e.sched, e.thr, e.dur}
  <2>1. ZeroPort \in PortEntry
    BY <1>0, SizesAssumption DEF ZeroPort, PortEntry
  <2> QED
    BY <1>1, <2>1 DEF Restored
<1>2. CASE None \notin {e.id, e.sched, e.thr, e.dur}
  <2>1. e.id \in Ids \cup {NoId} /\ e.sched \in Seq(RawSlot) /\ e.thr \in Int /\ e.dur \in Nat
    BY <1>2 DEF NvsEntry
  <2>2. Len(e.sched) \in Nat
    BY <2>1, LenProperties
  <2>3. Shorter(Len(e.sched), MaxSlots) \in 0..MaxSlots
    BY <2>2, SizesAssumption DEF Shorter
  <2>4. ParsedSlots(ZeroSlots, e.sched) \in [1..MaxSlots -> Slot]
    BY <2>1, <1>0, ParsedSlotsType
  <2> QED
    BY <1>2, <2>1, <2>3, <2>4 DEF Restored, PortEntry, Never
<1> QED
  BY <1>1, <1>2

----------------------------------------------------------------------------
\* The saved content loads into a well-typed state.
LEMMA ConfigInitType == ConfigInit => ConfigTypeOK
<1> SUFFICES ASSUME ConfigInit PROVE ConfigTypeOK
  OBVIOUS
<1>1. msg \in Fields
  BY EmptySeq DEF ConfigInit, Blank, Fields
<1>2. nvs \in [Ports -> NvsEntry]
  BY SavedAssumption DEF ConfigInit
<1>3. sPorts \in [Ports -> PortEntry]
  BY SavedAssumption, RestoredType DEF ConfigInit
<1>4. outbox \in Seq(Ack) /\ Len(outbox) <= MaxOutbox
  BY BoundsAssumption DEF ConfigInit
<1>5. boots \in 0..MaxBoots
  BY BoundsAssumption DEF ConfigInit
<1> QED
  BY <1>1, <1>2, <1>3, <1>4, <1>5
     DEF ConfigInit, ConfigTypeOK, MainStates, Indexing, LedStates

\* A power cycle reloads the NVS content.
LEMMA ConfigRebootType ==
  ASSUME ConfigTypeOK, ConfigReboot
  PROVE  ConfigTypeOK'
<1>1. msg' \in Fields
  BY EmptySeq DEF ConfigReboot, Blank, Fields
<1>2. nvs' \in [Ports -> NvsEntry]
  BY DEF ConfigReboot, ConfigTypeOK
<1>3. sPorts' \in [Ports -> PortEntry]
  BY RestoredType DEF ConfigReboot, ConfigTypeOK
<1>4. outbox' \in Seq(Ack) /\ Len(outbox') <= MaxOutbox
  BY BoundsAssumption DEF ConfigReboot
<1>5. boots' \in 0..MaxBoots
  BY BoundsAssumption DEF ConfigReboot, ConfigTypeOK
<1> QED
  BY <1>1, <1>2, <1>3, <1>4, <1>5
     DEF ConfigReboot, ConfigTypeOK, MainStates, Indexing, LedStates

\* Publishing an ack keeps the outbox within its bound.
LEMMA PublishType ==
  ASSUME ConfigTypeOK,
         NEW port \in Int, NEW id \in Ids \cup {NoId}, NEW status \in {"applied", "rejected"},
         Publish(port, id, status)
  PROVE  outbox' \in Seq(Ack) /\ Len(outbox') <= MaxOutbox
<1> DEFINE a == [port |-> port, id |-> id, status |-> status]
<1>1. a \in Ack
  BY DEF Ack
<1>2. outbox \in Seq(Ack) /\ Len(outbox) \in Nat
  BY LenProperties DEF ConfigTypeOK
<1> QED
  BY <1>1, <1>2, AppendProperties, BoundsAssumption DEF Publish

\* Rewriting one key of one port keeps the NVS content well typed.
LEMMA NvsSetType ==
  ASSUME ConfigTypeOK,
         NEW here \in Indexing, NEW next \in Indexing, NEW entry \in NvsEntry,
         NvsSet(here, next, entry), failed' \subseteq Ports
  PROVE  ConfigTypeOK'
<1>1. msg.port \in Ports
  BY DEF NvsSet, ConfigTypeOK
<1>2. nvs' \in [Ports -> NvsEntry]
  BY <1>1 DEF NvsSet, ConfigTypeOK
<1> QED
  BY <1>1, <1>2 DEF NvsSet, ConfigTypeOK, Indexing, MainStates

\* Changing fields of one port's entry keeps s_ports well typed.
LEMMA PortUpdateType ==
  ASSUME ConfigTypeOK, main \in Indexing, main' \in Indexing,
         NEW pc \in PortEntry,
         sPorts' = [sPorts EXCEPT ![msg.port] = pc],
         UNCHANGED <<rx, configBuf, configBit, msg, nvs, outbox, led2, failed, boots>>
  PROVE  ConfigTypeOK'
<1>1. sPorts' \in [Ports -> PortEntry]
  BY DEF ConfigTypeOK
<1> QED
  BY <1>1 DEF ConfigTypeOK, Indexing, MainStates

\* The fields the handler sets together keep an entry well typed
\* (handle_config_message()).
LEMMA EntryUpdateType ==
  ASSUME NEW pc \in PortEntry,
         NEW id \in Ids \cup {NoId}, NEW thr \in Int, NEW dur \in Nat, NEW n \in 0..MaxSlots
  PROVE  /\ [pc EXCEPT !.id = id, !.thr = thr] \in PortEntry
         /\ [pc EXCEPT !.dur = dur, !.n = n] \in PortEntry
<1>1. [pc EXCEPT !.id = id, !.thr = thr] \in PortEntry
  BY DEF PortEntry
<1>2. [pc EXCEPT !.dur = dur, !.n = n] \in PortEntry
  BY DEF PortEntry
<1> QED
  BY <1>1, <1>2

\* One slot of the array with the slot count, likewise (parse_schedule()).
LEMMA SlotUpdateType ==
  ASSUME NEW pc \in PortEntry,
         NEW n \in 0..MaxSlots, NEW i \in 1..MaxSlots, NEW slot \in Slot
  PROVE  [pc EXCEPT !.n = n, !.slots[i] = slot] \in PortEntry
<1>1. [pc.slots EXCEPT ![i] = slot] \in [1..MaxSlots -> Slot]
  BY DEF PortEntry
<1> QED
  BY <1>1 DEF PortEntry

\* The zeroed buffer and a message's text are texts.
LEMMA BufferType ==
  /\ Empty \in Text
  /\ \A m \in Messages : TextOf(m) \in Text
<1>1. Empty \in Text
  BY EmptySeq DEF Empty, Text
<1>2. ASSUME NEW m \in Messages PROVE TextOf(m) \in Text
  <2>1. m \in Payload
    BY MessagesAssumption
  <2> QED
    BY <2>1 DEF TextOf, Text, Payload
<1> QED
  BY <1>1, <1>2

\* Whatever a read finds in the buffer is one.
LEMMA VisibleType ==
  ASSUME ConfigTypeOK
  PROVE  Visible \subseteq Text
<1>1. configBuf \in Text
  BY BufferType DEF ConfigTypeOK
<1>2. rx # None => TextOf(rx) \in Text
  BY BufferType DEF ConfigTypeOK
<1> QED
  BY <1>1, <1>2, GarbledAssumption DEF Visible

\* A step of the reads before the validation.
LEMMA ReadType ==
  ASSUME ConfigTypeOK, NEW here, NEW next \in MainStates \ Indexing, NEW fields \in Fields,
         Read(here, next, fields)
  PROVE  ConfigTypeOK'
BY DEF Read, ConfigTypeOK

\* One field of the locals at a time.
LEMMA FieldsType ==
  ASSUME NEW l \in Fields
  PROVE  /\ \A id \in Ids \cup {NoId} : [l EXCEPT !.id = id] \in Fields
         /\ \A port \in Int : [l EXCEPT !.port = port] \in Fields
         /\ \A thr \in Int : [l EXCEPT !.thr = thr] \in Fields
         /\ \A dur \in Nat : [l EXCEPT !.dur = dur] \in Fields
         /\ \A sched \in Seq(RawSlot) : [l EXCEPT !.sched = sched] \in Fields
BY DEF Fields

\* Every step of the MQTT task and of the handler keeps the types.
LEMMA ConfigStepType ==
  ASSUME ConfigTypeOK, ConfigStep
  PROVE  ConfigTypeOK'
<1>1. ASSUME NEW m \in Messages, DataBegin(m) PROVE ConfigTypeOK'
  BY <1>1 DEF DataBegin, ConfigTypeOK
<1>2. ASSUME NEW m \in Messages, DataTooLong(m) PROVE ConfigTypeOK'
  BY <1>2 DEF DataTooLong, ConfigTypeOK
<1>3. CASE DataEnd
  <2>1. configBuf' \in {TextOf(m) : m \in Messages}
    BY <1>3 DEF DataEnd, ConfigTypeOK
  <2> QED
    BY <1>3, <2>1 DEF DataEnd, ConfigTypeOK
<1>4. CASE AckSent
  <2>1. outbox' \in Seq(Ack) /\ Len(outbox') <= MaxOutbox
    <3>1. outbox \in Seq(Ack) /\ outbox # <<>> /\ Len(outbox) \in Nat
      BY <1>4, LenProperties DEF AckSent, ConfigTypeOK
    <3>2. Len(outbox') = Len(outbox) - 1 /\ outbox' \in Seq(Ack)
      BY <1>4, <3>1, HeadTailProperties DEF AckSent
    <3> QED
      BY <3>1, <3>2, BoundsAssumption DEF ConfigTypeOK
  <2> QED
    BY <1>4, <2>1 DEF AckSent, ConfigTypeOK
<1>5. CASE Wake
  BY <1>5 DEF Wake, ConfigTypeOK, MainStates, Indexing, LedStates
<1>6. CASE MissingId \/ MissingPort
  <2>1. outbox' \in Seq(Ack) /\ Len(outbox') <= MaxOutbox
    <3>1. PICK id \in Ids \cup {NoId} : Publish(1, id, "rejected")
      BY <1>6 DEF MissingId, MissingPort, ConfigTypeOK, Fields
    <3> QED
      BY <3>1, PublishType
  <2> QED
    BY <1>6, <2>1 DEF MissingId, MissingPort, ConfigTypeOK, MainStates, Indexing, LedStates
<1>7. CASE ReadId \/ ReadPort \/ ReadThreshold \/ ReadDuration \/ ReadSchedule
  <2>0. msg \in Fields /\ Visible \subseteq Text
    BY VisibleType DEF ConfigTypeOK
  <2>1. {"readPort", "readThr", "readDur", "readSched", "check"} \subseteq MainStates \ Indexing
    BY DEF MainStates, Indexing
  <2>2. CASE ReadId
    <3>1. PICK b \in Visible : b.id # None /\ Read("readId", "readPort", [msg EXCEPT !.id = b.id])
      BY <2>2 DEF ReadId
    <3>2. b.id \in Ids \cup {NoId}
      BY <2>0, <3>1 DEF Text
    <3> QED
      BY <2>0, <2>1, <3>1, <3>2, FieldsType, ReadType
  <2>3. CASE ReadPort
    <3>1. PICK b \in Visible :
            b.port # None /\ Read("readPort", "readThr", [msg EXCEPT !.port = b.port])
      BY <2>3 DEF ReadPort
    <3>2. b.port \in Int
      BY <2>0, <3>1 DEF Text
    <3> QED
      BY <2>0, <2>1, <3>1, <3>2, FieldsType, ReadType
  <2>4. CASE ReadThreshold
    <3>1. PICK b \in Visible : Read("readThr", "readDur", [msg EXCEPT !.thr = b.thr])
      BY <2>4 DEF ReadThreshold
    <3>2. b.thr \in Int
      BY <2>0 DEF Text
    <3> QED
      BY <2>0, <2>1, <3>1, <3>2, FieldsType, ReadType
  <2>5. CASE ReadDuration
    <3>1. PICK b \in Visible : Read("readDur", "readSched", [msg EXCEPT !.dur = b.dur])
      BY <2>5 DEF ReadDuration
    <3>2. b.dur \in Nat
      BY <2>0 DEF Text
    <3> QED
      BY <2>0, <2>1, <3>1, <3>2, FieldsType, ReadType
  <2>6. CASE ReadSchedule
    <3>1. PICK b \in Visible : Read("readSched", "check", [msg EXCEPT !.sched = Kept(b.sched)])
      BY <2>6 DEF ReadSchedule
    <3>2. b.sched \in Seq(RawSlot)
      BY <2>0 DEF Text
    <3>3. Kept(b.sched) \in Seq(RawSlot)
      BY <3>2, KeptType
    <3> QED
      BY <2>0, <2>1, <3>1, <3>3, FieldsType, ReadType
  <2> QED
    BY <1>7, <2>2, <2>3, <2>4, <2>5, <2>6
<1>9. CASE InvalidValues
  <2>1. outbox' \in Seq(Ack) /\ Len(outbox') <= MaxOutbox
    <3>1. msg.port \in Int /\ msg.id \in Ids \cup {NoId}
          /\ Publish(msg.port, msg.id, "rejected")
      BY <1>9 DEF InvalidValues, ConfigTypeOK, Fields
    <3> QED
      BY <3>1, PublishType
  <2> QED
    BY <1>9, <2>1 DEF InvalidValues, ConfigTypeOK, MainStates, Indexing, LedStates
<1>10. CASE FlashDone
  <2>1. msg' \in Fields
    BY <1>10, EmptySeq DEF FlashDone, Blank, Fields
  <2> QED
    BY <1>10, <2>1 DEF FlashDone, ConfigTypeOK, MainStates, Indexing, LedStates
<1>11. CASE AlreadyApplied \/ StartSave
  BY <1>11
     DEF AlreadyApplied, StartSave, ValidValues, ConfigTypeOK, MainStates, Indexing
<1>12. CASE SetId
  <2>1. [nvs[msg.port] EXCEPT !.id = msg.id] \in NvsEntry
    <3>1. nvs[msg.port] \in NvsEntry /\ msg \in Fields
      BY <1>12 DEF SetId, NvsSet, ConfigTypeOK, Indexing
    <3> QED
      BY <3>1 DEF NvsEntry, Fields
  <2>2. NvsSet("nvsId", "nvsSched", [nvs[msg.port] EXCEPT !.id = msg.id])
    BY <1>12 DEF SetId
  <2>3. failed' \subseteq Ports
    BY <1>12 DEF SetId, ConfigTypeOK
  <2>4. "nvsId" \in Indexing /\ "nvsSched" \in Indexing
    BY DEF Indexing
  <2> QED
    BY <2>1, <2>2, <2>3, <2>4, NvsSetType
<1>13. CASE SetSched
  <2>1. [nvs[msg.port] EXCEPT !.sched = msg.sched] \in NvsEntry
    <3>1. nvs[msg.port] \in NvsEntry /\ msg \in Fields
      BY <1>13 DEF SetSched, NvsSet, ConfigTypeOK, Indexing
    <3> QED
      BY <3>1 DEF NvsEntry, Fields
  <2>2. NvsSet("nvsSched", "nvsThr", [nvs[msg.port] EXCEPT !.sched = msg.sched])
    BY <1>13 DEF SetSched
  <2>3. failed' \subseteq Ports
    BY <1>13 DEF SetSched, ConfigTypeOK
  <2>4. "nvsSched" \in Indexing /\ "nvsThr" \in Indexing
    BY DEF Indexing
  <2> QED
    BY <2>1, <2>2, <2>3, <2>4, NvsSetType
<1>14. CASE SetThr
  <2>1. [nvs[msg.port] EXCEPT !.thr = msg.thr] \in NvsEntry
    <3>1. nvs[msg.port] \in NvsEntry /\ msg \in Fields
      BY <1>14 DEF SetThr, NvsSet, ConfigTypeOK, Indexing
    <3> QED
      BY <3>1 DEF NvsEntry, Fields
  <2>2. NvsSet("nvsThr", "nvsDur", [nvs[msg.port] EXCEPT !.thr = msg.thr])
    BY <1>14 DEF SetThr
  <2>3. failed' \subseteq Ports
    BY <1>14 DEF SetThr, ConfigTypeOK
  <2>4. "nvsThr" \in Indexing /\ "nvsDur" \in Indexing
    BY DEF Indexing
  <2> QED
    BY <2>1, <2>2, <2>3, <2>4, NvsSetType
<1>15. CASE SetDur
  <2>1. [nvs[msg.port] EXCEPT !.dur = msg.dur] \in NvsEntry
    <3>1. nvs[msg.port] \in NvsEntry /\ msg \in Fields
      BY <1>15 DEF SetDur, NvsSet, ConfigTypeOK, Indexing
    <3> QED
      BY <3>1 DEF NvsEntry, Fields
  <2>2. NvsSet("nvsDur", "apply", [nvs[msg.port] EXCEPT !.dur = msg.dur])
    BY <1>15 DEF SetDur
  <2>3. failed' \subseteq Ports
    BY <1>15 DEF SetDur, ConfigTypeOK
  <2>4. "nvsDur" \in Indexing /\ "apply" \in Indexing
    BY DEF Indexing
  <2> QED
    BY <2>1, <2>2, <2>3, <2>4, NvsSetType
<1>16. CASE SaveFails
  BY <1>16 DEF SaveFails, ConfigTypeOK, MainStates, Indexing
<1>17. CASE ApplyThreshold
  <2> DEFINE pc == [sPorts[msg.port] EXCEPT !.id = msg.id, !.thr = msg.thr]
  <2>0. msg.port \in Ports /\ msg \in Fields /\ sPorts[msg.port] \in PortEntry
    BY <1>17 DEF ApplyThreshold, ConfigTypeOK, Indexing
  <2>1. pc \in PortEntry
    <3>1. msg.id \in Ids \cup {NoId} /\ msg.thr \in Int /\ msg.dur \in Nat
      BY <2>0 DEF Fields
    <3>2. 0 \in 0..MaxSlots
      BY SizesAssumption
    <3> QED
      BY <2>0, <3>1, <3>2, EntryUpdateType
  <2>2. sPorts' = [sPorts EXCEPT ![msg.port] = pc]
    BY <1>17 DEF ApplyThreshold, ConfigTypeOK, PortEntry, Indexing
  <2> QED
    BY <1>17, <2>1, <2>2, PortUpdateType DEF ApplyThreshold, Indexing
<1>18. CASE ApplyDuration
  <2> DEFINE pc == [sPorts[msg.port] EXCEPT !.dur = msg.dur, !.n = 0]
  <2>0. msg.port \in Ports /\ msg \in Fields /\ sPorts[msg.port] \in PortEntry
    BY <1>18 DEF ApplyDuration, ConfigTypeOK, Indexing
  <2>1. pc \in PortEntry
    <3>1. msg.id \in Ids \cup {NoId} /\ msg.thr \in Int /\ msg.dur \in Nat
      BY <2>0 DEF Fields
    <3>2. 0 \in 0..MaxSlots
      BY SizesAssumption
    <3> QED
      BY <2>0, <3>1, <3>2, EntryUpdateType
  <2>2. sPorts' = [sPorts EXCEPT ![msg.port] = pc]
    BY <1>18 DEF ApplyDuration, ConfigTypeOK, PortEntry, Indexing
  <2> QED
    BY <1>18, <2>1, <2>2, PortUpdateType DEF ApplyDuration, Indexing
<1>19. CASE ParseSlot
  <2> DEFINE old == sPorts[msg.port]
             i == old.n + 1
             new == ParsedSlot(old.slots[i], msg.sched[i])
             pc == [old EXCEPT !.n = i, !.slots[i] = new]
  <2>1. msg.port \in Ports /\ old \in PortEntry /\ msg.sched \in Seq(RawSlot)
    BY <1>19 DEF ParseSlot, ConfigTypeOK, Indexing, Fields
  <2>2. i \in 1..MaxSlots /\ i \in 1..Len(msg.sched)
    BY <1>19, <2>1, SizesAssumption, LenProperties, SMTT(60)
       DEF ParseSlot, MoreSlots, Shorter, PortEntry
  <2>3. new \in Slot
    BY <2>1, <2>2, ParsedSlotType, ElementOfSeq DEF PortEntry
  <2>4. pc \in PortEntry
    <3>1. i \in 0..MaxSlots
      BY <2>2
    <3> QED
      BY <2>1, <2>2, <2>3, <3>1, SlotUpdateType, Zenon
  <2>5. sPorts' = [sPorts EXCEPT ![msg.port] = pc]
    BY <1>19, <2>1 DEF ParseSlot, ConfigTypeOK, PortEntry
  <2> QED
    BY <1>19, <2>4, <2>5, PortUpdateType DEF ParseSlot, Indexing
<1>20. CASE Activate
  <2> DEFINE pc == [sPorts[msg.port] EXCEPT !.active = TRUE, !.last = Never]
  <2>0. msg.port \in Ports /\ msg \in Fields /\ sPorts[msg.port] \in PortEntry
    BY <1>20 DEF Activate, ConfigTypeOK, Indexing
  <2>1. pc \in PortEntry
    <3>1. Never \in Int
      BY DEF Never
    <3>2. \A e \in PortEntry, t \in Int :
            [e EXCEPT !.active = TRUE, !.last = t] \in PortEntry
      BY DEF PortEntry
    <3> QED
      BY <2>0, <3>1, <3>2, Zenon
  <2>2. sPorts' = [sPorts EXCEPT ![msg.port] = pc]
    BY <1>20 DEF Activate, ConfigTypeOK, PortEntry, Indexing
  <2> QED
    BY <1>20, <2>1, <2>2, PortUpdateType DEF Activate, Indexing
<1>21. CASE AckApplied
  <2>1. outbox' \in Seq(Ack) /\ Len(outbox') <= MaxOutbox
    <3>1. msg.port \in Int /\ msg.id \in Ids \cup {NoId}
          /\ Publish(msg.port, msg.id, "applied")
      BY <1>21 DEF AckApplied, ConfigTypeOK, Fields
    <3> QED
      BY <3>1, PublishType
  <2>2. msg' \in Fields
    BY <1>21, EmptySeq DEF AckApplied, Blank, Fields
  <2> QED
    BY <1>21, <2>1, <2>2 DEF AckApplied, ConfigTypeOK, MainStates, Indexing, LedStates
<1> QED
  BY <1>1, <1>2, <1>3, <1>4, <1>5, <1>6, <1>7, <1>9, <1>10, <1>11, <1>12, <1>13,
     <1>14, <1>15, <1>16, <1>17, <1>18, <1>19, <1>20, <1>21 DEF ConfigStep, Handle

\* The handler keeps its types, and indexes s_ports and NVS only with a
\* validated port, whatever it reads from the buffer and whenever the power
\* fails.
THEOREM ConfigTypeCorrect == ConfigSpec => []ConfigTypeOK
<1>1. ConfigTypeOK /\ UNCHANGED configVars => ConfigTypeOK'
  BY DEF ConfigTypeOK, configVars
<1> QED
  BY <1>1, ConfigInitType, ConfigStepType, ConfigRebootType, PTL
     DEF ConfigSpec, ConfigNext

----------------------------------------------------------------------------
(* RamMatchesNvs.  Its strengthening RamInv says, at each point between the  *)
(* first NVS write and the last field of s_ports, which part of the message  *)
(* has arrived where.                                                        *)

\* What was just loaded is what is saved.
LEMMA RestoredIsSaved ==
  ASSUME NEW e \in NvsEntry
  PROVE  SameAsSaved(Restored(e), e)
<1>1. CASE None \in {e.id, e.sched, e.thr, e.dur}
  BY <1>1 DEF Restored, SameAsSaved, ZeroPort
<1>2. CASE None \notin {e.id, e.sched, e.thr, e.dur}
  <2>1. e.sched \in Seq(RawSlot) /\ Len(e.sched) \in Nat
    BY <1>2, LenProperties DEF NvsEntry
  <2>2. Restored(e).n \in Nat /\ Restored(e).n <= Len(e.sched) /\ Restored(e).n <= MaxSlots
    BY <1>2, <2>1, SizesAssumption DEF Restored, Shorter
  <2>3. ASSUME NEW i \in 1..Restored(e).n
        PROVE  e.sched[i].at # NoTime => Restored(e).slots[i].at = Restored(e).slots[i].at
    OBVIOUS
  <2> QED
    BY <2>2, <2>3 DEF SameAsSaved
<1> QED
  BY <1>1, <1>2

\* A step that touches neither s_ports nor NVS and begins and ends outside
\* the save-and-apply section keeps RamInv.
LEMMA RamFrame ==
  ASSUME RamInv, ConfigTypeOK', UNCHANGED <<sPorts, nvs, failed>>,
         \/ UNCHANGED <<main, msg>>
         \/ main \notin Rewriting /\ main' \notin Rewriting
  PROVE  RamInv'
<1>1. CASE UNCHANGED <<main, msg>>
  BY <1>1 DEF RamInv, RamMatchesNvs, SaveProgress, UpdateProgress
<1>2. CASE main \notin Rewriting /\ main' \notin Rewriting
  <2>1. RamMatchesNvs'
    BY <1>2 DEF RamInv, RamMatchesNvs
  <2>2. SaveProgress' /\ UpdateProgress'
    BY <1>2 DEF SaveProgress, UpdateProgress, Rewriting
  <2> QED
    BY <2>1, <2>2 DEF RamInv
<1> QED
  BY <1>1, <1>2

\* While a port is being rewritten the other one stays as it was.
LEMMA OtherPort ==
  ASSUME RamInv, msg' = msg, main' \in Rewriting,
         \A p \in Ports \ {msg.port} :
           /\ sPorts'[p] = sPorts[p] /\ nvs'[p] = nvs[p] /\ (p \in failed' <=> p \in failed)
  PROVE  RamMatchesNvs'
BY DEF RamInv, RamMatchesNvs

\* The power comes back: RAM is what NVS holds.
LEMMA ConfigRebootRam ==
  ASSUME RamInv, ConfigReboot
  PROVE  RamInv'
<1>1. ConfigTypeOK'
  BY ConfigRebootType DEF RamInv
<1>2. RamMatchesNvs'
  <2> SUFFICES ASSUME NEW p \in Ports PROVE SameAsSaved(sPorts'[p], nvs'[p])
    BY DEF RamMatchesNvs
  <2>1. nvs[p] \in NvsEntry /\ nvs'[p] = nvs[p] /\ sPorts'[p] = Restored(nvs[p])
    BY DEF RamInv, ConfigTypeOK, ConfigReboot
  <2> QED
    BY <2>1, RestoredIsSaved
<1>3. SaveProgress' /\ UpdateProgress'
  BY DEF ConfigReboot, SaveProgress, UpdateProgress
<1> QED
  BY <1>1, <1>2, <1>3 DEF RamInv

\* The last field is written: the port runs what was saved for it.
LEMMA ActivateRam ==
  ASSUME RamInv, Activate, msg.port \notin failed
  PROVE  SameAsSaved(sPorts'[msg.port], nvs'[msg.port])
<1> DEFINE p == msg.port
           e == nvs[p]
           pc == sPorts[p]
           r == Restored(e)
           new == sPorts'[p]
<1>1. p \in Ports /\ msg \in Fields /\ pc \in PortEntry /\ e \in NvsEntry
  BY DEF RamInv, ConfigTypeOK, Activate, Indexing
<1>2. e.id = msg.id /\ e.sched = msg.sched /\ e.thr = msg.thr /\ e.dur = msg.dur
  BY DEF RamInv, SaveProgress, Activate
<1>3. None \notin {e.id, e.sched, e.thr, e.dur}
  BY <1>1, <1>2, NoneAssumption DEF Fields
<1>4. Len(msg.sched) \in Nat /\ pc.n \in 0..MaxSlots
  BY <1>1, LenProperties DEF Fields, PortEntry
<1>5. /\ pc.id = msg.id /\ pc.thr = msg.thr /\ pc.dur = msg.dur
      /\ pc.n <= Shorter(Len(msg.sched), MaxSlots)
      /\ \A i \in 1..pc.n : /\ pc.slots[i].dur = msg.sched[i].dur
                            /\ msg.sched[i].at # NoTime => pc.slots[i].at = msg.sched[i].at
  BY DEF RamInv, UpdateProgress, Activate
<1>6. pc.n = Shorter(Len(msg.sched), MaxSlots) /\ pc.n <= Len(msg.sched) /\ pc.n <= MaxSlots
  BY <1>4, <1>5, SizesAssumption DEF Activate, MoreSlots, Shorter
<1>7. /\ r.id = msg.id /\ r.thr = msg.thr /\ r.dur = msg.dur /\ r.active = TRUE
      /\ r.n = pc.n /\ r.slots = ParsedSlots(ZeroSlots, msg.sched)
  BY <1>2, <1>3, <1>6 DEF Restored
<1>8. /\ new.id = pc.id /\ new.thr = pc.thr /\ new.dur = pc.dur /\ new.n = pc.n
      /\ new.slots = pc.slots /\ new.active = TRUE /\ nvs'[p] = e
  BY <1>1 DEF Activate, ConfigTypeOK, RamInv, PortEntry
<1>9. ASSUME NEW i \in 1..r.n
      PROVE  /\ new.slots[i].dur = r.slots[i].dur
             /\ e.sched[i].at # NoTime => new.slots[i].at = r.slots[i].at
  <2>1. i \in 1..pc.n /\ i \in 1..MaxSlots /\ i <= Len(msg.sched)
    <3>1. i \in 1..pc.n
      BY <1>7
    <3>2. pc.n \in Nat
      BY <1>4
    <3> HIDE DEF pc
    <3> QED
      BY <3>1, <3>2, <1>4, <1>6, SizesAssumption
  <2>2. r.slots[i] = ParsedSlot(ZeroSlots[i], msg.sched[i])
    BY <1>7, <2>1 DEF ParsedSlots
  <2>3. r.slots[i].dur = msg.sched[i].dur
    BY <2>2 DEF ParsedSlot
  <2>4. msg.sched[i].at # NoTime => r.slots[i].at = msg.sched[i].at
    BY <2>2 DEF ParsedSlot
  <2> QED
    BY <1>2, <1>5, <1>8, <2>1, <2>3, <2>4
<1> QED
  BY <1>5, <1>7, <1>8, <1>9, ZenonT(60) DEF SameAsSaved

\* One more slot of the message reaches the array.
LEMMA ParseSlotRam ==
  ASSUME RamInv, ParseSlot
  PROVE  UpdateProgress'
<1> DEFINE p == msg.port
           pc == sPorts[p]
           new == sPorts'[p]
           k == pc.n + 1
<1>1. p \in Ports /\ msg \in Fields /\ pc \in PortEntry
  BY DEF RamInv, ConfigTypeOK, ParseSlot, Indexing
<1>2. pc.n \in Nat /\ k \in 1..MaxSlots /\ k <= Shorter(Len(msg.sched), MaxSlots)
  <2>1. Len(msg.sched) \in Nat
    BY <1>1, LenProperties DEF Fields
  <2> QED
    BY <1>1, <2>1, SizesAssumption DEF ParseSlot, MoreSlots, PortEntry, Shorter
<1>3. /\ new.id = pc.id /\ new.thr = pc.thr /\ new.dur = pc.dur /\ new.n = k
      /\ new.slots = [pc.slots EXCEPT ![k] = ParsedSlot(pc.slots[k], msg.sched[k])]
  BY <1>1 DEF ParseSlot, ConfigTypeOK, RamInv, PortEntry
<1>4. /\ pc.id = msg.id /\ pc.thr = msg.thr /\ pc.dur = msg.dur
      /\ \A i \in 1..pc.n : /\ pc.slots[i].dur = msg.sched[i].dur
                            /\ msg.sched[i].at # NoTime => pc.slots[i].at = msg.sched[i].at
  BY DEF RamInv, UpdateProgress, ParseSlot
<1>5. ASSUME NEW i \in 1..k
      PROVE  /\ new.slots[i].dur = msg.sched[i].dur
             /\ msg.sched[i].at # NoTime => new.slots[i].at = msg.sched[i].at
  <2>1. CASE i = k
    <3>1. new.slots[i] = ParsedSlot(pc.slots[k], msg.sched[k])
      BY <1>1, <1>2, <1>3, <2>1 DEF PortEntry
    <3> QED
      BY <2>1, <3>1 DEF ParsedSlot
  <2>2. CASE i # k
    <3>1. i \in 1..pc.n
      BY <1>2, <2>2
    <3>2. new.slots[i] = pc.slots[i]
      BY <1>3, <2>2, <3>1, <1>1, <1>2 DEF PortEntry
    <3> QED
      BY <1>4, <3>1, <3>2
  <2> QED
    BY <2>1, <2>2
<1> QED
  BY <1>2, <1>3, <1>4, <1>5, ZenonT(60) DEF UpdateProgress, ParseSlot

\* Every step keeps RamInv: the frame steps by RamFrame, a rewriting step for
\* the other port by OtherPort, and for its own port because it is excused
\* until Activate.
LEMMA ConfigStepRam ==
  ASSUME RamInv, ConfigStep
  PROVE  RamInv'
<1>0. ConfigTypeOK /\ ConfigTypeOK'
  BY ConfigStepType DEF RamInv
<1>1. ASSUME NEW m \in Messages, DataBegin(m) \/ DataTooLong(m) PROVE RamInv'
  BY <1>0, <1>1, RamFrame DEF DataBegin, DataTooLong
<1>2. CASE DataEnd \/ AckSent
  BY <1>0, <1>2, RamFrame DEF DataEnd, AckSent
<1>3. CASE \/ Wake \/ MissingId \/ ReadId \/ MissingPort \/ ReadPort
           \/ ReadThreshold \/ ReadDuration \/ ReadSchedule
  BY <1>0, <1>3, RamFrame
     DEF Wake, MissingId, ReadId, MissingPort, ReadPort, ReadThreshold, ReadDuration,
         ReadSchedule, Read, Rewriting
<1>4. CASE InvalidValues \/ FlashDone \/ AlreadyApplied \/ StartSave
  BY <1>0, <1>4, RamFrame
     DEF InvalidValues, FlashDone, AlreadyApplied, StartSave, Rewriting
<1>5. CASE AckApplied
  BY <1>0, <1>5, RamFrame DEF AckApplied, Rewriting
<1>6. main \in Indexing => msg.port \in Ports /\ nvs[msg.port] \in NvsEntry
  BY <1>0 DEF ConfigTypeOK
<1>7. CASE SetId
  <2>1. RamMatchesNvs'
    BY <1>0, <1>7, OtherPort DEF SetId, NvsSet, Rewriting, ConfigTypeOK
  <2>2. nvs'[msg.port].id = msg.id
    BY <1>0, <1>6, <1>7 DEF SetId, NvsSet, Indexing, ConfigTypeOK, NvsEntry
  <2> QED
    BY <1>0, <1>7, <2>1, <2>2 DEF SetId, NvsSet, RamInv, SaveProgress, UpdateProgress
<1>8. CASE SetSched
  <2>1. RamMatchesNvs'
    BY <1>0, <1>8, OtherPort DEF SetSched, NvsSet, Rewriting, ConfigTypeOK
  <2>2. nvs'[msg.port].sched = msg.sched /\ nvs'[msg.port].id = nvs[msg.port].id
    BY <1>0, <1>6, <1>8 DEF SetSched, NvsSet, Indexing, ConfigTypeOK, NvsEntry
  <2> QED
    BY <1>0, <1>8, <2>1, <2>2 DEF SetSched, NvsSet, RamInv, SaveProgress, UpdateProgress
<1>9. CASE SetThr
  <2>1. RamMatchesNvs'
    BY <1>0, <1>9, OtherPort DEF SetThr, NvsSet, Rewriting, ConfigTypeOK
  <2>2. /\ nvs'[msg.port].thr = msg.thr /\ nvs'[msg.port].id = nvs[msg.port].id
        /\ nvs'[msg.port].sched = nvs[msg.port].sched
    BY <1>0, <1>6, <1>9 DEF SetThr, NvsSet, Indexing, ConfigTypeOK, NvsEntry
  <2> QED
    BY <1>0, <1>9, <2>1, <2>2 DEF SetThr, NvsSet, RamInv, SaveProgress, UpdateProgress
<1>10. CASE SetDur
  <2>1. RamMatchesNvs'
    BY <1>0, <1>10, OtherPort DEF SetDur, NvsSet, Rewriting, ConfigTypeOK
  <2>2. /\ nvs'[msg.port].dur = msg.dur /\ nvs'[msg.port].id = nvs[msg.port].id
        /\ nvs'[msg.port].sched = nvs[msg.port].sched
        /\ nvs'[msg.port].thr = nvs[msg.port].thr
    BY <1>0, <1>6, <1>10 DEF SetDur, NvsSet, Indexing, ConfigTypeOK, NvsEntry
  <2> QED
    BY <1>0, <1>10, <2>1, <2>2 DEF SetDur, NvsSet, RamInv, SaveProgress, UpdateProgress
<1>11. CASE SaveFails
  <2>1. RamMatchesNvs'
    BY <1>0, <1>11, OtherPort DEF SaveFails, Rewriting
  <2> QED
    BY <1>0, <1>11, <2>1 DEF SaveFails, RamInv, SaveProgress, UpdateProgress
<1>12. CASE ApplyThreshold
  <2>1. RamMatchesNvs'
    BY <1>0, <1>12, OtherPort DEF ApplyThreshold, Rewriting, ConfigTypeOK
  <2>2. sPorts'[msg.port].id = msg.id /\ sPorts'[msg.port].thr = msg.thr
    BY <1>0, <1>6, <1>12 DEF ApplyThreshold, Indexing, ConfigTypeOK, PortEntry
  <2> QED
    BY <1>0, <1>12, <2>1, <2>2
       DEF ApplyThreshold, RamInv, SaveProgress, UpdateProgress
<1>13. CASE ApplyDuration
  <2>1. RamMatchesNvs'
    BY <1>0, <1>13, OtherPort DEF ApplyDuration, Rewriting, ConfigTypeOK
  <2>2. UpdateProgress'
    <3>1. /\ sPorts'[msg.port].dur = msg.dur /\ sPorts'[msg.port].n = 0
          /\ sPorts'[msg.port].id = sPorts[msg.port].id
          /\ sPorts'[msg.port].thr = sPorts[msg.port].thr
      BY <1>0, <1>6, <1>13 DEF ApplyDuration, Indexing, ConfigTypeOK, PortEntry
    <3>2. 0 <= Shorter(Len(msg.sched), MaxSlots)
      BY <1>0, LenProperties, SizesAssumption DEF ConfigTypeOK, Fields, Shorter
    <3>3. \A i \in 1..sPorts'[msg.port].n : FALSE
      BY <3>1
    <3>4. sPorts[msg.port].id = msg.id /\ sPorts[msg.port].thr = msg.thr
      BY <1>13 DEF ApplyDuration, RamInv, UpdateProgress
    <3>5. msg' = msg
      BY <1>13 DEF ApplyDuration
    <3> QED
      BY <3>1, <3>2, <3>3, <3>4, <3>5 DEF UpdateProgress
  <2> QED
    BY <1>0, <1>13, <2>1, <2>2 DEF ApplyDuration, RamInv, SaveProgress
<1>14. CASE ParseSlot
  <2>1. RamMatchesNvs'
    BY <1>0, <1>14, OtherPort DEF ParseSlot, Rewriting, ConfigTypeOK
  <2>2. UpdateProgress'
    BY <1>14, ParseSlotRam
  <2> QED
    BY <1>0, <1>14, <2>1, <2>2 DEF ParseSlot, RamInv, SaveProgress
<1>15. CASE Activate
  <2>1. RamMatchesNvs'
    <3> SUFFICES ASSUME NEW p \in Ports, p \notin failed'
                 PROVE  SameAsSaved(sPorts'[p], nvs'[p])
      BY DEF RamMatchesNvs
    <3>1. CASE p = msg.port
      BY <1>15, <3>1, ActivateRam DEF Activate
    <3>2. CASE p # msg.port
      BY <1>0, <1>15, <3>2 DEF Activate, RamInv, RamMatchesNvs, ConfigTypeOK
    <3> QED
      BY <3>1, <3>2
  <2> QED
    BY <1>0, <1>15, <2>1 DEF Activate, RamInv, SaveProgress, UpdateProgress
<1> QED
  BY <1>1, <1>2, <1>3, <1>4, <1>5, <1>7, <1>8, <1>9, <1>10, <1>11, <1>12, <1>13, <1>14,
     <1>15 DEF ConfigStep, Handle

\* The save and the update of s_ports go on in step, with the power failing at
\* any point.
LEMMA RamInvCorrect == ConfigSpec => []RamInv
<1>1. ConfigInit => RamInv
  <2> SUFFICES ASSUME ConfigInit PROVE RamInv
    OBVIOUS
  <2>1. RamMatchesNvs
    BY SavedAssumption, RestoredIsSaved DEF ConfigInit, RamMatchesNvs
  <2> QED
    BY <2>1, ConfigInitType DEF ConfigInit, RamInv, SaveProgress, UpdateProgress
<1>2. RamInv /\ [ConfigNext]_configVars => RamInv'
  <2> SUFFICES ASSUME RamInv, [ConfigNext]_configVars PROVE RamInv'
    OBVIOUS
  <2>1. CASE UNCHANGED configVars
    BY <2>1
       DEF RamInv, configVars, ConfigTypeOK, RamMatchesNvs, SaveProgress, UpdateProgress
  <2> QED
    BY <2>1, ConfigStepRam, ConfigRebootRam DEF ConfigNext
<1> QED
  BY <1>1, <1>2, PTL DEF ConfigSpec

\* A port runs what its NVS keys hold: for any messages, in any order, with the
\* power failing at any point, a port outside its save-and-apply section whose
\* last save did not fail has the saved id, trigger, durations and readable
\* times.  An unreadable time keeps the old entry's in RAM and is 0:00 after a
\* restart, so this alone is not what a restart restores: see
\* RestartRestoresCorrect.
THEOREM RamMatchesNvsCorrect == ConfigSpec => []RamMatchesNvs
<1>1. RamInv => RamMatchesNvs
  BY DEF RamInv
<1> QED
  BY <1>1, RamInvCorrect, PTL

----------------------------------------------------------------------------
(* RestartRestores.  An unreadable time is all that stands in its way.       *)

Readable(sched) == \A i \in 1..Len(sched) : sched[i].at # NoTime

\* The server and the users only ever write times that sscanf can read.
AllReadable ==
  /\ \A m \in Messages : Readable(m.sched)
  /\ \A b \in Garbled : Readable(b.sched)
  /\ \A p \in Ports : Saved[p].sched # None => Readable(Saved[p].sched)

ReadableInv ==
  /\ AllReadable
  /\ Readable(msg.sched)
  /\ \A p \in Ports : nvs[p].sched # None => Readable(nvs[p].sched)

\* Cutting a schedule leaves readable times readable.
LEMMA KeptReadable ==
  ASSUME NEW sched \in Seq(RawSlot), Readable(sched)
  PROVE  Readable(Kept(sched))
<1> DEFINE k == Shorter(Len(sched), RawSlots)
<1>1. Len(sched) \in Nat
  BY LenProperties
<1>2. k \in Nat /\ k <= Len(sched)
  BY <1>1, SizesAssumption, ShorterBound
<1>3. \A i \in 1..k : sched[i] \in RawSlot
  BY <1>1, <1>2
<1>4. Len(Kept(sched)) = k /\ \A i \in 1..k : Kept(sched)[i] = sched[i]
  BY <1>2, <1>3, SubSeqProperties DEF Kept
<1> QED
  BY <1>1, <1>2, <1>4 DEF Readable

\* What the buffer shows is readable.
LEMMA VisibleReadable ==
  ASSUME ConfigTypeOK, AllReadable
  PROVE  \A b \in Visible : Readable(b.sched)
<1>1. \A m \in Messages : Readable(TextOf(m).sched)
  BY DEF AllReadable, TextOf
<1>2. Readable(Empty.sched)
  BY EmptySeq DEF Readable, Empty
<1>3. Readable(configBuf.sched)
  BY <1>1, <1>2 DEF ConfigTypeOK
<1>4. rx # None => Readable(TextOf(rx).sched)
  BY <1>1 DEF ConfigTypeOK
<1> QED
  BY <1>3, <1>4 DEF Visible, AllReadable

\* Every step of the MQTT task and of the handler keeps the times readable.
LEMMA ConfigStepReadable ==
  ASSUME ConfigTypeOK, ReadableInv, ConfigStep
  PROVE  ReadableInv'
<1>0. AllReadable' /\ Readable(Blank.sched)
  BY EmptySeq DEF ReadableInv, AllReadable, Readable, Blank
<1>1. ASSUME msg' = msg \/ msg'.sched = msg.sched, nvs' = nvs PROVE ReadableInv'
  BY <1>0, <1>1 DEF ReadableInv
<1>2. CASE (\E m \in Messages : DataBegin(m) \/ DataTooLong(m)) \/ DataEnd \/ AckSent
  BY <1>1, <1>2 DEF DataBegin, DataTooLong, DataEnd, AckSent
<1>3. CASE Wake \/ MissingId \/ MissingPort \/ InvalidValues \/ AlreadyApplied \/ StartSave
  BY <1>1, <1>3 DEF Wake, MissingId, MissingPort, InvalidValues, AlreadyApplied, StartSave
<1>4. CASE ReadId \/ ReadPort \/ ReadThreshold \/ ReadDuration
  <2>1. nvs' = nvs /\ msg'.sched = msg.sched
    BY <1>4 DEF ReadId, ReadPort, ReadThreshold, ReadDuration, Read, ConfigTypeOK, Fields
  <2> QED
    BY <1>1, <2>1
<1>5. CASE ReadSchedule
  <2>1. PICK b \in Visible : Read("readSched", "check", [msg EXCEPT !.sched = Kept(b.sched)])
    BY <1>5 DEF ReadSchedule
  <2>2. b.sched \in Seq(RawSlot) /\ Readable(b.sched)
    BY VisibleType, VisibleReadable DEF Text, ReadableInv
  <2>3. Readable(Kept(b.sched))
    BY <2>2, KeptReadable
  <2>4. msg'.sched = Kept(b.sched) /\ nvs' = nvs
    BY <2>1 DEF Read, ConfigTypeOK, Fields
  <2> QED
    BY <1>0, <2>3, <2>4 DEF ReadableInv
<1>6. CASE FlashDone \/ AckApplied
  <2>1. msg' = Blank /\ nvs' = nvs
    BY <1>6 DEF FlashDone, AckApplied
  <2> QED
    BY <1>0, <2>1 DEF ReadableInv
<1>7. CASE SetId \/ SetThr \/ SetDur
  <2>0. nvs \in [Ports -> NvsEntry] /\ msg.port \in Ports /\ nvs[msg.port] \in NvsEntry
    BY <1>7 DEF SetId, SetThr, SetDur, NvsSet, ConfigTypeOK, Indexing
  <2>e. \A e \in NvsEntry, l \in Fields :
           /\ [e EXCEPT !.id = l.id].sched = e.sched
           /\ [e EXCEPT !.thr = l.thr].sched = e.sched
           /\ [e EXCEPT !.dur = l.dur].sched = e.sched
    BY DEF NvsEntry
  <2>1. msg' = msg /\ msg \in Fields
    BY <1>7 DEF SetId, SetThr, SetDur, NvsSet, ConfigTypeOK
  <2>2. ASSUME NEW here, NEW next, NEW entry, NvsSet(here, next, entry),
               entry.sched = nvs[msg.port].sched
        PROVE  \A p \in Ports : nvs'[p].sched = nvs[p].sched
    BY <2>0, <2>2 DEF NvsSet
  <2>3. \A p \in Ports : nvs'[p].sched = nvs[p].sched
    <3>1. CASE SetId
      BY <2>0, <2>e, <2>1, <2>2, <3>1 DEF SetId
    <3>2. CASE SetThr
      BY <2>0, <2>e, <2>1, <2>2, <3>2 DEF SetThr
    <3>3. CASE SetDur
      BY <2>0, <2>e, <2>1, <2>2, <3>3 DEF SetDur
    <3> QED
      BY <1>7, <3>1, <3>2, <3>3
  <2> QED
    BY <1>0, <2>1, <2>3 DEF ReadableInv
<1>8. CASE SetSched
  <2>0. nvs \in [Ports -> NvsEntry] /\ msg.port \in Ports /\ nvs[msg.port] \in NvsEntry
    BY <1>8 DEF SetSched, NvsSet, ConfigTypeOK, Indexing
  <2>1. msg' = msg /\ \A p \in Ports : nvs'[p].sched \in {nvs[p].sched, msg.sched}
    BY <1>8, <2>0 DEF SetSched, NvsSet, NvsEntry
  <2> QED
    BY <1>0, <2>1 DEF ReadableInv
<1>9. CASE SaveFails \/ ApplyThreshold \/ ApplyDuration \/ ParseSlot \/ Activate
  BY <1>1, <1>9 DEF SaveFails, ApplyThreshold, ApplyDuration, ParseSlot, Activate
<1> QED
  BY <1>2, <1>3, <1>4, <1>5, <1>6, <1>7, <1>8, <1>9 DEF ConfigStep, Handle

\* A port that runs what is saved, with readable times, waters as what a
\* restart makes of it.
LEMMA SameWaters ==
  ASSUME NEW pc \in PortEntry, NEW e \in NvsEntry, SameAsSaved(pc, e),
         e.sched # None => Readable(e.sched)
  PROVE  Waters(pc) = Waters(Restored(e))
<1> DEFINE r == Restored(e)
<1>1. /\ pc.active = r.active /\ pc.id = r.id /\ pc.thr = r.thr /\ pc.dur = r.dur
      /\ pc.n = r.n
  BY DEF SameAsSaved
<1>2. r \in PortEntry
  BY RestoredType
<1>3. ASSUME NEW i \in 1..r.n PROVE pc.slots[i] = r.slots[i]
  <2>1. r.n \in 0..MaxSlots /\ r.n # 0 /\ i \in 1..MaxSlots
    BY <1>2, SizesAssumption DEF PortEntry
  <2>2. None \notin {e.id, e.sched, e.thr, e.dur}
    BY <2>1 DEF Restored, ZeroPort
  <2>3. e.sched \in Seq(RawSlot) /\ Len(e.sched) \in Nat
    BY <2>2, LenProperties DEF NvsEntry
  <2>4. r.n <= Len(e.sched)
    BY <2>2, <2>3, SizesAssumption DEF Restored, Shorter
  <2>5. i \in 1..Len(e.sched)
    BY <2>1, <2>3, <2>4
  <2>6. e.sched[i].at # NoTime
    BY <2>2, <2>5 DEF Readable
  <2>7. pc.slots[i].dur = r.slots[i].dur /\ pc.slots[i].at = r.slots[i].at
    BY <2>6 DEF SameAsSaved
  <2>8. pc.slots[i] \in Slot /\ r.slots[i] \in Slot
    BY <1>2, <2>1 DEF PortEntry
  <2> QED
    BY <2>7, <2>8 DEF Slot
<1>4. [i \in 1..pc.n |-> pc.slots[i]] = [i \in 1..r.n |-> r.slots[i]]
  BY <1>1, <1>3
<1> HIDE DEF r
<1> QED
  BY <1>1, <1>4 DEF Waters, r

\* With readable times only, a restart brings back exactly what runs, for any
\* messages, saves that are torn by power failures and mixed bodies included:
\* trigger, slots and times (mqtt_manager.c:946, :992-1007).
THEOREM RestartRestoresCorrect == AllReadable /\ ConfigSpec => []RestartRestores
<1>1. AllReadable /\ ConfigInit => ReadableInv
  BY EmptySeq DEF ConfigInit, ReadableInv, Readable, Blank, AllReadable
<1>2. ConfigTypeOK /\ ReadableInv /\ [ConfigNext]_configVars => ReadableInv'
  <2> SUFFICES ASSUME ConfigTypeOK, ReadableInv, [ConfigNext]_configVars PROVE ReadableInv'
    OBVIOUS
  <2>1. CASE UNCHANGED configVars
    BY <2>1 DEF ReadableInv, AllReadable, configVars
  <2>2. CASE ConfigReboot
    BY <2>2, EmptySeq DEF ConfigReboot, ReadableInv, Readable, Blank, AllReadable
  <2> QED
    BY <2>1, <2>2, ConfigStepReadable DEF ConfigNext
<1>3. ConfigTypeOK /\ RamMatchesNvs /\ ReadableInv => RestartRestores
  <2> SUFFICES ASSUME ConfigTypeOK, RamMatchesNvs, ReadableInv, NEW p \in Ports,
                      SameAsSaved(sPorts[p], nvs[p])
               PROVE  Waters(sPorts[p]) = Waters(Restored(nvs[p]))
    BY DEF RestartRestores, RamMatchesNvs
  <2>1. sPorts[p] \in PortEntry /\ nvs[p] \in NvsEntry
    BY DEF ConfigTypeOK
  <2> QED
    BY <2>1, SameWaters DEF ReadableInv
<1> QED
  BY <1>1, <1>2, <1>3, ConfigTypeCorrect, RamMatchesNvsCorrect, PTL DEF ConfigSpec

----------------------------------------------------------------------------
(* The action properties NoRewrite and AppliedMeansRunning.  Both follow     *)
(* from AckInv at the step that writes the flash or publishes the ack.       *)

\* The boot code activates every port it gives an id (mqtt_manager_run()).
LEMMA RestoredActive ==
  ASSUME NEW e \in NvsEntry, Restored(e).id # NoId
  PROVE  Restored(e).active
BY DEF Restored, ZeroPort

\* A freshly booted handler has nothing in hand.
LEMMA BootAck ==
  ASSUME NEW content \in [Ports -> NvsEntry], main = "wait",
         sPorts = [p \in Ports |-> Restored(content[p])]
  PROVE  AckInv
BY RestoredActive DEF AckInv

\* A step that leaves the program counter among those where nothing is known
\* and s_ports alone keeps AckInv, as does one inside the save.
LEMMA KeptAck ==
  ASSUME ConfigTypeOK, AckInv, UNCHANGED sPorts,
         \/ UNCHANGED <<main, msg>>
         \/ /\ main \in MainStates \ {"duration", "parse"}
            /\ main' \in {"wait", "readId", "readPort", "readThr", "readDur", "readSched",
                           "check", "flash", "apply"}
         \/ /\ UNCHANGED msg
            /\ main \in {"nvsId", "nvsSched", "nvsThr"}
            /\ main' \in {"nvsSched", "nvsThr", "nvsDur"}
  PROVE  AckInv'
BY DEF AckInv, ConfigTypeOK, MainStates

\* Every step of the MQTT task and of the handler keeps AckInv.
LEMMA ConfigStepAck ==
  ASSUME ConfigTypeOK, AckInv, ConfigStep
  PROVE  AckInv'
<1>1. CASE (\E m \in Messages : DataBegin(m) \/ DataTooLong(m)) \/ DataEnd \/ AckSent
  BY <1>1, KeptAck DEF DataBegin, DataTooLong, DataEnd, AckSent
<1>2. CASE \/ Wake \/ MissingId \/ MissingPort \/ InvalidValues \/ FlashDone
           \/ ReadId \/ ReadPort \/ ReadThreshold \/ ReadDuration \/ ReadSchedule
  BY <1>2, KeptAck, ZenonT(60)
     DEF Wake, MissingId, MissingPort, InvalidValues, FlashDone, ReadId, ReadPort,
         ReadThreshold, ReadDuration, ReadSchedule, Read, MainStates
<1>3. CASE AlreadyApplied
  BY <1>3 DEF AlreadyApplied, SameConfig, ValidValues, AckInv, ConfigTypeOK
<1>4. CASE StartSave
  BY <1>4 DEF StartSave, SameConfig, AckInv
<1>5. CASE SetId \/ SetSched \/ SetThr
  BY <1>5, KeptAck DEF SetId, SetSched, SetThr, NvsSet
<1>6. CASE SetDur \/ SaveFails
  BY <1>6, KeptAck DEF SetDur, NvsSet, SaveFails, MainStates
<1>7. CASE ApplyThreshold
  <2>1. msg.port \in Ports
    BY <1>7 DEF ApplyThreshold, ConfigTypeOK, Indexing
  <2> QED
    BY <1>7, <2>1 DEF ApplyThreshold, AckInv, ConfigTypeOK, PortEntry
<1>8. CASE ApplyDuration
  BY <1>8 DEF ApplyDuration, AckInv, ConfigTypeOK, PortEntry, Indexing
<1>9. CASE ParseSlot
  BY <1>9 DEF ParseSlot, AckInv, ConfigTypeOK, PortEntry, Indexing
<1>10. CASE Activate
  BY <1>10 DEF Activate, AckInv, ConfigTypeOK, PortEntry, Indexing
<1>11. CASE AckApplied
  BY <1>11, KeptAck DEF AckApplied, MainStates
<1> QED
  BY <1>1, <1>2, <1>3, <1>4, <1>5, <1>6, <1>7, <1>8, <1>9, <1>10, <1>11
     DEF ConfigStep, Handle

\* AckInv holds throughout, with the power failing at any point.
LEMMA AckInvCorrect == ConfigSpec => [](ConfigTypeOK /\ AckInv)
<1>1. ConfigInit => AckInv
  BY SavedAssumption, BootAck DEF ConfigInit
<1>2. ConfigTypeOK /\ AckInv /\ [ConfigNext]_configVars => AckInv'
  <2> SUFFICES ASSUME ConfigTypeOK, AckInv, [ConfigNext]_configVars PROVE AckInv'
    OBVIOUS
  <2>1. CASE UNCHANGED configVars
    BY <2>1 DEF AckInv, configVars
  <2>2. CASE ConfigReboot
    BY <2>2, RestoredActive DEF ConfigReboot, AckInv, ConfigTypeOK
  <2> QED
    BY <2>1, <2>2, ConfigStepAck DEF ConfigNext
<1> QED
  BY <1>1, <1>2, ConfigTypeCorrect, PTL DEF ConfigSpec

\* The four writes go to the port of the message, whose id is new to it; no
\* other step writes (nvs_manager_set_port_config()).
LEMMA RewriteStep ==
  ASSUME ConfigTypeOK, AckInv, ConfigNext,
         NEW p \in Ports, nvs'[p] # nvs[p]
  PROVE  p = msg.port /\ msg.id # sPorts[p].id
<1>1. CASE SetId \/ SetSched \/ SetThr \/ SetDur
  BY <1>1 DEF SetId, SetSched, SetThr, SetDur, NvsSet, AckInv, ConfigTypeOK
<1>2. CASE ~(SetId \/ SetSched \/ SetThr \/ SetDur)
  <2>1. nvs' = nvs
    BY <1>2
       DEF ConfigNext, ConfigReboot, ConfigStep, DataBegin, DataEnd, DataTooLong, AckSent,
           Handle, Wake, MissingId, ReadId, MissingPort, ReadPort, ReadThreshold,
           ReadDuration, ReadSchedule, Read, InvalidValues, FlashDone, AlreadyApplied,
           StartSave, SaveFails, ApplyThreshold, ApplyDuration, ParseSlot, Activate, AckApplied
  <2> QED
    BY <2>1
<1> QED
  BY <1>1, <1>2

\* Idempotency for any messages, redelivered in any order, and any power
\* failures: a port's keys are only written for an id it does not run
\* (mqtt_manager.c:766-773).
THEOREM NoRewriteCorrect == ConfigSpec => NoRewrite
<1>1. ConfigTypeOK /\ AckInv /\ [ConfigNext]_configVars =>
        [\A p \in Ports : nvs'[p] # nvs[p] => p = msg.port /\ msg.id # sPorts[p].id]_configVars
  BY RewriteStep
<1> QED
  BY <1>1, AckInvCorrect, PTL DEF ConfigSpec, NoRewrite

\* The outbox only grows by publish_config_ack(), and the last ack is then
\* the one it was given.
LEMMA PublishedLast ==
  ASSUME ConfigTypeOK, NEW port, NEW id, NEW status, Publish(port, id, status)
  PROVE  outbox'[Len(outbox')] = [port |-> port, id |-> id, status |-> status]
<1> DEFINE a == [port |-> port, id |-> id, status |-> status]
<1>1. outbox \in Seq(Ack \cup {a})
  BY DEF ConfigTypeOK
<1>2. outbox' = Append(outbox, a)
  BY DEF Publish
<1> QED
  BY <1>1, <1>2, AppendProperties

\* The published ack names a port that runs its id.
LEMMA AckStep ==
  ASSUME ConfigTypeOK, AckInv, ConfigNext, Len(outbox') > Len(outbox),
         NEW a, a = outbox'[Len(outbox')], a.status = "applied"
  PROVE  /\ a.port \in Ports
         /\ sPorts[a.port].id = a.id
         /\ a.id # NoId => sPorts[a.port].active
         /\ sPorts' = sPorts
<1>1. CASE MissingId \/ MissingPort
  <2>1. PICK id : Publish(1, id, "rejected")
    BY <1>1 DEF MissingId, MissingPort
  <2>2. a = [port |-> 1, id |-> id, status |-> "rejected"]
    BY <2>1, PublishedLast
  <2> QED
    BY <2>2
<1>2. CASE InvalidValues
  <2>1. Publish(msg.port, msg.id, "rejected")
    BY <1>2 DEF InvalidValues
  <2>2. a = [port |-> msg.port, id |-> msg.id, status |-> "rejected"]
    BY <2>1, PublishedLast
  <2> QED
    BY <2>2
<1>3. CASE AckApplied
  <2>1. Publish(msg.port, msg.id, "applied")
    BY <1>3 DEF AckApplied
  <2>2. a = [port |-> msg.port, id |-> msg.id, status |-> "applied"]
    BY <2>1, PublishedLast
  <2>3. msg.port \in Ports /\ sPorts[msg.port].id = msg.id
    BY <1>3 DEF AckApplied, AckInv, ConfigTypeOK, Indexing
  <2>4. msg.id # NoId => sPorts[msg.port].active
    BY <1>3, <2>3 DEF AckApplied, AckInv
  <2> QED
    BY <1>3, <2>2, <2>3, <2>4 DEF AckApplied
<1>4. CASE AckSent \/ ConfigReboot
  <2>1. outbox \in Seq(Ack) /\ Len(outbox) \in Nat
    BY LenProperties DEF ConfigTypeOK
  <2>2. CASE AckSent
    BY <2>1, <2>2, HeadTailProperties DEF AckSent
  <2>3. CASE ConfigReboot
    BY <2>1, <2>3 DEF ConfigReboot
  <2> QED
    BY <1>4, <2>2, <2>3
<1>5. CASE ~(MissingId \/ MissingPort \/ InvalidValues \/ AckApplied \/ AckSent \/ ConfigReboot)
  <2>1. outbox' = outbox
    BY <1>5
       DEF ConfigNext, ConfigStep, DataBegin, DataEnd, DataTooLong, Handle, Wake, ReadId,
           ReadPort, ReadThreshold, ReadDuration, ReadSchedule, Read, FlashDone, AlreadyApplied,
           StartSave, SetId, SetSched, SetThr, SetDur,
           NvsSet, SaveFails, ApplyThreshold, ApplyDuration, ParseSlot, Activate
  <2>2. Len(outbox) \in Nat
    BY LenProperties DEF ConfigTypeOK
  <2> QED
    BY <2>1, <2>2
<1> QED
  BY <1>1, <1>2, <1>3, <1>4, <1>5

\* Whatever arrives and overwrites the buffer meanwhile, an "applied" ack
\* names a port that has that id and is fully parsed, and active unless the id
\* is the empty one (mqtt_manager.c:766-770, :789).
THEOREM AppliedMeansRunningCorrect == ConfigSpec => AppliedMeansRunning
<1>1. ConfigTypeOK /\ AckInv /\ [ConfigNext]_configVars =>
        [Len(outbox') > Len(outbox) =>
           LET a == outbox'[Len(outbox')] IN
             a.status = "applied" => /\ a.port \in Ports
                                     /\ sPorts[a.port].id = a.id
                                     /\ a.id # NoId => sPorts[a.port].active
                                     /\ sPorts' = sPorts]_configVars
  BY AckStep
<1> QED
  BY <1>1, AckInvCorrect, PTL DEF ConfigSpec, AppliedMeansRunning
=============================================================================
