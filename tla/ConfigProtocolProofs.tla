------------------------- MODULE ConfigProtocolProofs -------------------------
(***************************************************************************)
(* Theorems about ConfigProtocol, for any ports, configs and faults: what    *)
(* the device runs and what the database says of it.                         *)
(***************************************************************************)
EXTENDS ConfigProtocol, SequenceTheorems, TLAPS

\* The types of what holds no message; those of the rest follow from KnownInv.
DeviceType ==
  /\ phase \in Phases /\ boots \in 0..MaxBoots
  /\ job \in [id : OptionalIds, port : Int]
  /\ phase \in {"accepted", "applied"} => job.port \in Ports
  /\ running \in [Ports -> OptionalIds] /\ saved \in [Ports -> OptionalIds]
  /\ ran \subseteq OptionalIds

ServerType ==
  /\ post \in [Configs -> PostStates] /\ row \in [Configs -> Statuses]
  /\ ackedAt \subseteq Configs
  /\ ack \in [id : OptionalIds, status : Statuses, loaded : Statuses]
  /\ client \in {"down", "connected", "listening"} /\ link \in {"up", "down"}
  /\ linkFaults \in 0..MaxLinkFaults /\ serverFaults \in 0..MaxServerFaults
  /\ published \subseteq Configs /\ latest \in [Ports -> Configs \cup {NoId}]

FlagType ==
  bit \in BOOLEAN /\ subscribed \in BOOLEAN /\ started \in BOOLEAN /\ asked \in BOOLEAN

\* What is in the buffer and on the way was published.  What the handler read
\* while the buffer was overwritten may be no config at all, and the port may
\* be that of another message; but a config's id is that of a published one.
\* What an ack says is applied was run.
Known(id) == id \in Configs => id \in published
KnownHeads == {HeadOf(MessageOf(c)) : c \in published} \cup {NoHead}
KnownAcks == {a \in AckMessage : Known(a.id) /\ (a.status = "applied" => a.id \in ran)}
KnownPubacks == {Puback(c) : c \in published}
KnownRun(ids) == \A p \in Ports : Known(ids[p])

\* The row, its request and the message.
RequestInv ==
  /\ \A c \in Configs : post[c] = "idle" <=> row[c] = "none"
  /\ \A c \in Configs : post[c] \in {"puback", "mark", "done"} => c \in published
  /\ \A c \in published : row[c] # "none"

KnownInv ==
  /\ retained \in published \cup {None} /\ toDevice \in Seq(published)
  /\ copying \in {MessageOf(c) : c \in published} \cup {None}
  /\ head \in KnownHeads /\ Known(job.id)
  /\ KnownRun(running) /\ KnownRun(saved)
  /\ phase = "applied" => job.id \in ran
  /\ outbox \in Seq(KnownAcks) /\ toServer \in Seq(KnownAcks \cup KnownPubacks)
  /\ ack # NoAck => /\ Known(ack.id) /\ (ack.loaded # "none" <=> ack.id \in Configs)
                    /\ ack.status \in {"applied", "rejected"}
                    /\ ack.status = "applied" => ack.id \in ran

\* A subscribed device has been sent the retained message last of all, and has
\* it in its buffer, its handler or its config by now.
AckedOrUnderway(c) ==
  \/ c \in ackedAt \/ ack.id = c
  \/ \E i \in 1..Len(outbox) : outbox[i].id = c
  \/ \E i \in 1..Len(toServer) : toServer[i].id = c /\ toServer[i].status # "puback"

Handled(c) ==
  \/ copying = MessageOf(c)
  \/ /\ copying = None /\ head = HeadOf(MessageOf(c))
     /\ \/ bit \/ phase = "woken"
        \/ phase = "named" /\ job.id = c
        \/ phase \in {"taken", "accepted"} /\ job = head
        \/ phase = "applied" /\ job = head /\ running[PortOf[c]] = c
        \/ phase = "idle" /\ running[PortOf[c]] = c /\ (serverFaults = 0 => AckedOrUnderway(c))

SessionInv ==
  /\ link = "up" /\ started /\ ~asked => subscribed
  /\ serverFaults = 0 => client = "listening"
  /\ subscribed /\ retained # None /\ toDevice # <<>> => toDevice[Len(toDevice)] = retained
  /\ subscribed /\ retained \in Fitting /\ toDevice = <<>> => Handled(retained)

ProtocolInv ==
  /\ DeviceType /\ ServerType /\ FlagType
  /\ KnownInv /\ RequestInv /\ AppliedWasRun /\ PushedIsPublished /\ SessionInv

----------------------------------------------------------------------------
(* Queues.                                                                   *)

\* Two parts, one after the other.
LEMMA Joint ==
  ASSUME NEW S, NEW p \in Seq(S), NEW q \in Seq(S)
  PROVE  /\ p \o q \in Seq(S) /\ Len(p \o q) = Len(p) + Len(q)
         /\ \A k \in 1..Len(p) : (p \o q)[k] = p[k]
         /\ \A k \in 1..Len(q) : (p \o q)[Len(p) + k] = q[k]
<1> DEFINE r == p \o q
<1>1. /\ r \in Seq(S) /\ Len(r) = Len(p) + Len(q)
      /\ \A k \in 1..Len(p) + Len(q) : r[k] = IF k <= Len(p) THEN p[k] ELSE q[k - Len(p)]
  BY ConcatProperties, Zenon
<1> HIDE DEF r
<1>2. Len(p) \in Nat /\ Len(q) \in Nat
  BY LenProperties
<1>3. ASSUME NEW k \in 1..Len(q) PROVE r[Len(p) + k] = q[k]
  <2>1. Len(p) + k \in 1..Len(p) + Len(q) /\ ~(Len(p) + k <= Len(p)) /\ (Len(p) + k) - Len(p) = k
    BY <1>2
  <2> QED
    BY <1>1, <2>1
<1>4. ASSUME NEW k \in 1..Len(p) PROVE r[k] = p[k]
  BY <1>1, <1>2
<1> QED
  BY <1>1, <1>3, <1>4, Zenon DEF r

\* One element leaves the queue, wherever it stands; the others stay.
LEMMA Removed ==
  ASSUME NEW S, NEW s \in Seq(S), NEW i \in 1..Len(s)
  PROVE  LET r == SubSeq(s, 1, i - 1) \o SubSeq(s, i + 1, Len(s)) IN
           /\ r \in Seq(S)
           /\ \A j \in 1..Len(s) : j # i => \E k \in 1..Len(r) : r[k] = s[j]
<1> DEFINE p == SubSeq(s, 1, i - 1)
           q == SubSeq(s, i + 1, Len(s))
           r == p \o q
<1>0. Len(s) \in Nat /\ \A j \in 1..Len(s) : s[j] \in S
  BY LenProperties, ElementOfSeq
<1>1. p \in Seq(S) /\ Len(p) = i - 1 /\ \A k \in 1..i-1 : p[k] = s[k]
  <2> HIDE DEF r
  <2> QED
    BY <1>0, SubSeqProperties
<1>2. q \in Seq(S) /\ Len(q) = Len(s) - i /\ \A k \in 1..Len(s)-i : q[k] = s[i + k]
  <2> HIDE DEF r
  <2> QED
    BY <1>0, SubSeqProperties
<1> HIDE DEF p, q
<1>3. /\ r \in Seq(S) /\ Len(r) = Len(p) + Len(q)
      /\ \A k \in 1..Len(p) : r[k] = p[k]
      /\ \A k \in 1..Len(q) : r[Len(p) + k] = q[k]
  <2>1. p \in Seq(S) /\ q \in Seq(S)
    BY <1>1, <1>2
  <2> QED
    BY <2>1, Joint
<1> HIDE DEF r
<1>4. /\ Len(r) = Len(s) - 1
      /\ \A k \in 1..i-1 : r[k] = s[k]
      /\ \A k \in 1..Len(s)-i : r[(i - 1) + k] = s[i + k]
  BY <1>0, <1>1, <1>2, <1>3
<1>5. ASSUME NEW j \in 1..Len(s), j # i PROVE \E k \in 1..Len(r) : r[k] = s[j]
  <2>1. CASE j < i
    <3>1. j \in 1..Len(r) /\ r[j] = s[j]
      BY <1>0, <1>4, <2>1
    <3> QED
      BY <3>1
  <2>2. CASE j > i
    <3>1. j - i \in 1..Len(s)-i /\ (i - 1) + (j - i) = j - 1 /\ i + (j - i) = j
      BY <1>0, <2>2
    <3>2. r[j - 1] = s[j]
      BY <1>4, <3>1
    <3>3. j - 1 \in 1..Len(r)
      BY <1>0, <1>4, <2>2
    <3> QED
      BY <3>2, <3>3
  <2> QED
    BY <1>0, <1>5, <2>1, <2>2
<1> QED
  BY <1>3, <1>5, Zenon DEF p, q, r

\* An element joins the queue.
LEMMA Joined ==
  ASSUME NEW S, NEW s \in Seq(S), NEW x \in S, NEW r, r = Append(s, x)
  PROVE  /\ r \in Seq(S) /\ r # <<>> /\ Len(r) = Len(s) + 1 /\ r[Len(r)] = x
         /\ \A j \in 1..Len(s) : j \in 1..Len(r) /\ r[j] = s[j]
<1>1. Len(s) \in Nat
  BY LenProperties
<1>2. /\ r \in Seq(S) /\ Len(r) = Len(s) + 1 /\ r[Len(s) + 1] = x
      /\ \A j \in 1..Len(s) : r[j] = s[j]
  BY AppendProperties
<1> QED
  BY <1>1, <1>2, EmptySeq

\* The first element leaves.
LEMMA Left ==
  ASSUME NEW S, NEW s \in Seq(S), s # <<>>, NEW r, r = Tail(s)
  PROVE  /\ r \in Seq(S) /\ Head(s) \in S
         /\ \A j \in 1..Len(s) : s[j] = Head(s) \/ \E k \in 1..Len(r) : r[k] = s[j]
         /\ r # <<>> => r[Len(r)] = s[Len(s)]
         /\ r = <<>> => s[Len(s)] = Head(s)
<1>1. /\ Len(s) \in Nat \ {0} /\ r \in Seq(S) /\ Head(s) = s[1] /\ Head(s) \in S
      /\ Len(r) = Len(s) - 1 /\ \A k \in 1..Len(r) : r[k] = s[k + 1]
  BY HeadTailProperties, EmptySeq
<1>2. ASSUME NEW j \in 1..Len(s), j # 1 PROVE \E k \in 1..Len(r) : r[k] = s[j]
  <2>1. j - 1 \in 1..Len(r) /\ r[j - 1] = s[j]
    BY <1>1, <1>2
  <2> QED
    BY <2>1
<1>3. r # <<>> => r[Len(r)] = s[Len(s)]
  <2>1. r # <<>> => Len(r) \in 1..Len(r)
    BY <1>1, EmptySeq
  <2> QED
    BY <1>1, <2>1
<1>4. r = <<>> => Len(s) = 1
  <2>1. r = <<>> => Len(r) = 0
    BY EmptySeq
  <2> QED
    BY <1>1, <2>1
<1> QED
  BY <1>1, <1>2, <1>3, <1>4

----------------------------------------------------------------------------
(* Configs, their messages and what is known of them.                        *)

\* A config, its message and its head stand for each other.
LEMMA ConfigFacts ==
  ASSUME NEW c \in Configs
  PROVE  /\ MessageOf(c) \in Heads /\ MessageOf(c) # None
         /\ c # NoId /\ c # None /\ c \in OptionalIds
         /\ MessageOf(c).id = c /\ MessageOf(c).port = PortOf[c]
         /\ MessageOf(c).fits <=> c \in Fitting
         /\ PortOf[c] \in Ports /\ PortOf[c] \in Int /\ PortOf[c] # None
         /\ HeadOf(MessageOf(c)) = [id |-> c, port |-> PortOf[c]]
         /\ HeadOf(MessageOf(c)).id = c /\ HeadOf(MessageOf(c)).port = PortOf[c]
<1>1. PortOf[c] \in Ports /\ PortOf[c] \in Nat
  BY PortOfAssumption, DevicePortsAssumption
<1>2. MessageOf(c) \in Heads /\ MessageOf(c) # None
  BY ServerAssumption, HeadsAssumption
<1>3. /\ MessageOf(c).id = c /\ MessageOf(c).port = PortOf[c]
      /\ MessageOf(c).fits = (c \in Fitting)
  BY DEF MessageOf
<1>4. HeadOf(MessageOf(c)) = [id |-> c, port |-> PortOf[c]]
  BY <1>3 DEF HeadOf
<1>5. MessageOf(c).fits <=> c \in Fitting
  BY <1>3, Zenon
<1>6. /\ c # NoId /\ c # None /\ c \in OptionalIds
      /\ PortOf[c] # None /\ PortOf[c] \in Int
  BY <1>1, DeviceIdsAssumption, ConfigsAssumption DEF OptionalIds
<1> QED
  BY <1>1, <1>2, <1>3, <1>4, <1>5, <1>6

\* What is known stays known.
LEMMA KnownGrows ==
  ASSUME published \subseteq published', ran \subseteq ran'
  PROVE  /\ KnownHeads \subseteq KnownHeads' /\ KnownAcks \subseteq KnownAcks'
         /\ KnownPubacks \subseteq KnownPubacks' /\ \A id : Known(id) => Known(id)'
BY DEF KnownHeads, KnownAcks, KnownPubacks, Known

\* A head in the buffer.
LEMMA KnownHeadFacts ==
  ASSUME published \subseteq Configs, NEW h \in KnownHeads
  PROVE  /\ h.id \in published \cup {None} /\ h.port \in Int \cup {None}
         /\ h \in {HeadOf(m) : m \in Heads} \cup {NoHead}
<1>1. CASE h = NoHead
  BY <1>1 DEF NoHead
<1>2. ASSUME NEW c \in published, h = HeadOf(MessageOf(c))
      PROVE  /\ h.id \in published \cup {None} /\ h.port \in Int \cup {None}
             /\ h \in {HeadOf(m) : m \in Heads} \cup {NoHead}
  <2>1. c \in Configs
    OBVIOUS
  <2> QED
    BY <1>2, <2>1, ConfigFacts
<1> QED
  BY <1>1, <1>2 DEF KnownHeads

\* What the handler may read of the buffer, also while it is overwritten: an
\* id that is a config's is that of a published one.
LEMMA VisibleFacts ==
  ASSUME TypeOK, KnownInv, NEW h \in Visible
  PROVE  h.id \in OptionalIds \cup {None} /\ h.port \in Int \cup {None} /\ Known(h.id)
<1>1. published \subseteq Configs /\ None \notin Configs
  BY DeviceIdsAssumption, ConfigsAssumption DEF TypeOK
<1>2. CASE h = head
  <2>1. h.id \in published \cup {None} /\ h.port \in Int \cup {None}
    BY <1>1, <1>2, KnownHeadFacts DEF KnownInv
  <2> QED
    BY <1>1, <2>1, ConfigsAssumption DEF Known, OptionalIds
<1>3. CASE copying # None /\ h = HeadOf(copying)
  <2>1. PICK c \in published : copying = MessageOf(c)
    BY <1>3 DEF KnownInv
  <2>2. h.id = c /\ h.port \in Int /\ c \in OptionalIds
    BY <1>1, <1>3, <2>1, ConfigFacts
  <2> QED
    BY <2>2 DEF Known
<1>4. CASE h \in Mixed
  BY <1>4, MixedAssumption, RandomIdsAssumption DEF BufferHead, OptionalIds, Known
<1> QED
  BY <1>2, <1>3, <1>4 DEF Visible

----------------------------------------------------------------------------
(* Only what was published is on its way, in the buffer, run or acknowledged. *)

\* A step that touches nothing of it.
LEMMA KnownFrame ==
  ASSUME KnownInv, published' = published, ran' = ran,
         UNCHANGED <<deviceVars, ack, retained, toDevice, toServer>>
  PROVE  KnownInv'
BY DEF KnownInv, KnownHeads, KnownAcks, KnownPubacks, KnownRun, Known, deviceVars

\* The steps of the server.
LEMMA KnownServer ==
  ASSUME TypeOK, KnownInv, RequestInv,
         \/ \E c \in Configs : Insert(c) \/ PostStep(c)
         \/ ServerStep
  PROVE  KnownInv'
<1> USE DEF dbVars, serverVars, brokerVars, linkVars, faults, ghostVars
<1>1. CASE \/ \E c \in Configs : Insert(c) \/ PublishFails(c) \/ MarkPushed(c)
           \/ Connect \/ Listen
  BY <1>1, KnownFrame DEF Insert, PublishFails, MarkPushed, Connect, Listen
<1>2. ASSUME NEW c \in Configs, Publish(c) PROVE KnownInv'
  <2>1. /\ retained' = c /\ toServer' = Append(toServer, Puback(c))
        /\ toDevice' = IF subscribed THEN Append(toDevice, c) ELSE toDevice
        /\ published' = published \cup {c} /\ ran' = ran
        /\ UNCHANGED <<copying, head, bit, phase, job, running, saved, outbox, ack>>
    BY <1>2 DEF Publish, deviceVars
  <2>2. /\ KnownHeads \subseteq KnownHeads' /\ KnownAcks \subseteq KnownAcks'
        /\ KnownPubacks \subseteq KnownPubacks' /\ Puback(c) \in KnownPubacks'
    BY <2>1, KnownGrows DEF KnownPubacks
  <2>3. toServer \in Seq(KnownAcks' \cup KnownPubacks') /\ toDevice \in Seq(published')
        /\ outbox \in Seq(KnownAcks')
    BY <2>1, <2>2, SeqMonotonic DEF KnownInv
  <2>4. toServer' \in Seq(KnownAcks' \cup KnownPubacks') /\ toDevice' \in Seq(published')
    BY <2>1, <2>2, <2>3, Joined
  <2>5. /\ copying' \in {MessageOf(d) : d \in published'} \cup {None}
        /\ head' \in KnownHeads' /\ Known(job.id)'
    BY <2>1, <2>2 DEF KnownInv, Known
  <2>6. /\ KnownRun(running)' /\ KnownRun(saved)'
        /\ ack' # NoAck => Known(ack.id)'
    BY <2>1 DEF KnownInv, KnownRun, Known
  <2> QED
    BY <2>1, <2>3, <2>4, <2>5, <2>6 DEF KnownInv
<1>3. ASSUME NEW c \in Configs, PublishConfirmed(c) PROVE KnownInv'
  <2> DEFINE S == KnownAcks \cup KnownPubacks
  <2>1. toServer \in Seq(S)
    BY DEF KnownInv
  <2>2. PICK i \in 1..Len(toServer) :
          toServer' = SubSeq(toServer, 1, i - 1) \o SubSeq(toServer, i + 1, Len(toServer))
    BY <1>3, Zenon DEF PublishConfirmed
  <2> HIDE DEF S
  <2>3. SubSeq(toServer, 1, i - 1) \o SubSeq(toServer, i + 1, Len(toServer)) \in Seq(S)
    BY <2>1, Removed
  <2>4. toServer' \in Seq(S)
    BY <2>2, <2>3, Zenon
  <2>5. UNCHANGED <<deviceVars, ack, retained, toDevice>> /\ published' = published /\ ran' = ran
    BY <1>3, Zenon DEF PublishConfirmed
  <2> HIDE <2>2, <1>3
  <2> QED
    BY <2>4, <2>5 DEF S, KnownInv, KnownHeads, KnownAcks, KnownPubacks, KnownRun, Known,
                      deviceVars
<1>4. CASE LoadRow
  <2> DEFINE S == KnownAcks \cup KnownPubacks
             a == Head(toServer)
  <2>1. /\ toServer # <<>> /\ a.status # "puback" /\ toServer' = Tail(toServer)
        /\ ack' = IF a.id = NoId THEN NoAck
                  ELSE [id |-> a.id, status |-> a.status,
                        loaded |-> IF a.id \in Configs THEN row[a.id] ELSE "none"]
        /\ UNCHANGED <<deviceVars, retained, toDevice>> /\ published' = published /\ ran' = ran
    BY <1>4 DEF LoadRow
  <2>2. toServer' \in Seq(S) /\ a \in S
    BY <2>1, Left DEF KnownInv
  <2>3. a \in KnownAcks
    BY <2>1, <2>2 DEF KnownPubacks, Puback
  <2>4. Known(a.id) /\ a.status \in {"applied", "rejected"}
        /\ (a.status = "applied" => a.id \in ran)
    BY <2>3 DEF KnownAcks, AckMessage
  <2>5. ack' # NoAck => /\ Known(ack'.id) /\ (ack'.loaded # "none" <=> ack'.id \in Configs)
                        /\ ack'.status \in {"applied", "rejected"}
                        /\ ack'.status = "applied" => ack'.id \in ran
    BY <2>1, <2>4 DEF RequestInv, Known
  <2> QED
    BY <2>1, <2>2, <2>5 DEF KnownInv, KnownHeads, KnownAcks, KnownPubacks, KnownRun, Known,
                            deviceVars
<1>5. CASE CommitAck
  <2>1. /\ ack' = NoAck /\ UNCHANGED <<deviceVars, retained, toDevice, toServer>>
        /\ published' = published /\ ran' = ran
    BY <1>5 DEF CommitAck
  <2> QED
    BY <2>1 DEF KnownInv, KnownHeads, KnownAcks, KnownPubacks, KnownRun, Known, deviceVars

<1> QED
  BY <1>1, <1>2, <1>3, <1>4, <1>5 DEF PostStep, ServerStep

\* The steps of the connection.
LEMMA KnownLink ==
  ASSUME TypeOK, KnownInv, LinkStep
  PROVE  KnownInv'
<1> USE DEF dbVars, serverVars, brokerVars, linkVars, faults, ghostVars, KeepServer
<1>1. CASE StartRun \/ LinkUp
  BY <1>1, KnownFrame DEF StartRun, LinkUp
<1>2. CASE Subscribe
  <2>1. /\ toDevice' = IF retained = None THEN toDevice ELSE Append(toDevice, retained)
        /\ UNCHANGED <<deviceVars, ack, retained, toServer>> /\ published' = published /\ ran' = ran
    BY <1>2 DEF Subscribe
  <2>2. toDevice' \in Seq(published)
    BY <2>1, Joined DEF KnownInv
  <2> QED
    BY <2>1, <2>2 DEF KnownInv, KnownHeads, KnownAcks, KnownPubacks, KnownRun, Known,
                      deviceVars
<1>3. CASE Receive
  <2> DEFINE c == Head(toDevice)
  <2>1. /\ toDevice # <<>> /\ toDevice' = Tail(toDevice)
        /\ CopyBegin(MessageOf(c)) \/ CopyNothing(MessageOf(c))
        /\ UNCHANGED <<ack, retained, toServer>> /\ published' = published /\ ran' = ran
    BY <1>3 DEF Receive
  <2>2. toDevice' \in Seq(published) /\ c \in published
    BY <2>1, Left DEF KnownInv
  <2>3. /\ copying' \in {MessageOf(d) : d \in published} \cup {None}
        /\ head' \in KnownHeads
        /\ UNCHANGED <<phase, job, running, saved, outbox>>
    BY <2>1, <2>2 DEF CopyBegin, CopyNothing, KnownInv, KnownHeads
  <2> QED
    BY <2>1, <2>2, <2>3 DEF KnownInv, KnownHeads, KnownAcks, KnownPubacks, KnownRun, Known
<1>4. CASE AckOut
  <2>1. /\ outbox # <<>> /\ outbox' = Tail(outbox) /\ toServer' = Routed(Head(outbox))
        /\ UNCHANGED <<copying, head, phase, job, running, saved>>
        /\ UNCHANGED <<ack, retained, toDevice>> /\ published' = published /\ ran' = ran
    BY <1>4 DEF AckOut, SendAck
  <2>2. outbox' \in Seq(KnownAcks) /\ Head(outbox) \in KnownAcks
    BY <2>1, Left DEF KnownInv
  <2>3. toServer' \in Seq(KnownAcks \cup KnownPubacks)
    BY <2>1, <2>2, Joined DEF KnownInv, Routed
  <2> QED
    BY <2>1, <2>2, <2>3 DEF KnownInv, KnownHeads, KnownAcks, KnownPubacks, KnownRun, Known
<1> QED
  BY <1>1, <1>2, <1>3, <1>4 DEF LinkStep

\* The steps of the handler.
LEMMA KnownDevice ==
  ASSUME TypeOK, KnownInv, DeviceStep
  PROVE  KnownInv'
<1> USE DEF dbVars, serverVars, brokerVars, linkVars, faults, ghostVars
<1>1. /\ CopyEnd \/ MainStep
      /\ ran' = ran \cup {running'[p] : p \in Ports}
      /\ UNCHANGED <<ack, retained, toDevice, toServer>> /\ published' = published
  BY DEF DeviceStep
<1>2. /\ KnownHeads' = KnownHeads /\ KnownAcks \subseteq KnownAcks'
      /\ KnownPubacks' = KnownPubacks /\ \A id : Known(id)' <=> Known(id)
  BY <1>1 DEF KnownHeads, KnownAcks, KnownPubacks, Known
<1>3. toServer' \in Seq(KnownAcks' \cup KnownPubacks') /\ outbox \in Seq(KnownAcks')
  BY <1>1, <1>2, SeqMonotonic DEF KnownInv
<1>4. /\ job \in [id : OptionalIds, port : Int] /\ Known(job.id) /\ Known(NoId)
      /\ phase \in {"accepted", "applied"} => job.port \in Ports
      /\ running \in [Ports -> OptionalIds] /\ saved \in [Ports -> OptionalIds]
  BY DeviceIdsAssumption, ConfigsAssumption DEF KnownInv, TypeOK, Known
<1>5. ASSUME copying' \in {copying, None}, head' \in KnownHeads, Known(job'.id),
             KnownRun(running'), KnownRun(saved'),
             phase' = "applied" => job'.id \in ran',
             outbox' \in Seq(KnownAcks')
      PROVE  KnownInv'
  BY <1>1, <1>2, <1>3, <1>5 DEF KnownInv, KnownRun, Known
<1>6. CASE WakeUp \/ TakeBadValue \/ BackToIdle \/ Accept
  <2>1. UNCHANGED <<copying, head, running, saved, outbox>>
    BY <1>6 DEF WakeUp, TakeBadValue, BackToIdle, Accept
  <2>2. Known(job'.id) /\ phase' # "applied"
    BY <1>4, <1>6 DEF WakeUp, TakeBadValue, BackToIdle, Accept, NoJob
  <2> QED
    BY <1>3, <1>5, <2>1, <2>2 DEF KnownInv
<1>7. CASE CopyEnd
  <2>1. /\ copying # None /\ copying' = None /\ head' = HeadOf(copying)
        /\ UNCHANGED <<phase, job, running, saved, outbox>>
    BY <1>7 DEF CopyEnd
  <2>2. head' \in KnownHeads
    BY <2>1 DEF KnownInv, KnownHeads
  <2> QED
    BY <1>1, <1>3, <1>4, <1>5, <2>1, <2>2 DEF KnownInv
<1>8. CASE TakeId \/ TakePort
  <2>1. /\ UNCHANGED <<copying, head, running, saved, outbox>> /\ phase' # "applied"
        /\ \E h \in Visible : \/ job' = [job EXCEPT !.id = h.id]
                              \/ job' = [job EXCEPT !.port = h.port]
    BY <1>8 DEF TakeId, TakePort
  <2>2. Known(job'.id)
    BY <1>4, <2>1, VisibleFacts
  <2> QED
    BY <1>3, <1>5, <2>1, <2>2 DEF KnownInv
<1>9. ASSUME NEW port \in Int, NEW id \in OptionalIds, Known(id),
             NEW status \in {"applied", "rejected"}, status = "applied" => id \in ran,
             PublishAck(port, id, status)
      PROVE  outbox' \in Seq(KnownAcks')
  <2> DEFINE a == [port |-> port, id |-> id, status |-> status]
  <2>1. outbox' = Append(outbox, a)
    BY <1>9 DEF PublishAck
  <2>2. a \in KnownAcks'
    BY <1>1, <1>2, <1>9 DEF KnownAcks, AckMessage, OptionalIds
  <2> HIDE DEF a
  <2> QED
    BY <1>3, <2>1, <2>2, Joined
<1>10. CASE RejectId \/ RejectPort \/ RejectValues
  <2>1. \/ PublishAck(1, NoId, "rejected") \/ PublishAck(1, job.id, "rejected")
        \/ PublishAck(job.port, job.id, "rejected")
    BY <1>10 DEF RejectId, RejectPort, RejectValues
  <2>2. outbox' \in Seq(KnownAcks')
    BY <1>4, <1>9, <2>1 DEF OptionalIds
  <2>3. UNCHANGED <<copying, head, job, running, saved>> /\ phase' = "flash"
    BY <1>10 DEF RejectId, RejectPort, RejectValues
  <2> QED
    BY <1>5, <2>2, <2>3 DEF KnownInv
<1>11. CASE RunsAlready
  <2>1. /\ job.port \in Ports /\ running[job.port] = job.id
        /\ UNCHANGED <<copying, head, job, running, saved, outbox>>
    BY <1>11 DEF RunsAlready
  <2>2. job'.id \in ran'
    BY <1>1, <2>1
  <2> QED
    BY <1>3, <1>5, <2>1, <2>2 DEF KnownInv
<1>12. CASE Save
  <2>1. /\ saved' = [saved EXCEPT ![job.port] = job.id]
        /\ UNCHANGED <<copying, head, phase, job, running, outbox>>
    BY <1>12 DEF Save
  <2>2. KnownRun(saved')
    BY <1>4, <2>1 DEF KnownInv, KnownRun
  <2> QED
    BY <1>1, <1>3, <1>5, <2>1, <2>2 DEF KnownInv
<1>13. CASE Apply
  <2>1. /\ running' = [running EXCEPT ![job.port] = job.id] /\ phase = "accepted"
        /\ UNCHANGED <<copying, head, job, saved, outbox>>
    BY <1>13 DEF Apply
  <2>2. KnownRun(running') /\ job'.id \in ran'
    BY <1>1, <1>4, <2>1 DEF KnownInv, KnownRun
  <2> QED
    BY <1>3, <1>5, <2>1, <2>2 DEF KnownInv
<1>14. CASE Acknowledge
  <2>1. /\ phase = "applied" /\ PublishAck(job.port, job.id, "applied")
        /\ phase' = "idle" /\ job' = NoJob
        /\ UNCHANGED <<copying, head, running, saved>>
    BY <1>14 DEF Acknowledge
  <2>2. outbox' \in Seq(KnownAcks')
    BY <1>4, <1>9, <2>1 DEF KnownInv
  <2>3. Known(job'.id)
    BY <1>4, <2>1 DEF NoJob
  <2> QED
    BY <1>5, <2>1, <2>2, <2>3 DEF KnownInv
<1> QED
  BY <1>1, <1>6, <1>7, <1>8, <1>10, <1>11, <1>12, <1>13, <1>14 DEF MainStep

\* The faults.
LEMMA KnownFault ==
  ASSUME KnownInv, FaultStep
  PROVE  KnownInv'
<1> USE DEF dbVars, serverVars, brokerVars, linkVars, faults, ghostVars, KeepServer, SessionEnds
<1>0. published' = published /\ ran' = ran /\ <<>> \in Seq(published) /\ <<>> \in Seq(KnownAcks)
      /\ <<>> \in Seq(KnownAcks \cup KnownPubacks) /\ NoHead \in KnownHeads /\ Known(NoId)
  BY EmptySeq, DeviceIdsAssumption, ConfigsAssumption
     DEF FaultStep, LinkLost, AckRepeated, DeviceRestarts, ServerDisconnected, ServerCrashes,
         BrokerRestarts, KnownHeads, Known
<1>1. ASSUME toDevice' \in {toDevice, <<>>}, retained' \in {retained, None},
             toServer' \in Seq(KnownAcks \cup KnownPubacks), ack' \in {ack, NoAck},
             UNCHANGED deviceVars
      PROVE  KnownInv'
  BY <1>0, <1>1 DEF KnownInv, KnownHeads, KnownAcks, KnownPubacks, KnownRun, Known, deviceVars

<1>2. CASE LinkLost \/ ServerDisconnected \/ ServerCrashes \/ BrokerRestarts
  <2>1. /\ toDevice' \in {toDevice, <<>>} /\ retained' \in {retained, None}
        /\ toServer' \in {toServer, <<>>} /\ ack' \in {ack, NoAck} /\ UNCHANGED deviceVars
    BY <1>2 DEF LinkLost, ServerDisconnected, ServerCrashes, BrokerRestarts
  <2> QED
    BY <1>0, <1>1, <2>1 DEF KnownInv
<1>3. CASE AckRepeated
  <2>1. /\ toDevice' = <<>> /\ outbox # <<>> /\ toServer' = Routed(Head(outbox))
        /\ UNCHANGED <<ack, retained, deviceVars>>
    BY <1>3 DEF AckRepeated
  <2>2. toServer' \in Seq(KnownAcks \cup KnownPubacks)
    BY <2>1, Left, Joined DEF KnownInv, Routed
  <2> QED
    BY <1>1, <2>1, <2>2
<1>4. CASE DeviceRestarts
  <2>1. /\ copying' = None /\ head' = NoHead /\ phase' = "idle" /\ job' = NoJob
        /\ running' = saved /\ saved' = saved /\ outbox' = <<>>
        /\ toDevice' = <<>> /\ UNCHANGED <<ack, retained, toServer>>
    BY <1>4 DEF DeviceRestarts, Restart
  <2> QED
    BY <1>0, <2>1 DEF KnownInv, KnownHeads, KnownAcks, KnownPubacks, KnownRun, Known, NoJob
<1> QED
  BY <1>2, <1>3, <1>4 DEF FaultStep

----------------------------------------------------------------------------
(* Types.                                                                    *)

\* Together they are TypeOK.
LEMMA Types ==
  ASSUME DeviceType, ServerType, FlagType, KnownInv
  PROVE  TypeOK
<1>0. published \subseteq Configs
  BY DEF ServerType
<1>1. copying \in Heads \cup {None}
  BY <1>0, ConfigFacts DEF KnownInv
<1>2. head \in {HeadOf(m) : m \in Heads} \cup {NoHead}
  BY <1>0, KnownHeadFacts DEF KnownInv
<1>3. outbox \in Seq(AckMessage)
  <2>1. KnownAcks \subseteq AckMessage
    BY DEF KnownAcks
  <2> QED
    BY <2>1, SeqMonotonic DEF KnownInv
<1>4. toServer \in Seq(AckMessage \cup PubackMessage)
  <2>1. KnownPubacks \subseteq PubackMessage
    BY <1>0, ConfigFacts DEF KnownPubacks, Puback, PubackMessage
  <2>2. KnownAcks \cup KnownPubacks \subseteq AckMessage \cup PubackMessage
    BY <2>1 DEF KnownAcks
  <2> QED
    BY <2>2, SeqMonotonic DEF KnownInv
<1>5. toDevice \in Seq(Configs) /\ retained \in Configs \cup {None}
  BY <1>0, SeqMonotonic DEF KnownInv
<1> QED
  BY <1>1, <1>2, <1>3, <1>4, <1>5 DEF TypeOK, DeviceType, ServerType, FlagType

\* The flags.
LEMMA StepFlags ==
  ASSUME FlagType, Next
  PROVE  FlagType'
<1> USE DEF dbVars, serverVars, brokerVars, linkVars, faults, ghostVars, deviceVars, KeepServer,
            SessionEnds
<1>1. /\ bit' \in {bit, TRUE, FALSE} /\ subscribed' \in {subscribed, TRUE, FALSE}
      /\ started' \in {started, TRUE, FALSE} /\ asked' \in {asked, started, link = "up", FALSE}
  <2>1. CASE \/ \E c \in Configs : Insert(c) \/ PostStep(c)
             \/ ServerStep
    BY <2>1, Zenon
       DEF PostStep, ServerStep, Insert, Publish, PublishFails, PublishConfirmed, MarkPushed,
           Connect, Listen, LoadRow, CommitAck
  <2>2. CASE LinkStep
    BY <2>2, Zenon
       DEF LinkStep, StartRun, LinkUp, Subscribe, Receive, AckOut, CopyBegin, CopyNothing, SendAck
  <2>3. CASE DeviceStep
    BY <2>3, Zenon
       DEF DeviceStep, MainStep, CopyEnd, WakeUp, RejectId, TakeId, RejectPort, TakePort,
           TakeBadValue, RejectValues, BackToIdle, RunsAlready, Accept, Save, Apply, Acknowledge
  <2>4. CASE FaultStep
    BY <2>4, Zenon
       DEF FaultStep, LinkLost, AckRepeated, DeviceRestarts, ServerDisconnected, ServerCrashes,
           BrokerRestarts, Restart
  <2>5. CASE Quiescent
    BY <2>5, Zenon DEF Quiescent, vars
  <2> QED
    BY <2>1, <2>2, <2>3, <2>4, <2>5 DEF Next
<1>2. (link = "up") \in BOOLEAN
  BY Zenon
<1> QED
  BY <1>1, <1>2, Zenon DEF FlagType

\* What the device runs and stores.
LEMMA StepDeviceType ==
  ASSUME TypeOK, KnownInv, Next
  PROVE  DeviceType'
<1> USE DEF dbVars, serverVars, brokerVars, linkVars, faults, ghostVars, KeepServer
<1>0. DeviceType
  BY DEF TypeOK, DeviceType
<1>1. ASSUME UNCHANGED <<phase, job, running, saved, boots, ran>> PROVE DeviceType'
  BY <1>0, <1>1 DEF DeviceType
<1>2. CASE \/ \E c \in Configs : Insert(c) \/ PostStep(c)
           \/ ServerStep
  <2>1. UNCHANGED deviceVars /\ UNCHANGED ran
    BY <1>2, Zenon
       DEF PostStep, ServerStep, Insert, Publish, PublishFails, PublishConfirmed, MarkPushed,
           Connect, Listen, LoadRow, CommitAck
  <2> QED
    BY <1>1, <2>1 DEF deviceVars
<1>3. CASE LinkStep
  BY <1>1, <1>3
     DEF LinkStep, StartRun, LinkUp, Subscribe, Receive, AckOut, CopyBegin, CopyNothing, SendAck,
         deviceVars
<1>4. CASE DeviceStep
  <2>1. boots' = boots /\ phase' \in Phases
    BY <1>0, <1>4
       DEF DeviceStep, MainStep, CopyEnd, WakeUp, RejectId, TakeId, RejectPort, TakePort,
           TakeBadValue, RejectValues, BackToIdle, RunsAlready, Accept, Save, Apply, Acknowledge,
           DeviceType, Phases
  <2>2. job' \in [id : OptionalIds, port : Int]
    <3>1. CASE TakeId \/ TakePort
      <4>1. \E h \in Visible : \/ h.id # None /\ job' = [job EXCEPT !.id = h.id]
                               \/ h.port # None /\ job' = [job EXCEPT !.port = h.port]
        BY <3>1 DEF TakeId, TakePort
      <4> QED
        BY <1>0, <4>1, VisibleFacts DEF DeviceType
    <3>2. ASSUME ~(TakeId \/ TakePort) PROVE job' \in {job, NoJob}
      BY <1>4, <3>2
         DEF DeviceStep, MainStep, CopyEnd, WakeUp, RejectId, RejectPort, TakeBadValue,
             RejectValues, BackToIdle, RunsAlready, Accept, Save, Apply, Acknowledge
    <3> QED
      BY <1>0, <3>1, <3>2 DEF DeviceType, NoJob, OptionalIds
  <2>3. phase' \in {"accepted", "applied"} => job'.port \in Ports
    BY <1>0, <1>4
       DEF DeviceStep, MainStep, CopyEnd, WakeUp, RejectId, TakeId, RejectPort, TakePort,
           TakeBadValue, RejectValues, BackToIdle, RunsAlready, Accept, Save, Apply, Acknowledge,
           DeviceType
  <2>4. /\ running' = running \/ running' = [running EXCEPT ![job.port] = job.id]
        /\ saved' = saved \/ saved' = [saved EXCEPT ![job.port] = job.id]
    BY <1>4
       DEF DeviceStep, MainStep, CopyEnd, WakeUp, RejectId, TakeId, RejectPort, TakePort,
           TakeBadValue, RejectValues, BackToIdle, RunsAlready, Accept, Save, Apply, Acknowledge
  <2>5. running' \in [Ports -> OptionalIds] /\ saved' \in [Ports -> OptionalIds]
    BY <1>0, <2>4 DEF DeviceType
  <2>6. ran' = ran \cup {running'[p] : p \in Ports}
    BY <1>4 DEF DeviceStep
  <2> QED
    BY <1>0, <2>1, <2>2, <2>3, <2>5, <2>6 DEF DeviceType
<1>5. CASE DeviceRestarts
  BY <1>0, <1>5, DeviceBoundsAssumption 
     DEF DeviceRestarts, Restart, DeviceType, Phases, NoJob, OptionalIds
<1>6. CASE LinkLost \/ AckRepeated \/ ServerDisconnected \/ ServerCrashes \/ BrokerRestarts
           \/ Quiescent
  <2>1. UNCHANGED deviceVars /\ UNCHANGED ran
    BY <1>6
       DEF LinkLost, AckRepeated, ServerDisconnected, ServerCrashes, BrokerRestarts, Quiescent, vars
  <2> QED
    BY <1>1, <2>1 DEF deviceVars
<1> QED
  BY <1>2, <1>3, <1>4, <1>5, <1>6 DEF Next, FaultStep

\* The server, its database and what the broker received.
LEMMA StepServerType ==
  ASSUME TypeOK, KnownInv, Next
  PROVE  ServerType'
<1> USE DEF dbVars, serverVars, brokerVars, linkVars, faults, ghostVars, KeepServer, SessionEnds,
            NoAck, PostStates, Statuses
<1>0. ServerType
  BY DEF TypeOK, ServerType
<1>1. ASSUME NEW c \in Configs, Insert(c) \/ PublishFails(c) \/ PublishConfirmed(c) \/ MarkPushed(c)
      PROVE  ServerType'
  <2>1. /\ \E next \in PostStates : post' = [post EXCEPT ![c] = next]
        /\ row' = row \/ \E status \in Statuses : row' = [row EXCEPT ![c] = status]
        /\ UNCHANGED <<ackedAt, ack, client, link, linkFaults, serverFaults, published, latest>>
    BY <1>1, Zenon DEF Insert, PublishFails, PublishConfirmed, MarkPushed, Step
  <2>2. post' \in [Configs -> PostStates] /\ row' \in [Configs -> Statuses]
    BY <1>0, <2>1 DEF ServerType
  <2> QED
    BY <1>0, <2>1, <2>2 DEF ServerType
<1>2. ASSUME NEW c \in Configs, Publish(c) PROVE ServerType'
  <2>1. /\ post' = [post EXCEPT ![c] = "puback"] /\ latest' = [latest EXCEPT ![PortOf[c]] = c]
        /\ published' = published \cup {c}
        /\ UNCHANGED <<row, ackedAt, ack, client, link, linkFaults, serverFaults>>
    BY <1>2 DEF Publish, Step
  <2> QED
    BY <1>0, <2>1 DEF ServerType, OptionalIds
<1>3. CASE Connect \/ Listen
  BY <1>0, <1>3 DEF Connect, Listen, ServerType
<1>4. CASE LoadRow
  <2> DEFINE a == Head(toServer)
  <2>1. /\ toServer # <<>> /\ a.status # "puback"
        /\ ack' = IF a.id = NoId THEN NoAck
                  ELSE [id |-> a.id, status |-> a.status,
                        loaded |-> IF a.id \in Configs THEN row[a.id] ELSE "none"]
        /\ UNCHANGED <<post, row, ackedAt, client, link, linkFaults, serverFaults, published,
           latest>>
    BY <1>4 DEF LoadRow
  <2>2. a \in AckMessage \cup PubackMessage
    BY <2>1, Left DEF TypeOK
  <2>3. a.id \in OptionalIds /\ a.status \in {"applied", "rejected"}
    BY <2>1, <2>2 DEF AckMessage, PubackMessage, OptionalIds
  <2>4. ack' \in [id : OptionalIds, status : Statuses, loaded : Statuses]
    BY <1>0, <2>1, <2>3 DEF ServerType, OptionalIds
  <2> QED
    BY <1>0, <2>1, <2>4 DEF ServerType
<1>5. CASE CommitAck
  <2>1. /\ \/ UNCHANGED <<row, ackedAt>>
           \/ /\ ack.loaded # "none" /\ ackedAt' = ackedAt \cup {ack.id}
              /\ row' = row \/ row' = [row EXCEPT ![ack.id] = ack.status]
        /\ ack # NoAck /\ ack' = NoAck
        /\ UNCHANGED <<post, client, link, linkFaults, serverFaults, published, latest>>
    BY <1>5 DEF CommitAck
  <2>2. (ack.loaded # "none" => ack.id \in Configs) /\ ack.status \in Statuses
    BY <1>0, <2>1 DEF KnownInv, ServerType
  <2>3. row' \in [Configs -> Statuses] /\ ackedAt' \subseteq Configs
    BY <1>0, <2>1, <2>2 DEF ServerType
  <2> QED
    BY <1>0, <2>1, <2>2, <2>3 DEF ServerType, OptionalIds
<1>6. CASE LinkStep \/ DeviceStep \/ DeviceRestarts \/ Quiescent
  <2>1. UNCHANGED <<post, row, ackedAt, ack, client, published, latest, linkFaults, serverFaults>>
        /\ link' \in {link, "up", "down"}
    BY <1>6
       DEF LinkStep, StartRun, LinkUp, Subscribe, Receive, AckOut, DeviceStep, DeviceRestarts,
           Quiescent, vars
  <2> QED
    BY <1>0, <2>1 DEF ServerType
<1>7. CASE LinkLost \/ AckRepeated \/ ServerDisconnected \/ ServerCrashes \/ BrokerRestarts
  <2>1. linkFaults' \in 0..MaxLinkFaults /\ serverFaults' \in 0..MaxServerFaults
    BY <1>0, <1>7, FaultsAssumption
       DEF LinkLost, AckRepeated, ServerDisconnected, ServerCrashes, BrokerRestarts, LinkFault,
           ServerFault, ServerType
  <2>2. UNCHANGED <<row, ackedAt, published, latest>> /\ ack' \in {ack, NoAck}
        /\ client' \in {client, "down"} /\ link' \in {link, "down"}
    BY <1>7 DEF LinkLost, AckRepeated, ServerDisconnected, ServerCrashes, BrokerRestarts
  <2>3. post' \in [Configs -> PostStates]
    BY <1>0, <1>7
       DEF LinkLost, AckRepeated, ServerDisconnected, ServerCrashes, BrokerRestarts, Unconfirmed,
           ServerType
  <2> QED
    BY <1>0, <2>1, <2>2, <2>3 DEF ServerType, OptionalIds
<1> QED
  BY <1>1, <1>2, <1>3, <1>4, <1>5, <1>6, <1>7 DEF Next, PostStep, ServerStep, FaultStep

----------------------------------------------------------------------------
(* The rows.                                                                 *)

\* The initial states.
LEMMA InitInv == Init => ProtocolInv
<1> SUFFICES ASSUME Init PROVE ProtocolInv
  OBVIOUS
<1>1. /\ running = [p \in Ports |-> NoId] /\ saved = [p \in Ports |-> NoId]
      /\ copying = None /\ head = NoHead /\ bit = FALSE /\ phase = "idle" /\ job = NoJob
      /\ outbox = <<>> /\ boots = 0
  BY NewDeviceAssumption DEF Init, DeviceInit
<1>2. FlagType
  BY <1>1, Zenon DEF Init, FlagType
<1>3. DeviceType /\ ServerType
  BY <1>1, DeviceBoundsAssumption, FaultsAssumption
     DEF Init, DeviceType, ServerType, Phases, PostStates, Statuses, OptionalIds, NoAck, NoJob
<1>4. KnownInv
  BY <1>1, EmptySeq, DeviceIdsAssumption, ConfigsAssumption
     DEF Init, KnownInv, KnownHeads, KnownRun, Known, NoJob
<1>5. RequestInv /\ AppliedWasRun /\ PushedIsPublished
  BY DEF Init, RequestInv, AppliedWasRun, PushedIsPublished
<1>6. SessionInv
  <2>1. client = "listening" /\ ~started /\ ~subscribed
    BY DEF Init
  <2> QED
    BY <2>1 DEF SessionInv
<1> QED
  BY <1>2, <1>3, <1>4, <1>5, <1>6 DEF ProtocolInv

\* What an ack about to be committed says, and the row it loaded, if it found
\* one.
LEMMA AckFacts ==
  ASSUME TypeOK, KnownInv, CommitAck
  PROVE  /\ \/ UNCHANGED <<row, ackedAt>> /\ ack.id \notin Configs
            \/ /\ ack.id \in published /\ ack.id \in Configs
               /\ ack.status \in {"applied", "rejected"}
               /\ ack.status = "applied" => ack.id \in ran
               /\ row' = row \/ row' = [row EXCEPT ![ack.id] = ack.status]
               /\ ackedAt' = ackedAt \cup {ack.id}
         /\ ack' = NoAck /\ UNCHANGED <<post, published, ran>>
BY DEF CommitAck, KnownInv, Known, TypeOK, serverVars, ghostVars

\* The rows, their requests and their acks.
RowsInv == RequestInv /\ AppliedWasRun /\ PushedIsPublished

\* Every step keeps what they say of each other.
LEMMA StepRows ==
  ASSUME TypeOK, KnownInv, RowsInv, Next
  PROVE  RowsInv'
<1> USE DEF dbVars, serverVars, brokerVars, linkVars, faults, ghostVars, KeepServer, SessionEnds
<1>0. /\ post \in [Configs -> PostStates] /\ row \in [Configs -> Statuses]
      /\ published \subseteq Configs
  BY DEF TypeOK
<1>1. ASSUME NEW c \in Configs, Insert(c) PROVE RowsInv'
  <2>1. /\ post[c] = "idle" /\ post' = [post EXCEPT ![c] = "publish"]
        /\ row' = [row EXCEPT ![c] = "pending"] /\ UNCHANGED <<published, ran>>
    BY <1>1 DEF Insert, Step
  <2> QED
    BY <1>0, <2>1 DEF RowsInv, RequestInv, AppliedWasRun, PushedIsPublished
<1>2. ASSUME NEW c \in Configs, Publish(c) PROVE RowsInv'
  <2>1. /\ post[c] = "publish" /\ post' = [post EXCEPT ![c] = "puback"]
        /\ published' = published \cup {c} /\ UNCHANGED <<row, ran>>
    BY <1>2 DEF Publish, Step
  <2> QED
    BY <1>0, <2>1 DEF RowsInv, RequestInv, AppliedWasRun, PushedIsPublished
<1>3. ASSUME NEW c \in Configs, PublishFails(c) \/ PublishConfirmed(c) PROVE RowsInv'
  <2>1. /\ \/ post[c] = "publish" /\ post' = [post EXCEPT ![c] = "failed"]
           \/ post[c] = "puback" /\ post' = [post EXCEPT ![c] = "mark"]
        /\ UNCHANGED <<row, published, ran>>
    BY <1>3, Zenon DEF PublishFails, PublishConfirmed, Step
  <2> QED
    BY <1>0, <2>1 DEF RowsInv, RequestInv, AppliedWasRun, PushedIsPublished
<1>4. ASSUME NEW c \in Configs, MarkPushed(c) PROVE RowsInv'
  <2>1. /\ post[c] = "mark" /\ post' = [post EXCEPT ![c] = "done"]
        /\ row' = [row EXCEPT ![c] = "pushed"] /\ UNCHANGED <<published, ran>>
    BY <1>4 DEF MarkPushed, Step
  <2> QED
    BY <1>0, <2>1 DEF RowsInv, RequestInv, AppliedWasRun, PushedIsPublished
<1>5. CASE CommitAck
  BY <1>0, <1>5, AckFacts DEF RowsInv, RequestInv, AppliedWasRun, PushedIsPublished
<1>6. CASE \/ Connect \/ Listen \/ LoadRow
           \/ LinkStep \/ DeviceStep \/ FaultStep \/ Quiescent
  <2>1. UNCHANGED <<row, published>> /\ ran \subseteq ran'
    BY <1>6
       DEF Connect, Listen, LoadRow, LinkStep, StartRun, LinkUp, Subscribe, Receive, AckOut,
           DeviceStep, FaultStep, LinkLost, AckRepeated, DeviceRestarts, ServerDisconnected,
           ServerCrashes, BrokerRestarts, Quiescent, vars
  <2>2. \A c \in Configs : \/ post'[c] = post[c]
                           \/ post[c] \in {"publish", "puback", "mark"} /\ post'[c] = "failed"
    BY <1>6
       DEF Connect, Listen, LoadRow, LinkStep, StartRun, LinkUp, Subscribe, Receive, AckOut,
           DeviceStep, FaultStep, LinkLost, AckRepeated, DeviceRestarts, ServerDisconnected,
           ServerCrashes, BrokerRestarts, Unconfirmed, Quiescent, vars
  <2> QED
    BY <1>0, <2>1, <2>2 DEF RowsInv, RequestInv, AppliedWasRun, PushedIsPublished
<1> QED
  BY <1>1, <1>2, <1>3, <1>4, <1>5, <1>6 DEF Next, PostStep, ServerStep

\* Nothing happens.
LEMMA Stutter ==
  ASSUME ProtocolInv, UNCHANGED vars
  PROVE  ProtocolInv'
<1> USE DEF dbVars, serverVars, brokerVars, linkVars, faults, ghostVars, vars
<1>1. KnownInv'
  BY KnownFrame DEF ProtocolInv
<1>2. FlagType'
  BY Zenon DEF ProtocolInv, FlagType, deviceVars
<1>3. DeviceType' /\ ServerType'
  BY DEF ProtocolInv, DeviceType, ServerType, deviceVars
<1>4. RequestInv' /\ AppliedWasRun' /\ PushedIsPublished'
  BY DEF ProtocolInv, RequestInv, AppliedWasRun, PushedIsPublished
<1>5. SessionInv'
  BY DEF ProtocolInv, SessionInv, Handled, AckedOrUnderway, deviceVars
<1> QED
  BY <1>1, <1>2, <1>3, <1>4, <1>5 DEF ProtocolInv

----------------------------------------------------------------------------
(* The retained message.                                                     *)

\* The elements behind the first one stay.
LEMMA LeftOthers ==
  ASSUME NEW S, NEW s \in Seq(S), s # <<>>, NEW j \in 1..Len(s), s[j] # Head(s)
  PROVE  \E k \in 1..Len(Tail(s)) : Tail(s)[k] = s[j]
BY Left

\* An ack that is under way stays so until its row has acked_at, unless a
\* power cycle of the device or a fault of the server intervenes.
LEMMA UnderwayStays ==
  ASSUME TypeOK, KnownInv, Next, ~DeviceRestarts, serverFaults' = 0, client = "listening",
         NEW c \in Configs, AckedOrUnderway(c)
  PROVE  AckedOrUnderway(c)'
<1> USE DEF dbVars, serverVars, brokerVars, linkVars, faults, ghostVars, KeepServer, SessionEnds
<1> DEFINE InBox == \E i \in 1..Len(outbox) : outbox[i].id = c
           InQueue == \E i \in 1..Len(toServer) : toServer[i].id = c
             /\ toServer[i].status # "puback"
           S == AckMessage \cup PubackMessage
<1>0. /\ outbox \in Seq(AckMessage) /\ toServer \in Seq(S) /\ c # NoId /\ serverFaults \in Nat
      /\ \A a \in AckMessage : a \in S /\ a.status # "puback"
  BY ConfigFacts, FaultsAssumption DEF TypeOK, AckMessage
<1>1. c \in ackedAt \/ ack.id = c \/ InBox \/ InQueue
  BY DEF AckedOrUnderway
<1>2. ASSUME c \in ackedAt' \/ ack'.id = c \/ InBox' \/ InQueue' PROVE AckedOrUnderway(c)'
  BY <1>2 DEF AckedOrUnderway
<1> HIDE DEF S
<1>3. ASSUME UNCHANGED <<ackedAt, ack, outbox, toServer>> PROVE AckedOrUnderway(c)'
  BY <1>3 DEF AckedOrUnderway
<1>4. CASE \/ \E d \in Configs : Insert(d) \/ PublishFails(d) \/ MarkPushed(d)
           \/ Connect \/ Listen \/ StartRun \/ LinkUp \/ Subscribe \/ LinkLost \/ Quiescent
  BY <1>3, <1>4
     DEF Insert, PublishFails, MarkPushed, Connect, Listen, StartRun, LinkUp, Subscribe, LinkLost,
         Quiescent, vars, deviceVars
<1>5. CASE Receive
  BY <1>3, <1>5 DEF Receive, CopyBegin, CopyNothing
<1>6. ASSUME NEW a \in S, toServer' = Append(toServer, a), InQueue PROVE InQueue'
  BY <1>0, <1>6, Joined
<1>7. ASSUME NEW d \in Configs, Publish(d) PROVE AckedOrUnderway(c)'
  <2>1. toServer' = Append(toServer, Puback(d)) /\ UNCHANGED <<ackedAt, ack, outbox>>
    BY <1>7 DEF Publish, deviceVars
  <2>2. Puback(d) \in S
    BY ConfigFacts DEF Puback, PubackMessage, S
  <2> QED
    BY <1>1, <1>2, <1>6, <2>1, <2>2
<1>8. ASSUME NEW d \in Configs, PublishConfirmed(d) PROVE AckedOrUnderway(c)'
  <2>1. PICK i \in 1..Len(toServer) :
          /\ toServer[i] = Puback(d)
          /\ toServer' = SubSeq(toServer, 1, i - 1) \o SubSeq(toServer, i + 1, Len(toServer))
    BY <1>8, Zenon DEF PublishConfirmed
  <2> DEFINE r == SubSeq(toServer, 1, i - 1) \o SubSeq(toServer, i + 1, Len(toServer))
  <2>2. \A j \in 1..Len(toServer) : j # i => \E k \in 1..Len(r) : r[k] = toServer[j]
    BY <1>0, Removed
  <2> HIDE DEF r
  <2>3. toServer' = r /\ toServer[i] = Puback(d)
    BY <2>1, Zenon DEF r
  <2>4. UNCHANGED <<ackedAt, ack, outbox>>
    BY <1>8, Zenon DEF PublishConfirmed, deviceVars
  <2> HIDE <2>1, <1>8
  <2>5. InQueue => InQueue'
    BY <2>2, <2>3 DEF Puback
  <2> QED
    BY <1>1, <1>2, <2>4, <2>5
<1>9. CASE LoadRow
  <2> DEFINE a == Head(toServer)
  <2>1. /\ toServer # <<>> /\ toServer' = Tail(toServer) /\ ack = NoAck
        /\ ack' = IF a.id = NoId THEN NoAck
                  ELSE [id |-> a.id, status |-> a.status,
                        loaded |-> IF a.id \in Configs THEN row[a.id] ELSE "none"]
        /\ UNCHANGED <<ackedAt, outbox>>
    BY <1>9 DEF LoadRow, deviceVars
  <2>2. \A j \in 1..Len(toServer) :
          toServer[j] = a \/ \E k \in 1..Len(Tail(toServer)) : Tail(toServer)[k] = toServer[j]
    BY <1>0, <2>1, LeftOthers
  <2>3. ack.id # c
    BY <1>0, <2>1 DEF NoAck
  <2>4. InQueue => InQueue' \/ ack'.id = c
    BY <1>0, <2>1, <2>2
  <2> QED
    BY <1>1, <1>2, <2>1, <2>3, <2>4
<1>10. CASE CommitAck
  <2>1. /\ ackedAt \subseteq ackedAt' /\ (ack.id = c => c \in ackedAt')
        /\ UNCHANGED <<outbox, toServer>>
    BY <1>10, AckFacts DEF CommitAck, deviceVars
  <2> QED
    BY <1>1, <1>2, <2>1
<1>11. CASE AckOut
  <2>1. /\ outbox # <<>> /\ outbox' = Tail(outbox) /\ toServer' = Append(toServer, Head(outbox))
        /\ UNCHANGED <<ackedAt, ack>>
    BY <1>11 DEF AckOut, SendAck, Routed
  <2>2. /\ Head(outbox) \in AckMessage
        /\ \A j \in 1..Len(outbox) :
             \/ outbox[j] = Head(outbox)
             \/ \E k \in 1..Len(Tail(outbox)) : Tail(outbox)[k] = outbox[j]
    BY <1>0, <2>1, Left, LeftOthers
  <2>3. InQueue => InQueue'
    BY <1>0, <1>6, <2>1, <2>2
  <2>4. Len(toServer') \in 1..Len(toServer') /\ toServer'[Len(toServer')] = Head(outbox)
    BY <1>0, <2>1, <2>2, Joined, LenProperties
  <2>5. InBox => InBox' \/ InQueue'
    BY <1>0, <2>1, <2>2, <2>4
  <2> QED
    BY <1>1, <1>2, <2>1, <2>3, <2>5
<1>12. CASE AckRepeated
  <2>1. /\ outbox # <<>> /\ toServer' = Append(toServer, Head(outbox))
        /\ UNCHANGED <<ackedAt, ack, outbox>>
    BY <1>12 DEF AckRepeated, Routed, deviceVars
  <2>2. Head(outbox) \in AckMessage
    BY <1>0, <2>1, Left
  <2> QED
    BY <1>0, <1>1, <1>2, <1>6, <2>1, <2>2
<1>13. CASE DeviceStep
  <2>1. outbox' = outbox \/ \E a \in AckMessage : outbox' = Append(outbox, a)
    <3>1. ASSUME NEW port \in Int, NEW id \in OptionalIds, NEW status \in {"applied", "rejected"},
                 PublishAck(port, id, status)
          PROVE  \E a \in AckMessage : outbox' = Append(outbox, a)
      BY <3>1 DEF PublishAck, AckMessage, OptionalIds
    <3>2. NoId \in OptionalIds /\ job.id \in OptionalIds /\ job.port \in Int
      BY DEF TypeOK, OptionalIds
    <3>3. \/ outbox' = outbox
          \/ PublishAck(1, NoId, "rejected") \/ PublishAck(1, job.id, "rejected")
          \/ PublishAck(job.port, job.id, "rejected")
          \/ PublishAck(job.port, job.id, "applied")
      BY <1>13
         DEF DeviceStep, MainStep, CopyEnd, WakeUp, RejectId, TakeId, RejectPort, TakePort,
             TakeBadValue, RejectValues, BackToIdle, RunsAlready, Accept, Save, Apply, Acknowledge
    <3> QED
      BY <3>1, <3>2, <3>3
  <2>2. InBox => InBox'
    BY <1>0, <2>1, Joined
  <2>3. UNCHANGED <<ackedAt, ack, toServer>>
    BY <1>13 DEF DeviceStep
  <2> QED
    BY <1>1, <1>2, <2>2, <2>3
<1>14. ~(ServerDisconnected \/ ServerCrashes \/ BrokerRestarts)
  BY <1>0 DEF ServerDisconnected, ServerCrashes, BrokerRestarts, ServerFault
<1> QED
  BY <1>4, <1>5, <1>7, <1>8, <1>9, <1>10, <1>11, <1>12, <1>13, <1>14
     DEF Next, PostStep, ServerStep, LinkStep, FaultStep

\* The handler moves the last message on, and in the end runs and
\* acknowledges its config.
LEMMA HandlerMovesOn ==
  ASSUME TypeOK, KnownInv, DeviceStep, serverFaults = 0 => client = "listening",
         NEW c \in Configs, Handled(c)
  PROVE  Handled(c)'
<1> USE DEF dbVars, serverVars, brokerVars, linkVars, faults, ghostVars
<1>0. /\ HeadOf(MessageOf(c)) = [id |-> c, port |-> PortOf[c]] /\ c \in OptionalIds
      /\ c # None /\ PortOf[c] \in Ports /\ PortOf[c] # None /\ PortOf[c] \in Int
      /\ MessageOf(c) # None /\ job \in [id : OptionalIds, port : Int]
      /\ outbox \in Seq(AckMessage) /\ running \in [Ports -> OptionalIds]
  BY ConfigFacts DEF TypeOK
<1>1. CopyEnd \/ MainStep
  BY DEF DeviceStep
<1>2. serverFaults' = serverFaults /\ (MainStep => UNCHANGED <<copying, head>>)
  BY DEF DeviceStep, MainStep, WakeUp, RejectId, TakeId, RejectPort, TakePort, TakeBadValue,
         RejectValues, BackToIdle, RunsAlready, Accept, Save, Apply, Acknowledge
<1>3. CASE CopyEnd
  BY <1>0, <1>3 DEF CopyEnd, Handled
<1>4. CASE MainStep /\ copying = MessageOf(c)
  BY <1>2, <1>4 DEF Handled
<1>5. SUFFICES ASSUME MainStep, copying = None, head = HeadOf(MessageOf(c)),
                      ~(bit /\ ~WakeUp)
               PROVE  Handled(c)'
  <2>1. CASE bit /\ ~WakeUp /\ MainStep /\ copying = None
    <3>1. bit' = bit
      BY <2>1 DEF MainStep, RejectId, TakeId, RejectPort, TakePort, TakeBadValue, RejectValues,
                  BackToIdle, RunsAlready, Accept, Save, Apply, Acknowledge
    <3> QED
      BY <1>0, <1>2, <2>1, <3>1 DEF Handled
  <2> QED
    BY <1>1, <1>3, <1>4, <1>5, <2>1, Zenon DEF Handled
<1>6. Visible = {head} /\ head.id = c /\ head.port = PortOf[c]
  BY <1>0, <1>5 DEF Visible
<1>7. \/ bit \/ phase = "woken"
      \/ phase = "named" /\ job.id = c
      \/ phase \in {"taken", "accepted"} /\ job = head
      \/ phase = "applied" /\ job = head /\ running[PortOf[c]] = c
      \/ phase = "idle" /\ running[PortOf[c]] = c
  BY <1>0, <1>5, Zenon DEF Handled
<1>8. ASSUME \/ bit' \/ phase' = "woken"
             \/ phase' = "named" /\ job'.id = c
             \/ phase' \in {"taken", "accepted"} /\ job' = head
             \/ phase' = "applied" /\ job' = head /\ running'[PortOf[c]] = c
             \/ phase' = "idle" /\ running'[PortOf[c]] = c
                /\ (serverFaults = 0 => AckedOrUnderway(c)')
      PROVE  Handled(c)'
  BY <1>2, <1>5, <1>8 DEF Handled
<1>9. CASE WakeUp
  BY <1>8, <1>9, Zenon DEF WakeUp
<1>10. ~(RejectId \/ RejectPort \/ TakeBadValue \/ RejectValues \/ BackToIdle)
  <2>1. ~BadValues /\ (phase = "taken" /\ ~bit => job.port \in Ports)
    BY <1>0, <1>6, <1>7, ServerAssumption
  <2>2. ASSUME RejectValues \/ TakeBadValue \/ BackToIdle PROVE FALSE
    <3>1. ~WakeUp
      BY <2>2 DEF RejectValues, TakeBadValue, BackToIdle, WakeUp
    <3>2. ~bit
      BY <1>5, <3>1, Zenon
    <3> QED
      BY <1>5, <1>7, <2>1, <2>2, <3>2 DEF RejectValues, TakeBadValue, BackToIdle
  <2>3. ~RejectId /\ ~RejectPort
    BY <1>0, <1>6 DEF RejectId, RejectPort
  <2> QED
    BY <2>2, <2>3
<1>11. CASE TakeId
  <2>1. phase' = "named" /\ job' = [job EXCEPT !.id = c]
    BY <1>6, <1>11 DEF TakeId
  <2>2. job'.id = c
    BY <1>0, <2>1
  <2> QED
    BY <1>8, <2>1, <2>2
<1>12. ASSUME MainStep, phase \notin {"idle", "woken"} PROVE ~bit
  <2>1. ~WakeUp
    BY <1>12 DEF WakeUp
  <2> QED
    BY <1>5, <2>1, Zenon
<1>13. CASE TakePort
  <2>1. /\ phase = "named" /\ phase' = "taken" /\ job' = [job EXCEPT !.port = PortOf[c]]
    BY <1>6, <1>13 DEF TakePort
  <2>2. job.id = c
    BY <1>5, <1>7, <1>12, <2>1
  <2>3. job' = head
    BY <1>0, <1>5, <2>1, <2>2
  <2> QED
    BY <1>8, <2>1, <2>3
<1>14. CASE RunsAlready \/ Accept \/ Save \/ Apply
  <2>1. phase \in {"taken", "accepted"}
    BY <1>14 DEF RunsAlready, Accept, Save, Apply
  <2>2. job = head
    BY <1>5, <1>7, <1>12, <2>1
  <2>3. \/ phase' \in {"taken", "accepted"} /\ job' = head
        \/ phase' = "applied" /\ job' = head /\ running'[PortOf[c]] = c
    BY <1>0, <1>6, <1>14, <2>2 DEF RunsAlready, Accept, Save, Apply
  <2> QED
    BY <1>8, <2>3
<1>15. CASE Acknowledge
  <2>1. /\ phase = "applied" /\ PublishAck(job.port, job.id, "applied")
        /\ phase' = "idle" /\ UNCHANGED running
    BY <1>15 DEF Acknowledge
  <2>2. job = head /\ running[PortOf[c]] = c
    BY <1>5, <1>7, <1>12, <2>1
  <2> DEFINE a == [port |-> job.port, id |-> job.id, status |-> "applied"]
  <2>3. outbox' = Append(outbox, a)
    BY <2>1 DEF PublishAck
  <2>4. a \in AckMessage /\ a.id = c
    BY <1>0, <1>6, <2>2 DEF AckMessage, OptionalIds
  <2> HIDE DEF a
  <2>5. Len(outbox') \in 1..Len(outbox') /\ outbox'[Len(outbox')] = a
    BY <1>0, <2>3, <2>4, Joined, LenProperties
  <2>6. AckedOrUnderway(c)'
    BY <2>4, <2>5 DEF AckedOrUnderway
  <2> QED
    BY <1>8, <2>1, <2>2, <2>6
<1> QED
  BY <1>5, <1>9, <1>10, <1>11, <1>13, <1>14, <1>15 DEF MainStep

\* Every step keeps it.
LEMMA StepSession ==
  ASSUME TypeOK, KnownInv, SessionInv, Next
  PROVE  SessionInv'
<1> USE DEF dbVars, serverVars, brokerVars, linkVars, faults, ghostVars, KeepServer, SessionEnds
<1>0. /\ serverFaults \in Nat /\ toDevice \in Seq(Configs) /\ retained \in Configs \cup {None}
      /\ None \notin Fitting /\ Fitting \subseteq Configs
  BY FaultsAssumption, FittingAssumption, ConfigsAssumption, DeviceIdsAssumption DEF TypeOK
<1>1. link' = "up" /\ started' /\ ~asked' => subscribed'
  <2>1. CASE UNCHANGED <<link, started, asked, subscribed>>
    BY <2>1, Zenon DEF SessionInv
  <2>2. CASE StartRun \/ LinkUp \/ Subscribe
    <3>1. link' = "up" /\ started' => asked' \/ subscribed'
      <4>1. CASE StartRun
        <5>1. link' = link /\ asked' = (link = "up")
          BY <4>1, Zenon DEF StartRun
        <5>2. link = "up" => asked'
          BY <5>1, Zenon
        <5> QED
          BY <5>1, <5>2
      <4>2. CASE LinkUp
        <5>1. asked' = started /\ started' = started
          BY <4>2, Zenon DEF LinkUp
        <5> QED
          BY <5>1, Zenon
      <4>3. CASE Subscribe
        BY <4>3, Zenon DEF Subscribe
      <4> QED
        BY <2>2, <4>1, <4>2, <4>3
    <3> QED
      BY <3>1, Zenon
  <2>3. CASE LinkLost \/ AckRepeated \/ DeviceRestarts \/ BrokerRestarts
    BY <2>3 DEF LinkLost, AckRepeated, DeviceRestarts, BrokerRestarts
  <2>4. CASE \/ \E c \in Configs : Insert(c) \/ PostStep(c)
             \/ ServerStep \/ Receive \/ AckOut \/ DeviceStep \/ Quiescent
             \/ ServerDisconnected \/ ServerCrashes
    <3>1. UNCHANGED <<link, started, asked, subscribed>>
      BY <2>4, Zenon
         DEF PostStep, ServerStep, Insert, Publish, PublishFails, PublishConfirmed, MarkPushed,
             Connect, Listen, LoadRow, CommitAck, Receive, AckOut, DeviceStep, Quiescent, vars,
             ServerDisconnected, ServerCrashes
    <3> QED
      BY <2>1, <3>1
  <2> QED
    BY <2>2, <2>3, <2>4 DEF Next, LinkStep, FaultStep
<1>2. serverFaults' = 0 => serverFaults = 0 /\ client = "listening" /\ client' = "listening"
  <2>1. CASE \/ \E c \in Configs : Insert(c) \/ PostStep(c)
             \/ ServerStep \/ LinkStep \/ DeviceStep \/ Quiescent
             \/ LinkLost \/ AckRepeated \/ DeviceRestarts
    <3>1. client' \in {client, "listening"} \/ client = "down"
      BY <2>1, Zenon
         DEF PostStep, ServerStep, Insert, Publish, PublishFails, PublishConfirmed, MarkPushed,
             Connect, Listen, LoadRow, CommitAck, LinkStep, StartRun, LinkUp, Subscribe, Receive,
             AckOut, DeviceStep, Quiescent, vars, LinkLost, AckRepeated, DeviceRestarts, LinkFault
    <3>2. serverFaults' = serverFaults
      BY <2>1, Zenon
         DEF PostStep, ServerStep, Insert, Publish, PublishFails, PublishConfirmed, MarkPushed,
             Connect, Listen, LoadRow, CommitAck, LinkStep, StartRun, LinkUp, Subscribe, Receive,
             AckOut, DeviceStep, Quiescent, vars, LinkLost, AckRepeated, DeviceRestarts, LinkFault
    <3> QED
      BY <3>1, <3>2 DEF SessionInv
  <2>2. CASE ServerDisconnected \/ ServerCrashes \/ BrokerRestarts
    BY <1>0, <2>2 DEF ServerDisconnected, ServerCrashes, BrokerRestarts, ServerFault
  <2> QED
    BY <2>1, <2>2 DEF Next, FaultStep
<1>3. SUFFICES ASSUME subscribed'
               PROVE  /\ retained' # None /\ toDevice' # <<>> =>
                         toDevice'[Len(toDevice')] = retained'
                      /\ retained' \in Fitting /\ toDevice' = <<>> => Handled(retained)'
  BY <1>1, <1>2 DEF SessionInv
<1>4. ASSUME ~DeviceRestarts, UNCHANGED <<copying, head, bit, phase, job, running>>,
             NEW c \in Configs, Handled(c)
      PROVE  Handled(c)'
  <2>1. serverFaults' = 0 /\ AckedOrUnderway(c) => AckedOrUnderway(c)'
    BY <1>2, <1>4, UnderwayStays
  <2> QED
    BY <1>2, <1>4, <2>1 DEF Handled
<1>5. ASSUME ~DeviceRestarts, UNCHANGED <<retained, toDevice, subscribed>>,
             UNCHANGED <<copying, head, bit, phase, job, running>>
      PROVE  /\ retained' # None /\ toDevice' # <<>> => toDevice'[Len(toDevice')] = retained'
             /\ retained' \in Fitting /\ toDevice' = <<>> => Handled(retained)'
  <2>1. retained \in Fitting /\ toDevice = <<>> => Handled(retained) /\ retained \in Configs
    BY <1>0, <1>3, <1>5 DEF SessionInv
  <2>2. retained \in Fitting /\ toDevice = <<>> => Handled(retained)'
    <3>1. ASSUME NEW c \in Configs, c = retained, Handled(c) PROVE Handled(retained)'
      BY <1>4, <1>5, <3>1 DEF Handled, AckedOrUnderway
    <3> QED
      BY <2>1, <3>1
  <2> QED
    BY <1>3, <1>5, <2>2 DEF SessionInv
<1>6. CASE \/ \E c \in Configs :
                Insert(c) \/ PublishFails(c) \/ PublishConfirmed(c) \/ MarkPushed(c)
           \/ ServerStep \/ StartRun \/ LinkUp \/ Quiescent
           \/ ServerDisconnected \/ ServerCrashes
  <2>1. /\ UNCHANGED <<retained, toDevice, subscribed>>
        /\ UNCHANGED <<copying, head, bit, phase, job, running>>
    BY <1>6, Zenon
       DEF Insert, PublishFails, PublishConfirmed, MarkPushed, ServerStep, Connect, Listen, LoadRow,
           CommitAck, StartRun, LinkUp, Quiescent, vars, ServerDisconnected, ServerCrashes,
             deviceVars
  <2>2. CASE DeviceRestarts
    BY <1>3, <2>2 DEF DeviceRestarts
  <2> QED
    BY <1>5, <2>1, <2>2
<1>7. CASE AckOut
  <2>1. /\ UNCHANGED <<retained, toDevice, subscribed>>
        /\ UNCHANGED <<copying, head, bit, phase, job, running>>
    BY <1>7 DEF AckOut, SendAck
  <2>2. ~DeviceRestarts
    BY <1>3 DEF DeviceRestarts
  <2> QED
    BY <1>5, <2>1, <2>2
<1>8. ASSUME NEW c \in Configs, Publish(c)
      PROVE  retained' = c /\ toDevice' # <<>> /\ toDevice'[Len(toDevice')] = c
  <2>1. retained' = c /\ toDevice' = Append(toDevice, c)
    BY <1>3, <1>8 DEF Publish
  <2> QED
    BY <1>0, <2>1, Joined
<1>9. CASE Subscribe
  <2>1. /\ toDevice' = IF retained = None THEN toDevice ELSE Append(toDevice, retained)
        /\ retained' = retained
    BY <1>9 DEF Subscribe
  <2>2. retained # None => toDevice' # <<>> /\ toDevice'[Len(toDevice')] = retained'
    BY <1>0, <2>1, Joined
  <2> QED
    BY <1>0, <2>1, <2>2
<1>10. CASE Receive
  <2>1. /\ toDevice # <<>> /\ toDevice' = Tail(toDevice) /\ subscribed /\ retained' = retained
        /\ CopyBegin(MessageOf(Head(toDevice))) \/ CopyNothing(MessageOf(Head(toDevice)))
    BY <1>3, <1>10, Zenon DEF Receive
  <2>2. /\ toDevice' # <<>> => toDevice'[Len(toDevice')] = toDevice[Len(toDevice)]
        /\ toDevice' = <<>> => toDevice[Len(toDevice)] = Head(toDevice)
    BY <1>0, <2>1, Left
  <2>3. retained # None => toDevice[Len(toDevice)] = retained
    BY <2>1 DEF SessionInv
  <2>4. ASSUME retained' \in Fitting, toDevice' = <<>> PROVE Handled(retained)'
    <3>1. Head(toDevice) = retained /\ retained \in Configs /\ retained \in Fitting
      BY <1>0, <2>1, <2>2, <2>3, <2>4
    <3>2. copying' = MessageOf(retained)
      BY <2>1, <3>1, ConfigFacts DEF CopyBegin, CopyNothing
    <3> QED
      BY <2>1, <3>1, <3>2, ConfigFacts DEF Handled
  <2> QED
    BY <2>1, <2>2, <2>3, <2>4
<1>11. CASE DeviceStep
  <2>1. UNCHANGED <<retained, toDevice, subscribed, serverFaults>>
    BY <1>11 DEF DeviceStep
  <2>2. retained \in Fitting /\ toDevice = <<>> => Handled(retained) /\ retained \in Configs
    BY <1>0, <1>3, <2>1, Zenon DEF SessionInv
  <2>3. ASSUME NEW c \in Configs, c = retained, Handled(c) PROVE Handled(retained)'
    <3>1. Handled(c)'
      BY <1>11, <2>3, HandlerMovesOn DEF SessionInv
    <3> QED
      BY <2>1, <2>3, <3>1 DEF Handled, AckedOrUnderway
  <2> QED
    BY <1>3, <2>1, <2>2, <2>3 DEF SessionInv
<1>12. CASE LinkLost \/ AckRepeated \/ DeviceRestarts \/ BrokerRestarts
  BY <1>3, <1>12 DEF LinkLost, AckRepeated, DeviceRestarts, BrokerRestarts
<1> QED
  BY <1>6, <1>7, <1>8, <1>9, <1>10, <1>11, <1>12 DEF Next, PostStep, LinkStep, FaultStep

----------------------------------------------------------------------------
(* The theorems.                                                             *)

\* Every step keeps the invariant.
LEMMA StepInv == ProtocolInv /\ [Next]_vars => ProtocolInv'
<1> SUFFICES ASSUME ProtocolInv, [Next]_vars PROVE ProtocolInv'
  OBVIOUS
<1>1. CASE UNCHANGED vars
  BY <1>1, Stutter
<1>2. CASE Next
  <2>1. TypeOK /\ KnownInv /\ RequestInv /\ SessionInv /\ FlagType /\ RowsInv
    BY Types DEF ProtocolInv, RowsInv
  <2>2. KnownInv'
    <3>1. CASE Quiescent
      BY <3>1, Stutter DEF Quiescent, ProtocolInv
    <3> QED
      BY <1>2, <2>1, <3>1, KnownServer, KnownLink, KnownDevice, KnownFault DEF Next
  <2>3. FlagType'
    BY <1>2, <2>1, StepFlags
  <2>4. DeviceType' /\ ServerType'
    BY <1>2, <2>1, StepDeviceType, StepServerType
  <2>5. RowsInv'
    BY <1>2, <2>1, StepRows
  <2>6. SessionInv'
    BY <1>2, <2>1, StepSession
  <2> QED
    BY <2>2, <2>3, <2>4, <2>5, <2>6 DEF ProtocolInv, RowsInv
<1> QED
  BY <1>1, <1>2

\* The inductive invariant holds: a config on its way, in the handler, run or
\* acknowledged was published, also if the handler read the id of one message
\* and the port of another; every row has its request; a subscribed device has
\* been sent the retained message last of all, or has it.
THEOREM ProtocolSafe == Spec => []ProtocolInv
<1> QED
  BY InitInv, StepInv, PTL DEF Spec

\* Every variable keeps its type: while a message is copied the handler may
\* read an id and a port of different messages (mqtt_manager.c:739-740, :379),
\* but it applies them to a pump port only.
THEOREM TypeCorrect == Spec => []TypeOK
<1>1. ProtocolInv => TypeOK
  BY Types DEF ProtocolInv
<1> QED
  BY <1>1, ProtocolSafe, PTL

\* A row says "applied" only if the device has run that config
\* (handlers.py:90-95).
THEOREM AppliedIsRun == Spec => []AppliedWasRun
<1>1. ProtocolInv => AppliedWasRun
  BY DEF ProtocolInv
<1> QED
  BY <1>1, ProtocolSafe, PTL

\* A row leaves "pending" only when the broker has the message
\* (api.py:146-149).
THEOREM PushedIsAtBroker == Spec => []PushedIsPublished
<1>1. ProtocolInv => PushedIsPublished
  BY DEF ProtocolInv
<1> QED
  BY <1>1, ProtocolSafe, PTL

\* A config the device runs, on whichever port, is in the database, which
\* stores it before it is sent (api.py:132-145).
THEOREM RunningHasRow == Spec => []RunningIsStored
<1>1. ProtocolInv => RunningIsStored
  BY DEF ProtocolInv, KnownInv, KnownRun, Known, RequestInv, RunningIsStored
<1> QED
  BY <1>1, ProtocolSafe, PTL

\* Whatever was lost, overwritten in the buffer or repeated: a settled device
\* runs the retained config (mqtt.py:79-85, mqtt_manager.c:354-361).
THEOREM SettledRunsRetained == Spec => []RetainedRuns
<1>1. ProtocolInv => RetainedRuns
  <2> SUFFICES ASSUME ProtocolInv, Settled, retained \in Fitting
               PROVE  running[PortOf[retained]] = retained
    BY DEF RetainedRuns
  <2>1. subscribed
    BY DEF ProtocolInv, SessionInv, Settled
  <2>2. Handled(retained)
    BY <2>1 DEF ProtocolInv, SessionInv, Settled
  <2> QED
    BY <2>2, ConfigFacts, FittingAssumption DEF Handled, Settled
<1> QED
  BY <1>1, ProtocolSafe, PTL

\* Lost connections and power cycles of the device never lose the
\* acknowledgement of the retained config (mqtt_manager.c:723-725, :766-770).
THEOREM AcksSurvive == Spec => []AckSurvivesDevice
<1>1. ProtocolInv => AckSurvivesDevice
  <2> SUFFICES ASSUME ProtocolInv, AllSettled, serverFaults = 0, retained \in Fitting
               PROVE  retained \in ackedAt
    BY DEF AckSurvivesDevice
  <2>1. Handled(retained)
    BY DEF ProtocolInv, SessionInv, AllSettled, Settled
  <2>2. AckedOrUnderway(retained)
    BY <2>1, ConfigFacts, FittingAssumption DEF Handled, AllSettled, Settled
  <2>3. ack.id # retained /\ Len(outbox) = 0 /\ Len(toServer) = 0
    BY ConfigFacts, FittingAssumption, EmptySeq DEF AllSettled, NoAck
  <2> QED
    BY <2>2, <2>3 DEF AckedOrUnderway
<1> QED
  BY <1>1, ProtocolSafe, PTL
=============================================================================
