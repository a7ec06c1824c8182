-------------------------- MODULE RegistrationProofs --------------------------
(***************************************************************************)
(* Theorems about Registration: whoever goes on is in the database, an      *)
(* attempt fails only for a cause of its own, and what a fault costs.       *)
(***************************************************************************)
EXTENDS Registration, SequenceTheorems, TLAPS

\* An attempt is under way; its client exists until it is destroyed.
Inside == Stages \cup {"parse"}

\* At most one of the packets under way is in P.
AtMostOne(P) == \A i, j \in 1..Len(toDevice) : toDevice[i] \in P /\ toDevice[j] \in P => i = j

AnswerUnderway == \E s \in Success : Underway(s)

\* The client, the event group and the step of the main task at each stage.
StageInv ==
  /\ clients = IF stage \in Inside \cup {"registered"} THEN 1 ELSE 0
  /\ group <=> stage \notin {"begin", "gaveUp"}
  /\ stage \in Inside \cup {"registered"} => attempt < MaxRetries
  /\ step = "blocked" => stage \in Stages /\ bits \cap Awaited[stage] = {}
  /\ stage = "parse" => status # "none"
  /\ reply = "none" => "DATA" \notin bits \cup got
  /\ server = "answering" => answer \in Success
  /\ server = "down" => serverFaults > 0

\* Before the first commit nobody has heard of a success.
RowInv ==
  /\ ~row => /\ answer = "none" /\ reply = "none" /\ status \notin Success
             /\ ~AnswerUnderway /\ stage # "registered" /\ led # "green"

\* What is still to come in an attempt that nothing has spoilt.
AnswerDue ==
  request = "queued" \/ requests > 0 \/ server = "answering" \/ AnswerUnderway \/ "DATA" \in bits

CleanAttempt ==
  /\ link # "refused" /\ bits \cap {"DISCONNECTED", "ERROR"} = {}
  /\ stage = "parse" => status \in Success
  /\ stage \in Stages /\ step = "woken" => Wanted[stage] \in got
  /\ stage # "connect" \/ step = "woken" \/ "CONNECTED" \in bits => link = "up"
  /\ "SUBSCRIBED" \in bits \/ Underway("suback") => subscribed
  /\ stage = "subscribe" /\ step # "woken" => asked \/ Underway("suback") \/ "SUBSCRIBED" \in bits
  /\ (stage = "subscribe" /\ step = "woken") \/ stage \in {"publish", "answer", "parse"} =>
     subscribed
  /\ stage \in {"connect", "subscribe"} => request = "none" /\ ~Underway("puback")
  /\ request = "queued" => ~Underway("puback")
  /\ stage = "publish" /\ step # "woken" => request # "none" \/ "PUBLISHED" \in bits
  /\ stage = "publish" \/ (stage = "answer" /\ step # "woken") => AnswerDue

CleanInv == NoNeedlessRetry /\ (stage \in Inside /\ ~spoilt => CleanAttempt)

\* The server says "registered" once: the answer is in one place at a time.
OnceInv ==
  /\ server = "answering" /\ answer = "registered" =>
       ~Underway("registered") /\ reply # "registered" /\ status # "registered"
  /\ Underway("registered") => reply # "registered" /\ status # "registered"
  /\ AtMostOne({"registered"})

\* Without any fault there is one request and one answer to it.
DataSeen == "DATA" \in bits \/ (stage = "answer" /\ step = "woken")

Untouched ==
  /\ request # "queued" /\ requests = 0 /\ server = "listening" /\ ~AnswerUnderway

LoneAnswer ==
  /\ request = "queued" => requests = 0 /\ server = "listening" /\ ~AnswerUnderway /\ ~DataSeen
  /\ requests > 0 => requests = 1 /\ server = "listening" /\ ~AnswerUnderway /\ ~DataSeen
  /\ server = "answering" => ~AnswerUnderway /\ ~DataSeen
  /\ AnswerUnderway => ~DataSeen
  /\ AtMostOne(Success)

LoneInv ==
  faults = 0 /\ serverFaults = 0 /\ boots = 0 =>
    /\ ~spoilt /\ attempt = 0 /\ stage # "backoff"
    /\ stage \notin {"publish", "answer"} => Untouched
    /\ stage \in {"begin", "attempt", "connect", "subscribe"} => "DATA" \notin bits
    /\ LoneAnswer

\* The one "registered" may still meet another answer in s_response_buf.
Tearable ==
  \/ ~row
  \/ server = "answering" /\ answer = "registered"
  \/ Underway("registered")
  \/ stage = "parse" /\ status = "registered"
  \/ reply = "registered" /\ \/ stage \in {"publish", "answer"} /\ "DATA" \in bits
                             \/ stage = "answer" /\ step = "woken" /\ "DATA" \in got

Count(p) == IF p THEN 1 ELSE 0
Failed == attempt + Count(stage = "backoff")

\* Every fault and every missed request has paid for the attempt it has spoilt.
CostInv ==
  Failed + Count(stage \in Inside /\ spoilt) + Count(Tearable)
    <= faults + serverFaults + missed + 1

RegistrationInv ==
  TypeOK /\ StageInv /\ RowInv /\ CleanInv /\ OnceInv /\ LoneInv /\ CostInv

----------------------------------------------------------------------------
(* The packets on their way.                                                 *)

\* A packet joins the ones under way.
LEMMA AppendUnderway ==
  ASSUME toDevice \in Seq(Packets), NEW x \in Packets, toDevice' = Append(toDevice, x)
  PROVE  /\ toDevice' \in Seq(Packets)
         /\ \A y : Underway(y)' <=> Underway(y) \/ y = x
<1>1. toDevice' \in Seq(Packets) /\ Len(toDevice') = Len(toDevice) + 1 /\ Len(toDevice) \in Nat
  BY AppendProperties, LenProperties
<1>2. (\A i \in 1..Len(toDevice) : toDevice'[i] = toDevice[i])
      /\ toDevice'[Len(toDevice) + 1] = x
  BY AppendProperties
<1>3. ASSUME NEW y PROVE Underway(y)' <=> Underway(y) \/ y = x
  <2>1. ASSUME Underway(y)' PROVE Underway(y) \/ y = x
    <3>1. PICK i \in 1..Len(toDevice') : toDevice'[i] = y
      BY <2>1 DEF Underway, Contains
    <3> QED
      BY <1>1, <1>2, <3>1 DEF Underway, Contains
  <2>2. ASSUME Underway(y) PROVE Underway(y)'
    BY <1>1, <1>2, <2>2 DEF Underway, Contains
  <2>3. ASSUME y = x PROVE Underway(y)'
    BY <1>1, <1>2, <2>3 DEF Underway, Contains
  <2> QED
    BY <2>1, <2>2, <2>3
<1> QED
  BY <1>1, <1>3

\* The first packet has arrived: it was under way, and nothing joins the others.
LEMMA TailUnderway ==
  ASSUME toDevice \in Seq(Packets), toDevice # <<>>, toDevice' = Tail(toDevice)
  PROVE  /\ toDevice' \in Seq(Packets)
         /\ Head(toDevice) \in Packets /\ Underway(Head(toDevice))
         /\ \A y : Underway(y)' => Underway(y)
         /\ \A y : Underway(y) => Underway(y)' \/ y = Head(toDevice)
<1>1. /\ Len(toDevice) \in Nat \ {0} /\ Head(toDevice) = toDevice[1]
      /\ Head(toDevice) \in Packets /\ toDevice' \in Seq(Packets)
      /\ Len(toDevice') = Len(toDevice) - 1
      /\ \A i \in 1..Len(toDevice') : toDevice'[i] = toDevice[i + 1]
  BY HeadTailProperties, EmptySeq
<1>2. Underway(Head(toDevice))
  BY <1>1 DEF Underway, Contains
<1>3. ASSUME NEW y, Underway(y)' PROVE Underway(y)
  <2>1. PICK i \in 1..Len(toDevice') : toDevice'[i] = y
    BY <1>3 DEF Underway, Contains
  <2>2. i + 1 \in 1..Len(toDevice) /\ toDevice[i + 1] = y
    BY <1>1, <2>1
  <2> QED
    BY <2>2 DEF Underway, Contains
<1>4. ASSUME NEW y, Underway(y), y # Head(toDevice) PROVE Underway(y)'
  <2>1. PICK i \in 1..Len(toDevice) : toDevice[i] = y
    BY <1>4 DEF Underway, Contains
  <2>2. i - 1 \in 1..Len(toDevice') /\ toDevice'[i - 1] = y
    BY <1>1, <1>4, <2>1
  <2> QED
    BY <2>2 DEF Underway, Contains
<1> QED
  BY <1>1, <1>2, <1>3, <1>4

\* No packet is under way in a session that has ended.
LEMMA NothingUnderway ==
  ASSUME toDevice' = <<>>
  PROVE  toDevice' \in Seq(Packets) /\ \A y : ~Underway(y)'
BY EmptySeq DEF Underway, Contains

\* One more packet of P, when there was none.
LEMMA AppendAtMostOne ==
  ASSUME toDevice \in Seq(Packets), NEW x \in Packets, toDevice' = Append(toDevice, x),
         NEW P, AtMostOne(P), x \in P => \A y \in P : ~Underway(y)
  PROVE  AtMostOne(P)'
<1>1. Len(toDevice') = Len(toDevice) + 1 /\ Len(toDevice) \in Nat
  BY AppendProperties, LenProperties
<1>2. (\A i \in 1..Len(toDevice) : toDevice'[i] = toDevice[i])
      /\ toDevice'[Len(toDevice) + 1] = x
  BY AppendProperties
<1>3. x \in P => \A i \in 1..Len(toDevice) : toDevice[i] \notin P
  BY DEF Underway, Contains
<1> QED
  BY <1>1, <1>2, <1>3 DEF AtMostOne

\* The one of P has arrived, or it is still the only one.
LEMMA TailAtMostOne ==
  ASSUME toDevice \in Seq(Packets), toDevice # <<>>, toDevice' = Tail(toDevice),
         NEW P, AtMostOne(P)
  PROVE  AtMostOne(P)' /\ (Head(toDevice) \in P => \A y \in P : ~Underway(y)')
<1>1. /\ Len(toDevice) \in Nat \ {0} /\ Head(toDevice) = toDevice[1]
      /\ Len(toDevice') = Len(toDevice) - 1
      /\ \A i \in 1..Len(toDevice') : toDevice'[i] = toDevice[i + 1]
  BY HeadTailProperties, EmptySeq
<1>2. AtMostOne(P)'
  BY <1>1 DEF AtMostOne
<1>3. ASSUME Head(toDevice) \in P, NEW y \in P, Underway(y)' PROVE FALSE
  <2>1. PICK i \in 1..Len(toDevice') : toDevice'[i] = y
    BY <1>3 DEF Underway, Contains
  <2>2. i + 1 \in 1..Len(toDevice) /\ toDevice[i + 1] \in P /\ 1 \in 1..Len(toDevice)
    BY <1>1, <1>3, <2>1
  <2> QED
    BY <1>1, <1>3, <2>2 DEF AtMostOne
<1> QED
  BY <1>2, <1>3
----------------------------------------------------------------------------
(* Types and stages.                                                         *)

\* The bits of each stage.
LEMMA StageBits ==
  ASSUME NEW s \in Stages
  PROVE  /\ Wanted[s] \in Awaited[s] /\ "DISCONNECTED" \in Awaited[s] /\ Awaited[s] \subseteq Bits
         /\ s = "connect" =>
            Wanted[s] = "CONNECTED" /\ Awaited[s] = {"CONNECTED", "DISCONNECTED", "ERROR"}
         /\ s = "subscribe" =>
            Wanted[s] = "SUBSCRIBED" /\ Awaited[s] = {"SUBSCRIBED", "DISCONNECTED"}
         /\ s = "publish" => Wanted[s] = "PUBLISHED" /\ Awaited[s] = {"PUBLISHED", "DISCONNECTED"}
         /\ s = "answer" => Wanted[s] = "DATA" /\ Awaited[s] = {"DATA", "DISCONNECTED"}
BY DEF Stages, Wanted, Awaited, Bits

\* What a raised bit changes: it wakes the main task or stays set.
LEMMA RaiseEffect ==
  ASSUME NEW e \in Bits, Raise(e), StageInv
  PROVE  /\ UNCHANGED <<stage, attempt, led, group, clients>>
         /\ \/ /\ step = "blocked" /\ e \in Awaited[stage] /\ step' = "woken"
               /\ got' = bits \cup {e} /\ bits' = (bits \cup {e}) \ Awaited[stage]
            \/ /\ step = "blocked" => e \notin Awaited[stage]
               /\ step' = step /\ got' = got /\ bits' = bits \cup {e}
BY DEF Raise, clientVars

\* What a failed request changes: it is gone, and the device may have its row.
LEMMA HandlingFailsDoes ==
  ASSUME HandlingFails
  PROVE  /\ UNCHANGED <<stage, step, attempt, status, led, bits, got, group, clients, link, asked,
                        request, subscribed, reply, toDevice, server, answer, faults, boots,
                        missed>>
         /\ serverFaults < MaxServerFaults /\ serverFaults' = serverFaults + 1
         /\ requests > 0 /\ requests' = requests - 1 /\ spoilt' /\ (row => row')
<1>1. row => row'
  BY Zenon DEF HandlingFails
<1>2. /\ serverFaults < MaxServerFaults /\ serverFaults' = serverFaults + 1
      /\ requests > 0 /\ requests' = requests - 1 /\ spoilt'
      /\ UNCHANGED <<toDevice, server, answer, faults, boots, missed>>
  BY Zenon DEF HandlingFails
<1>3. OnServer
  BY Zenon DEF HandlingFails
<1> QED
  BY <1>1, <1>2, <1>3 DEF OnServer, mainVars, eventVars, clientVars

\* It holds at first.
LEMMA InitInv == Init => RegistrationInv
<1> SUFFICES ASSUME Init PROVE RegistrationInv
  OBVIOUS
<1>1. \A y : ~Underway(y)
  BY DEF Init, Underway, Contains
<1>2. TypeOK
  <2>1. toDevice \in Seq(Packets)
    BY EmptySeq DEF Init
  <2>2. /\ group \in BOOLEAN /\ asked \in BOOLEAN /\ subscribed \in BOOLEAN
        /\ row \in BOOLEAN /\ spoilt \in BOOLEAN
    BY Zenon DEF Init
  <2> QED
    BY <2>1, <2>2, RetriesAssumption, BoundsAssumption
       DEF Init, TypeOK, Stages, Statuses, Success, Colours, Bits
<1>3. StageInv /\ RowInv /\ CleanInv
  BY <1>1 DEF Init, StageInv, RowInv, CleanInv, NoNeedlessRetry, Inside, Stages, AnswerUnderway,
     Success
<1>4. \A P : AtMostOne(P)
  BY DEF Init, AtMostOne
<1>5. OnceInv /\ LoneInv
  BY <1>1, <1>4 DEF Init, OnceInv, LoneInv, Untouched, LoneAnswer, AnswerUnderway, DataSeen
<1>6. CostInv
  BY <1>1 DEF Init, CostInv, Failed, Count, Tearable, Inside, Stages
<1> QED
  BY <1>2, <1>3, <1>5, <1>6 DEF RegistrationInv

\* Every step keeps the types of the flags.
LEMMA StepFlags ==
  ASSUME TypeOK, Next
  PROVE  /\ group' \in BOOLEAN /\ asked' \in BOOLEAN /\ subscribed' \in BOOLEAN
         /\ row' \in BOOLEAN /\ spoilt' \in BOOLEAN
<1>0. /\ group \in BOOLEAN /\ asked \in BOOLEAN /\ subscribed \in BOOLEAN
      /\ row \in BOOLEAN /\ spoilt \in BOOLEAN
  BY DEF TypeOK
<1> USE <1>0 DEF mainVars, eventVars, clientVars, netVars, serverVars, faultVars, Raise, NoSession,
                 LinkFault, NoFault, OnServer
<1>1. CASE Begin \/ StartAttempt
  BY <1>1, Zenon DEF Begin, StartAttempt
<1>2. CASE Wait \/ AwaitAnswer \/ ReadReply \/ Registered \/ Backoff \/ GiveUp
  BY <1>2, Zenon DEF Wait, AwaitAnswer, ReadReply, Registered, Backoff, GiveUp
<1>3. CASE Subscribe \/ Publish \/ Fails
  BY <1>3, Zenon DEF Subscribe, Publish, Fails, Destroy
<1>4. CASE TimesOut
  BY <1>4, Zenon DEF TimesOut
<1>5. CASE Connects \/ Refused \/ Aborted \/ LinkLost
  BY <1>5, Zenon DEF Connects, Refused, Aborted, LinkLost
<1>6. CASE BrokerSubscribes \/ BrokerForwards
  BY <1>6, Zenon DEF BrokerSubscribes, BrokerForwards
<1>7. CASE Receive
  <2>1. spoilt' \in BOOLEAN
    BY <1>7, Zenon DEF Receive
  <2> QED
    BY <1>7, <2>1, Zenon DEF Receive
<1>8. CASE Handle \/ Respond \/ Reconnect \/ ServerFails
  BY <1>8, Zenon DEF Handle, Respond, Reconnect, ServerFails
<1>11. CASE HandlingFails
  BY <1>11, Zenon DEF HandlingFails
<1>9. CASE PowerCycle
  BY <1>9, Zenon DEF PowerCycle
<1>10. CASE Finished
  BY <1>10, Zenon DEF Finished, vars
<1> QED
  BY <1>1, <1>2, <1>3, <1>4, <1>5, <1>6, <1>7, <1>8, <1>9, <1>10, <1>11
     DEF Next, MainStep, NetworkStep, ServerStep

\* Every step keeps the types.
LEMMA StepType ==
  ASSUME TypeOK, StageInv, Next
  PROVE  TypeOK'
<1> USE DEF TypeOK, Stages, Statuses, Success, Colours
<1> USE StepFlags
<1>0. "suback" \in Packets /\ "puback" \in Packets /\ Success \subseteq Packets
  BY DEF Packets
<1>1. CASE Begin
  BY <1>1 DEF Begin, netVars, serverVars, faultVars
<1>2. CASE StartAttempt
  BY <1>2, NothingUnderway, RetriesAssumption
     DEF StartAttempt, RetriesLeft, FreshBits, NoSession, StageInv, Inside, serverVars, faultVars
<1>3. CASE Wait
  BY <1>3 DEF Wait, eventVars, clientVars, netVars, serverVars, faultVars
<1>4. CASE Subscribe
  BY <1>4 DEF Subscribe, WokenBy, clientVars, serverVars, faultVars
<1>5. CASE Publish
  BY <1>5 DEF Publish, WokenBy, clientVars, serverVars, faultVars
<1>6. CASE AwaitAnswer \/ ReadReply
  BY <1>6 DEF AwaitAnswer, ReadReply, WokenBy, eventVars, clientVars, netVars, serverVars, faultVars
<1>7. CASE Registered
  BY <1>7 DEF Registered, eventVars, clientVars, netVars, serverVars, faultVars
<1>8. CASE Fails
  BY <1>8, NothingUnderway
     DEF Fails, FailureColour, Destroy, NoSession, WokenBy, StageInv, Inside, eventVars,
         serverVars, faultVars
<1>9. CASE Backoff
  BY <1>9, RetriesAssumption DEF Backoff, eventVars, clientVars, netVars, serverVars, faultVars
<1>10. CASE GiveUp
  BY <1>10 DEF GiveUp, eventVars, netVars, serverVars, faultVars
<1>11. CASE TimesOut
  BY <1>11, BoundsAssumption DEF TimesOut, clientVars, netVars, serverVars
<1>12. CASE Connects
  <2>1. PICK e \in Bits : Raise(e)
    BY <1>12 DEF Connects, Bits
  <2> QED
    BY <1>12, <2>1, RaiseEffect DEF Connects, NoFault, serverVars, faultVars
<1>13. CASE Refused
  <2>1. PICK e \in Bits : Raise(e)
    BY <1>13 DEF Refused, Bits
  <2> QED
    BY <1>13, <2>1, RaiseEffect, BoundsAssumption DEF Refused, LinkFault, serverVars
<1>14. CASE Aborted
  <2>1. PICK e \in Bits : Raise(e)
    BY <1>14 DEF Aborted, Bits
  <2> QED
    BY <1>14, <2>1, RaiseEffect DEF Aborted, NoFault, serverVars, faultVars
<1>15. CASE LinkLost
  <2>1. PICK e \in Bits : Raise(e)
    BY <1>15 DEF LinkLost, Bits
  <2> QED
    BY <1>15, <2>1, RaiseEffect, BoundsAssumption, NothingUnderway
       DEF LinkLost, LinkFault, NoSession, serverVars
<1>16. CASE BrokerSubscribes
  BY <1>0, <1>16, AppendUnderway
     DEF BrokerSubscribes, NoFault, mainVars, eventVars, clientVars, serverVars, faultVars
<1>17. CASE BrokerForwards
  BY <1>0, <1>17, AppendUnderway
     DEF BrokerForwards, mainVars, eventVars, clientVars, faultVars
<1>18. CASE Receive
  <2>1. toDevice' \in Seq(Packets) /\ Head(toDevice) \in Packets
    BY <1>18, TailUnderway DEF Receive
  <2>2. PICK e \in Bits : Raise(e)
    BY <1>18 DEF Receive, Bits
  <2>3. status' \in Statuses /\ reply' \in Success \cup {"none"}
        /\ request' \in {"none", "queued", "sent"}
        /\ spoilt' \in BOOLEAN
    BY <1>18 DEF Receive
  <2> QED
    BY <1>18, <2>1, <2>2, <2>3, RaiseEffect DEF Receive, serverVars, faultVars
<1>19. CASE Handle
  BY <1>19 DEF Handle, OnServer, NoFault, mainVars, eventVars, clientVars, faultVars
<1>20. CASE Respond
  <2>1. toDevice' \in Seq(Packets)
    BY <1>0, <1>20, AppendUnderway DEF Respond, StageInv
  <2> QED
    BY <1>20, <2>1 DEF Respond, OnServer, NoFault, mainVars, eventVars, clientVars, faultVars
<1>21. CASE Reconnect
  BY <1>21 DEF Reconnect, OnServer, NoFault, mainVars, eventVars, clientVars, faultVars
<1>22. CASE ServerFails
  BY <1>22, BoundsAssumption DEF ServerFails, OnServer, mainVars, eventVars, clientVars
<1>23. CASE PowerCycle
  BY <1>23, BoundsAssumption, RetriesAssumption, NothingUnderway
     DEF PowerCycle, NoSession, serverVars
<1>24. CASE Finished
  BY <1>24 DEF Finished, vars, mainVars, eventVars, clientVars, netVars, serverVars, faultVars
<1>25. CASE HandlingFails
  BY <1>25, BoundsAssumption, HandlingFailsDoes
<1> QED
  BY <1>1, <1>2, <1>3, <1>4, <1>5, <1>6, <1>7, <1>8, <1>9, <1>10, <1>11, <1>12, <1>13, <1>14,
     <1>15, <1>16, <1>17, <1>18, <1>19, <1>20, <1>21, <1>22, <1>23, <1>24, <1>25
     DEF Next, MainStep, NetworkStep, ServerStep

\* Every step keeps client, event group and main task together.
LEMMA StepStage ==
  ASSUME TypeOK, StageInv, Next
  PROVE  StageInv'
<1>0. TypeOK'
  BY StepType
<1> USE <1>0 DEF StageInv, TypeOK, Inside, Stages
<1>1. CASE Begin
  BY <1>1 DEF Begin, netVars, serverVars, faultVars
<1>2. CASE StartAttempt
  BY <1>2 DEF StartAttempt, RetriesLeft, FreshBits, serverVars, faultVars
<1>3. CASE Wait
  BY <1>3 DEF Wait, eventVars, clientVars, netVars, serverVars, faultVars
<1>4. CASE Subscribe
  BY <1>4 DEF Subscribe, WokenBy, clientVars, serverVars, faultVars
<1>5. CASE Publish
  BY <1>5 DEF Publish, WokenBy, clientVars, serverVars, faultVars
<1>6. CASE AwaitAnswer
  BY <1>6 DEF AwaitAnswer, WokenBy, eventVars, clientVars, netVars, serverVars, faultVars
<1>7. CASE ReadReply
  BY <1>7 DEF ReadReply, WokenBy, eventVars, clientVars, netVars, serverVars, faultVars
<1>8. CASE Registered
  BY <1>8 DEF Registered, eventVars, clientVars, netVars, serverVars, faultVars
<1>9. CASE Fails
  BY <1>9 DEF Fails, Destroy, eventVars, serverVars, faultVars
<1>10. CASE Backoff
  BY <1>10 DEF Backoff, eventVars, clientVars, netVars, serverVars, faultVars
<1>11. CASE GiveUp
  BY <1>11 DEF GiveUp, eventVars, netVars, serverVars, faultVars
<1>12. CASE TimesOut
  BY <1>12 DEF TimesOut, clientVars, netVars, serverVars
<1>13. CASE Connects
  <2>1. PICK e \in Bits \ {"DATA"} : Raise(e)
    BY <1>13 DEF Connects, Bits
  <2> QED
    BY <1>13, <2>1, RaiseEffect DEF Connects, NoFault, serverVars, faultVars
<1>14. CASE Refused
  <2>1. PICK e \in Bits \ {"DATA"} : Raise(e)
    BY <1>14 DEF Refused, Bits
  <2> QED
    BY <1>14, <2>1, RaiseEffect DEF Refused, LinkFault, serverVars
<1>15. CASE Aborted
  <2>1. PICK e \in Bits \ {"DATA"} : Raise(e)
    BY <1>15 DEF Aborted, Bits
  <2> QED
    BY <1>15, <2>1, RaiseEffect DEF Aborted, NoFault, serverVars, faultVars
<1>16. CASE LinkLost
  <2>1. PICK e \in Bits \ {"DATA"} : Raise(e)
    BY <1>16 DEF LinkLost, Bits
  <2> QED
    BY <1>16, <2>1, RaiseEffect DEF LinkLost, LinkFault, serverVars
<1>17. CASE BrokerSubscribes \/ BrokerForwards
  BY <1>17
     DEF BrokerSubscribes, BrokerForwards, NoFault, mainVars, eventVars, clientVars, serverVars,
         faultVars
<1>18. CASE Receive
  <2>1. PICK e \in Bits : Raise(e) /\ (e = "DATA" => reply' \in Success)
        /\ (e # "DATA" => reply' = reply)
    BY <1>18 DEF Receive, Bits
  <2>2. stage = "parse" => status' # "none"
    BY <1>18 DEF Receive, Success
  <2>3. "none" \notin Success
    BY DEF Success
  <2> QED
    BY <1>18, <2>1, <2>2, <2>3, RaiseEffect DEF Receive, serverVars, faultVars
<1>19. CASE Handle \/ Respond \/ Reconnect
  BY <1>19
     DEF Handle, Respond, Reconnect, Success, OnServer, NoFault, mainVars, eventVars, clientVars,
         faultVars
<1>20. CASE ServerFails
  BY <1>20 DEF ServerFails, OnServer, mainVars, eventVars, clientVars
<1>23. CASE HandlingFails
  BY <1>23, HandlingFailsDoes
<1>21. CASE PowerCycle
  BY <1>21 DEF PowerCycle, serverVars
<1>22. CASE Finished
  BY <1>22 DEF Finished, vars, mainVars, eventVars, clientVars, netVars, serverVars, faultVars
<1> QED
  BY <1>1, <1>2, <1>3, <1>4, <1>5, <1>6, <1>7, <1>8, <1>9, <1>10, <1>11, <1>12, <1>13, <1>14,
     <1>15, <1>16, <1>17, <1>18, <1>19, <1>20, <1>21, <1>22, <1>23
     DEF Next, MainStep, NetworkStep, ServerStep

\* Every step respects that a success begins with the commit of a row.
LEMMA StepRow ==
  ASSUME RegistrationInv, Next
  PROVE  RowInv'
<1>0. TypeOK /\ StageInv /\ RowInv /\ "none" \notin Success /\ "torn" \notin Success
      /\ {"suback", "puback"} \cap Success = {}
  BY DEF RegistrationInv, Success
<1> USE <1>0 DEF RowInv, AnswerUnderway
<1>1. CASE Begin
  BY <1>1 DEF Begin, Underway, netVars, serverVars, faultVars
<1>2. CASE StartAttempt
  BY <1>2, NothingUnderway DEF StartAttempt, NoSession, serverVars, faultVars
<1>3. CASE Wait
  BY <1>3 DEF Wait, Underway, netVars, serverVars
<1>4. CASE Subscribe
  BY <1>4 DEF Subscribe, Underway, serverVars
<1>5. CASE Publish
  BY <1>5 DEF Publish, Underway, serverVars
<1>6. CASE AwaitAnswer \/ ReadReply
  BY <1>6 DEF AwaitAnswer, ReadReply, Underway, netVars, serverVars
<1>7. CASE Registered
  BY <1>7 DEF Registered, Underway, netVars, serverVars
<1>8. CASE Fails
  BY <1>8, NothingUnderway DEF Fails, FailureColour, Destroy, NoSession, serverVars
<1>9. CASE Backoff \/ GiveUp
  BY <1>9 DEF Backoff, GiveUp, Underway, netVars, serverVars
<1>10. CASE TimesOut
  BY <1>10 DEF TimesOut, Underway, netVars, serverVars
<1>11. CASE Connects \/ Refused \/ Aborted
  BY <1>11 DEF Connects, Refused, Aborted, Raise, Underway, serverVars
<1>12. CASE LinkLost
  BY <1>12, NothingUnderway DEF LinkLost, NoSession, Raise, serverVars
<1>13. CASE BrokerSubscribes \/ BrokerForwards
  <2>1. PICK x \in {"suback", "puback"} : toDevice' = Append(toDevice, x)
    BY <1>13 DEF BrokerSubscribes, BrokerForwards
  <2>2. \A y \in Success : Underway(y)' => Underway(y)
    BY <2>1, AppendUnderway DEF TypeOK, Packets
  <2> QED
    BY <1>13, <2>2 DEF BrokerSubscribes, BrokerForwards, mainVars, serverVars
<1>14. CASE Receive
  <2>1. /\ Underway(Head(toDevice)) /\ \A y \in Success : Underway(y)' => Underway(y)
    BY <1>14, TailUnderway DEF Receive, TypeOK
  <2>2. ASSUME ~row PROVE Head(toDevice) \notin Success
    BY <2>1, <2>2
  <2>3. UNCHANGED <<row, answer, stage, led>>
    BY <1>14 DEF Receive, Raise, serverVars
  <2>4. ASSUME ~row PROVE status' = status /\ reply' = reply
    BY <1>14, <2>2, <2>4 DEF Receive
  <2> QED
    BY <2>1, <2>3, <2>4
<1>15. CASE Handle
  BY <1>15 DEF Handle
<1>16. CASE Respond
  <2>1. row
    BY <1>16 DEF Respond, StageInv
  <2> QED
    BY <1>16, <2>1 DEF Respond
<1>17. CASE Reconnect \/ ServerFails \/ HandlingFails
  BY <1>17 DEF Reconnect, ServerFails, HandlingFails, OnServer, Underway, mainVars
<1>18. CASE PowerCycle
  BY <1>18, NothingUnderway DEF PowerCycle, NoSession, serverVars
<1>19. CASE Finished
  BY <1>19 DEF Finished, Underway, vars, mainVars, netVars, serverVars
<1> QED
  BY <1>1, <1>2, <1>3, <1>4, <1>5, <1>6, <1>7, <1>8, <1>9, <1>10, <1>11, <1>12, <1>13, <1>14,
     <1>15, <1>16, <1>17, <1>18, <1>19 DEF Next, MainStep, NetworkStep, ServerStep

\* Every step of an attempt that nothing has spoilt leaves it on its way.
LEMMA StepClean ==
  ASSUME RegistrationInv, Next
  PROVE  CleanInv'
<1>0. TypeOK /\ StageInv /\ RowInv /\ CleanInv /\ TypeOK' /\ StageInv'
  BY StepType, StepStage DEF RegistrationInv
<1>t. /\ stage \in Stages \cup {"begin", "attempt", "parse", "registered", "backoff", "gaveUp"}
      /\ step \in {"call", "blocked", "woken"} /\ link \in {"up", "down", "refused"}
      /\ request \in {"none", "queued", "sent"} /\ requests \in Nat /\ toDevice \in Seq(Packets)
      /\ server \in {"down", "listening", "answering"} /\ bits \subseteq Bits /\ got \subseteq Bits
  BY <1>0 DEF TypeOK
<1>s. Success = {"registered", "already_registered"}
      /\ Stages = {"connect", "subscribe", "publish", "answer"} /\ Inside = Stages \cup {"parse"}
  BY DEF Success, Stages, Inside
<1>b. \A s \in Stages :
         /\ Wanted[s] \in Awaited[s] /\ "DISCONNECTED" \in Awaited[s]
         /\ s = "connect" =>
            Wanted[s] = "CONNECTED" /\ Awaited[s] = {"CONNECTED", "DISCONNECTED", "ERROR"}
         /\ s = "subscribe" =>
            Wanted[s] = "SUBSCRIBED" /\ Awaited[s] = {"SUBSCRIBED", "DISCONNECTED"}
         /\ s = "publish" => Wanted[s] = "PUBLISHED" /\ Awaited[s] = {"PUBLISHED", "DISCONNECTED"}
         /\ s = "answer" => Wanted[s] = "DATA" /\ Awaited[s] = {"DATA", "DISCONNECTED"}
  BY StageBits
<1> USE <1>0, <1>t, <1>s, <1>b DEF CleanInv, CleanAttempt, NoNeedlessRetry
<1>1. CASE Begin \/ Registered \/ Backoff \/ GiveUp
  BY <1>1 DEF Begin, Registered, Backoff, GiveUp, faultVars
<1>2. CASE StartAttempt
  BY <1>2, NothingUnderway DEF StartAttempt, FreshBits, NoSession
<1>3. CASE Wait
  <2>1. /\ UNCHANGED <<stage, status, link, asked, request, subscribed, toDevice, requests, server,
           spoilt>>
        /\ \A y : Underway(y)' <=> Underway(y)
    BY <1>3 DEF Wait, netVars, serverVars, Underway
  <2>2. SUFFICES ASSUME stage \in Stages, ~spoilt PROVE CleanAttempt'
    BY <1>3, <2>1 DEF Wait
  <2>3. CASE bits \cap Awaited[stage] = {}
    BY <1>3, <2>1, <2>2, <2>3 DEF Wait, eventVars, AnswerDue, AnswerUnderway
  <2>4. CASE bits \cap Awaited[stage] # {}
    <3>1. Wanted[stage] \in bits
      BY <2>2, <2>4
    <3>2. step' = "woken" /\ got' = bits /\ bits' = bits \ Awaited[stage] /\ step = "call"
      BY <1>3, <2>4 DEF Wait
    <3>3. stage = "publish" => AnswerDue'
      BY <2>1, <2>2, <3>2 DEF AnswerDue, AnswerUnderway
    <3> QED
      BY <2>1, <2>2, <3>1, <3>2, <3>3
  <2> QED
    BY <2>3, <2>4
<1>4. CASE Subscribe
  <2>1. asked' <=> link = "up"
    <3>1. asked' = (link = "up")
      BY <1>4, Zenon DEF Subscribe
    <3> QED
      BY <3>1, Zenon
  <2>2. \A y : Underway(y)' <=> Underway(y)
    BY <1>4 DEF Subscribe, Underway
  <2> QED
    BY <1>4, <2>1, <2>2 DEF Subscribe, WokenBy
<1>5. CASE Publish
  <2>2. \A y : Underway(y)' <=> Underway(y)
    BY <1>5 DEF Publish, Underway
  <2> QED
    BY <1>5, <2>2 DEF Publish, WokenBy, AnswerDue
<1>6. CASE AwaitAnswer
  <2>2. \A y : Underway(y)' <=> Underway(y)
    BY <1>6 DEF AwaitAnswer, Underway, netVars
  <2> QED
    BY <1>6, <2>2 DEF AwaitAnswer, WokenBy, AnswerDue, AnswerUnderway, netVars, eventVars,
       serverVars
<1>7. CASE ReadReply
  <2>1. \A y : Underway(y)' <=> Underway(y)
    BY <1>7 DEF ReadReply, Underway, netVars
  <2>2. status' \in Success
    BY <1>7 DEF ReadReply, WokenBy, StageInv, TypeOK
  <2> QED
    BY <1>7, <2>1, <2>2 DEF ReadReply, WokenBy, netVars, eventVars
<1>8. CASE Fails
  BY <1>8 DEF Fails, WokenBy
<1>9. CASE TimesOut
  <2>1. CASE Coming
    BY <1>9, <2>1 DEF TimesOut
  <2>2. CASE ~Coming
    <3>1. /\ UNCHANGED <<stage, bits, status, link, asked, request, subscribed, toDevice, requests,
             server, spoilt>>
          /\ stage \in Stages /\ bits \cap Awaited[stage] = {} /\ step = "blocked"
          /\ \A y : Underway(y)' <=> Underway(y)
      BY <1>9, <2>2 DEF TimesOut, netVars, serverVars, Underway, StageInv
    <3>2. spoilt
      <4> SUFFICES ASSUME ~spoilt PROVE FALSE
        OBVIOUS
      <4>1. CleanAttempt
        BY <3>1
      <4> QED
        BY <2>2, <3>1, <4>1 DEF Coming, AnswerDue, AnswerUnderway
    <3> QED
      BY <3>1, <3>2
  <2> QED
    BY <2>1, <2>2
<1>10. CASE Connects
  <2>1. \A y : Underway(y)' <=> Underway(y)
    BY <1>10 DEF Connects, Underway
  <2>2. UNCHANGED <<request, requests, server, subscribed, asked, spoilt, status>> /\ link' = "up"
    BY <1>10 DEF Connects, NoFault, serverVars
  <2>3. Raise("CONNECTED") /\ "CONNECTED" \in Bits
    BY <1>10 DEF Connects, Bits
  <2>4. stage \in Inside /\ ~spoilt => stage = "connect" /\ step # "woken"
    BY <1>10 DEF Connects
  <2> QED
    BY <2>1, <2>2, <2>3, <2>4, RaiseEffect DEF AnswerDue, AnswerUnderway
<1>11. CASE Refused \/ LinkLost \/ ServerFails \/ HandlingFails
  BY <1>11 DEF Refused, LinkLost, ServerFails, HandlingFails, LinkFault, OnServer, mainVars
<1>12. CASE Aborted
  <2>1. stage' = stage /\ spoilt' = spoilt
    BY <1>12 DEF Aborted, Raise, NoFault
  <2> QED
    BY <1>12, <2>1 DEF Aborted
<1>13. CASE BrokerSubscribes
  <2>1. \A y : Underway(y)' <=> Underway(y) \/ y = "suback"
    BY <1>13, AppendUnderway DEF BrokerSubscribes, Packets
  <2> QED
    BY <1>13, <2>1
       DEF BrokerSubscribes, NoFault, AnswerDue, AnswerUnderway, mainVars, eventVars, serverVars
<1>14. CASE BrokerForwards
  <2>1. \A y : Underway(y)' <=> Underway(y) \/ y = "puback"
    BY <1>14, AppendUnderway DEF BrokerForwards, Packets
  <2> QED
    BY <1>14, <2>1 DEF BrokerForwards, AnswerDue, AnswerUnderway, mainVars, eventVars
<1>15. CASE Receive
  <2>1. /\ Underway(Head(toDevice)) /\ \A y : Underway(y)' => Underway(y)
        /\ \A y : Underway(y) => Underway(y)' \/ y = Head(toDevice)
    BY <1>15, TailUnderway DEF Receive
  <2>2. UNCHANGED <<stage, link, asked, subscribed, requests, server>>
    BY <1>15 DEF Receive, Raise, serverVars
  <2>0. spoilt => spoilt'
    BY <1>15, Zenon DEF Receive
  <2>3. SUFFICES ASSUME stage \in Inside, ~spoilt', ~spoilt PROVE CleanAttempt'
    BY <2>0, <2>2
  <2>4. CASE Head(toDevice) = "suback" /\ Raise("SUBSCRIBED")
             /\ UNCHANGED <<status, request, reply, spoilt>>
    <3>1. "SUBSCRIBED" \in Bits
      BY DEF Bits
    <3> QED
      BY <2>1, <2>2, <2>3, <2>4, <3>1, RaiseEffect DEF AnswerDue, AnswerUnderway
  <2>5. CASE Head(toDevice) = "puback" /\ Raise("PUBLISHED") /\ request' = "none"
             /\ UNCHANGED <<status, reply, spoilt>>
    <3>1. "PUBLISHED" \in Bits
      BY DEF Bits
    <3> QED
      BY <2>1, <2>2, <2>3, <2>5, <3>1, RaiseEffect DEF AnswerDue, AnswerUnderway
  <2>6. CASE Head(toDevice) \in Success /\ Raise("DATA") /\ UNCHANGED request
    <3>1. "DATA" \in Bits
      BY DEF Bits
    <3>2. stage = "parse" => status' \in Success
      <4>1. stage = "parse" => status' # "torn"
        BY <1>15, <2>3, <2>6 DEF Receive
      <4> QED
        BY <1>15, <2>3, <2>6, <4>1 DEF Receive
    <3> QED
      BY <2>1, <2>2, <2>3, <2>6, <3>1, <3>2, RaiseEffect DEF AnswerDue, AnswerUnderway
  <2> QED
    BY <1>15, <2>4, <2>5, <2>6 DEF Receive
<1>16. CASE Handle \/ Reconnect
  <2>1. \A y : Underway(y)' <=> Underway(y)
    BY <1>16 DEF Handle, Reconnect, Underway
  <2> QED
    BY <1>16, <2>1
       DEF Handle, Reconnect, OnServer, NoFault, AnswerDue, AnswerUnderway, mainVars, eventVars
<1>17. CASE Respond
  <2>1. answer \in Success /\ answer \in Packets
    BY <1>17 DEF Respond, StageInv, Packets
  <2>2. \A y : Underway(y)' <=> Underway(y) \/ (subscribed /\ y = answer)
    <3>1. CASE subscribed
      BY <1>17, <2>1, <3>1, AppendUnderway DEF Respond
    <3>2. CASE ~subscribed
      BY <1>17, <3>2 DEF Respond, Underway
    <3> QED
      BY <3>1, <3>2
  <2> QED
    BY <1>17, <2>1, <2>2 DEF Respond, OnServer, NoFault, AnswerDue, AnswerUnderway, mainVars,
       eventVars
<1>18. CASE PowerCycle
  BY <1>18 DEF PowerCycle
<1>19. CASE Finished
  <2>1. \A y : Underway(y)' <=> Underway(y)
    BY <1>19 DEF Finished, vars, netVars, Underway
  <2> QED
    BY <1>19, <2>1
       DEF Finished, vars, mainVars, eventVars, netVars, serverVars, faultVars, AnswerDue,
           AnswerUnderway
<1> QED
  BY <1>1, <1>2, <1>3, <1>4, <1>5, <1>6, <1>7, <1>8, <1>9, <1>10, <1>11, <1>12, <1>13, <1>14,
     <1>15, <1>16, <1>17, <1>18, <1>19 DEF Next, MainStep, NetworkStep, ServerStep

\* Every step keeps the one "registered" in one place.
LEMMA StepOnce ==
  ASSUME RegistrationInv, Next
  PROVE  OnceInv'
<1>0. TypeOK /\ StageInv /\ RowInv /\ OnceInv
  BY DEF RegistrationInv
<1>t. toDevice \in Seq(Packets) /\ "registered" \in Success /\ Success \subseteq Packets
      /\ "suback" \notin Success /\ "puback" \notin Success /\ "none" \notin Success
      /\ "suback" \in Packets /\ "puback" \in Packets
         /\ server \in {"down", "listening", "answering"}
  BY <1>0 DEF TypeOK, Packets, Success
<1> DEFINE P == {"registered"}
<1> USE <1>0, <1>t DEF OnceInv
<1>1. ASSUME UNCHANGED <<toDevice, server, answer, reply>>, status' = status \/ status' = reply
      PROVE  OnceInv'
  <2>1. (\A y : Underway(y)' <=> Underway(y)) /\ AtMostOne(P)'
    BY <1>1 DEF Underway, AtMostOne
  <2> QED
    BY <1>1, <2>1
<1>2. CASE Begin \/ Wait \/ Subscribe \/ Publish \/ AwaitAnswer \/ ReadReply
  BY <1>1, <1>2
     DEF Begin, Wait, Subscribe, Publish, AwaitAnswer, ReadReply, netVars, serverVars
<1>3. CASE Registered \/ Backoff \/ GiveUp \/ TimesOut
  BY <1>1, <1>3 DEF Registered, Backoff, GiveUp, TimesOut, netVars, serverVars
<1>4. CASE Connects \/ Refused \/ Aborted
  BY <1>1, <1>4 DEF Connects, Refused, Aborted, serverVars
<1>5. CASE Finished
  BY <1>1, <1>5 DEF Finished, vars, mainVars, netVars, serverVars
<1>6. ASSUME NoSession, UNCHANGED <<server, answer>>, reply' \in {reply, "none"},
             status' \in {status, "none"}
      PROVE  OnceInv'
  <2>1. (\A y : ~Underway(y)') /\ AtMostOne(P)'
    BY <1>6, NothingUnderway DEF NoSession, AtMostOne
  <2> QED
    BY <1>6, <2>1
<1>7. CASE StartAttempt
  BY <1>6, <1>7 DEF StartAttempt, serverVars
<1>8. CASE Fails \/ LinkLost
  BY <1>6, <1>8 DEF Fails, Destroy, LinkLost, serverVars
<1>9. CASE PowerCycle
  BY <1>6, <1>9 DEF PowerCycle, serverVars
<1>10. CASE BrokerSubscribes \/ BrokerForwards
  <2>1. PICK x \in {"suback", "puback"} : toDevice' = Append(toDevice, x)
    BY <1>10 DEF BrokerSubscribes, BrokerForwards
  <2>2. (Underway("registered")' <=> Underway("registered")) /\ AtMostOne(P)'
    BY <2>1, AppendUnderway, AppendAtMostOne
  <2> QED
    BY <1>10, <2>2 DEF BrokerSubscribes, BrokerForwards, mainVars, serverVars
<1>11. CASE Receive
  <2>1. /\ Underway(Head(toDevice)) /\ (Underway("registered")' => Underway("registered"))
        /\ AtMostOne(P)' /\ (Head(toDevice) = "registered" => ~Underway("registered")')
    BY <1>11, TailUnderway, TailAtMostOne DEF Receive
  <2>2. UNCHANGED <<server, answer>>
    BY <1>11 DEF Receive, serverVars
  <2>3. \/ UNCHANGED <<status, reply>>
        \/ reply' = Head(toDevice) /\ status' \in {status, Head(toDevice), "torn"}
    BY <1>11 DEF Receive
  <2> QED
    BY <2>1, <2>2, <2>3
<1>12. CASE Handle
  <2>1. (\A y : Underway(y)' <=> Underway(y)) /\ AtMostOne(P)'
    BY <1>12 DEF Handle, Underway, AtMostOne
  <2>2. ~row => ~Underway("registered") /\ reply # "registered" /\ status # "registered"
    BY DEF RowInv, AnswerUnderway
  <2>3. UNCHANGED <<reply, status>> /\ (answer' = "registered" => ~row)
    BY <1>12 DEF Handle, OnServer, mainVars
  <2> QED
    BY <2>1, <2>2, <2>3
<1>13. CASE Respond
  <2>1. answer \in Success /\ UNCHANGED <<reply, status>> /\ server' = "listening"
        /\ server = "answering"
    BY <1>13 DEF Respond, StageInv, OnServer, mainVars
  <2>2. CASE subscribed
    <3>1. Underway("registered")' <=> Underway("registered") \/ "registered" = answer
      BY <1>13, <2>1, <2>2, AppendUnderway DEF Respond
    <3>2. AtMostOne(P)'
      BY <1>13, <2>1, <2>2, AppendAtMostOne DEF Respond
    <3> QED
      BY <2>1, <3>1, <3>2
  <2>3. CASE ~subscribed
    <3>1. (\A y : Underway(y)' <=> Underway(y)) /\ AtMostOne(P)'
      BY <1>13, <2>3 DEF Respond, Underway, AtMostOne
    <3> QED
      BY <2>1, <3>1
  <2> QED
    BY <2>2, <2>3
<1>14. CASE Reconnect \/ ServerFails \/ HandlingFails
  <2>1. (\A y : Underway(y)' <=> Underway(y)) /\ AtMostOne(P)'
    BY <1>14 DEF Reconnect, ServerFails, HandlingFails, Underway, AtMostOne
  <2> QED
    BY <1>14, <2>1 DEF Reconnect, ServerFails, HandlingFails, OnServer, mainVars
<1> QED
  BY <1>2, <1>3, <1>4, <1>5, <1>7, <1>8, <1>9, <1>10, <1>11, <1>12, <1>13, <1>14
     DEF Next, MainStep, NetworkStep, ServerStep

\* Without a fault there is one request, one answer and no failed attempt.
LEMMA StepLone ==
  ASSUME RegistrationInv, Next
  PROVE  LoneInv'
<1>0. TypeOK /\ StageInv /\ CleanInv /\ LoneInv /\ TypeOK' /\ CleanInv'
  BY StepType, StepClean DEF RegistrationInv
<1>t. /\ stage \in Stages \cup {"begin", "attempt", "parse", "registered", "backoff", "gaveUp"}
      /\ step \in {"call", "blocked", "woken"} /\ link \in {"up", "down", "refused"}
      /\ request \in {"none", "queued", "sent"} /\ requests \in Nat /\ toDevice \in Seq(Packets)
      /\ server \in {"down", "listening", "answering"} /\ bits \subseteq Bits
      /\ faults \in Nat /\ serverFaults \in Nat /\ boots \in Nat
  BY <1>0, BoundsAssumption DEF TypeOK
<1>s. /\ Success \subseteq Packets /\ "suback" \notin Success /\ "puback" \notin Success
      /\ "suback" \in Packets /\ "puback" \in Packets
      /\ Stages = {"connect", "subscribe", "publish", "answer"} /\ Inside = Stages \cup {"parse"}
  BY DEF Packets, Success, Stages, Inside
<1>b. /\ Awaited["answer"] = {"DATA", "DISCONNECTED"} /\ Wanted["answer"] = "DATA"
      /\ \A x \in Stages \ {"answer"} : Wanted[x] # "DATA" /\ "DATA" \notin Awaited[x]
      /\ Wanted["connect"] = "CONNECTED" /\ Wanted["subscribe"] = "SUBSCRIBED"
      /\ Wanted["publish"] = "PUBLISHED"
  BY StageBits DEF Stages, Wanted, Awaited
<1> DEFINE Quiet == faults = 0 /\ serverFaults = 0 /\ boots = 0
<1>1. CASE Refused \/ LinkLost
  <2>1. faults' # 0
    BY <1>1, <1>t DEF Refused, LinkLost, LinkFault
  <2> QED
    BY <2>1 DEF LoneInv
<1>2. CASE ServerFails \/ HandlingFails
  <2>1. serverFaults' # 0
    BY <1>2, <1>t, HandlingFailsDoes DEF ServerFails
  <2> QED
    BY <2>1 DEF LoneInv
<1>3. CASE PowerCycle
  <2>1. boots' # 0
    BY <1>3, <1>t DEF PowerCycle
  <2> QED
    BY <2>1 DEF LoneInv
<1>4. CASE TimesOut /\ Coming
  <2>1. faults' # 0
    BY <1>4, <1>t DEF TimesOut
  <2> QED
    BY <2>1 DEF LoneInv
<1>5. CASE Reconnect
  <2>1. serverFaults' # 0
    BY <1>5, <1>0, <1>t DEF Reconnect, NoFault, faultVars, StageInv
  <2> QED
    BY <2>1 DEF LoneInv
\* What the other steps have in common.
<1>6. ASSUME UNCHANGED <<faults, serverFaults, boots>>,
             Quiet => /\ ~spoilt' /\ attempt' = 0 /\ stage' # "backoff"
                      /\ stage' \notin {"publish", "answer"} => Untouched'
                      /\ stage' \in {"begin", "attempt", "connect", "subscribe"} =>
                         "DATA" \notin bits'
                      /\ LoneAnswer'
      PROVE  LoneInv'
  BY <1>6 DEF LoneInv
<1> USE <1>0, <1>t, <1>s, <1>b DEF LoneInv, Untouched, LoneAnswer, DataSeen, faultVars
<1>7. ASSUME UNCHANGED toDevice
      PROVE  (AnswerUnderway' <=> AnswerUnderway) /\ (AtMostOne(Success)' <=> AtMostOne(Success))
  BY <1>7 DEF AnswerUnderway, Underway, AtMostOne
<1>8. ASSUME toDevice' = <<>>
      PROVE  ~AnswerUnderway' /\ AtMostOne(Success)'
  BY <1>8, NothingUnderway DEF AnswerUnderway, AtMostOne
<1>9. CASE Begin
  BY <1>6, <1>7, <1>9 DEF Begin, netVars, serverVars
<1>10. CASE StartAttempt
  BY <1>6, <1>8, <1>10 DEF StartAttempt, FreshBits, NoSession, serverVars
<1>11. CASE Wait
  <2>1. UNCHANGED <<stage, attempt, request, requests, server, spoilt, faultVars, toDevice>>
        /\ stage \in Stages /\ step = "call"
    BY <1>11 DEF Wait, netVars, serverVars
  <2>2. bits' \subseteq bits /\ (stage # "answer" => ("DATA" \in bits' <=> "DATA" \in bits))
    BY <1>11 DEF Wait, eventVars
  <2>3. Quiet => (DataSeen' => DataSeen)
    <3>1. Quiet => bits \cap {"DISCONNECTED", "ERROR"} = {}
      BY <2>1 DEF CleanInv, CleanAttempt
    <3> QED
      BY <1>11, <2>1, <2>2, <3>1 DEF Wait, eventVars
  <2>4. (AnswerUnderway' <=> AnswerUnderway) /\ (AtMostOne(Success)' <=> AtMostOne(Success))
    BY <1>7, <2>1
  <2>5. Quiet => LoneAnswer' /\ (stage' \notin {"publish", "answer"} => Untouched')
    BY <2>1, <2>2, <2>3, <2>4
  <2> QED
    BY <1>6, <2>1, <2>2, <2>5
<1>12. CASE Subscribe
  <2>1. Quiet => Untouched /\ "DATA" \notin bits /\ AtMostOne(Success) /\ ~spoilt /\ attempt = 0
    BY <1>12 DEF Subscribe, WokenBy
  <2>2. UNCHANGED <<attempt, request, requests, server, spoilt, faultVars>> /\ stage' = "subscribe"
        /\ bits' \subseteq bits
    BY <1>12 DEF Subscribe, serverVars
  <2>3. (AnswerUnderway' <=> AnswerUnderway) /\ (AtMostOne(Success)' <=> AtMostOne(Success))
    BY <1>7, <1>12 DEF Subscribe
  <2> QED
    BY <1>6, <2>1, <2>2, <2>3
<1>13. CASE Publish
  BY <1>6, <1>7, <1>13 DEF Publish, WokenBy, serverVars
<1>14. CASE AwaitAnswer
  BY <1>6, <1>7, <1>14 DEF AwaitAnswer, WokenBy, eventVars, netVars, serverVars
<1>15. CASE ReadReply
  <2>1. stage = "answer" /\ step = "woken" /\ stage' = "parse"
        /\ UNCHANGED <<attempt, bits, request, requests, server, spoilt, faultVars, toDevice>>
    BY <1>15 DEF ReadReply, WokenBy, eventVars, netVars, serverVars
  <2>2. Quiet => Untouched /\ AtMostOne(Success) /\ ~spoilt /\ attempt = 0
    BY <2>1 DEF StageInv
  <2>3. (AnswerUnderway' <=> AnswerUnderway) /\ (AtMostOne(Success)' <=> AtMostOne(Success))
    BY <1>7, <2>1
  <2> QED
    BY <1>6, <2>1, <2>2, <2>3
<1>16. CASE Registered \/ GiveUp
  BY <1>6, <1>7, <1>16 DEF Registered, GiveUp, eventVars, netVars, serverVars
<1>17. CASE Fails
  <2>1. spoilt' /\ UNCHANGED <<spoilt, faultVars>>
    BY <1>17 DEF Fails, CleanInv, NoNeedlessRetry
  <2> QED
    BY <1>6, <2>1
<1>18. CASE Backoff
  BY <1>6, <1>18 DEF Backoff
<1>19. CASE TimesOut /\ ~Coming
  <2>1. UNCHANGED <<stage, attempt, bits, request, requests, server, spoilt, faultVars, toDevice>>
        /\ step' = "woken" /\ step = "blocked" /\ stage \in Stages
    BY <1>19 DEF TimesOut, netVars, serverVars, faultVars, StageInv
  <2>2. stage = "answer" => request # "queued" /\ requests = 0 /\ server # "answering"
        /\ ~AnswerUnderway
    BY <1>19 DEF Coming, AnswerUnderway
  <2> QED
    BY <1>6, <1>7, <2>1, <2>2
<1>20. CASE Connects \/ Aborted
  <2>1. PICK e \in Bits \ {"DATA"} : Raise(e)
    BY <1>20 DEF Connects, Aborted, Bits
  <2>2. UNCHANGED <<request, requests, server, spoilt, faultVars, toDevice>>
    BY <1>20 DEF Connects, Aborted, NoFault, serverVars
  <2>3. Quiet => (DataSeen' => DataSeen)
    <3>1. Quiet => link # "refused" \/ stage \notin Inside
      BY DEF CleanInv, CleanAttempt
    <3>2. ASSUME stage = "answer", Quiet PROVE link = "up"
      BY <3>2 DEF CleanInv, CleanAttempt
    <3>3. stage = "answer" => ~Quiet
      BY <1>20, <3>1, <3>2 DEF Connects, Aborted
    <3> QED
      BY <2>1, <3>3, RaiseEffect
  <2> QED
    BY <1>6, <1>7, <2>1, <2>2, <2>3, RaiseEffect
<1>21. CASE BrokerSubscribes \/ BrokerForwards
  <2>1. PICK x \in {"suback", "puback"} : toDevice' = Append(toDevice, x)
    BY <1>21 DEF BrokerSubscribes, BrokerForwards
  <2>2. /\ AnswerUnderway' <=> AnswerUnderway
        /\ AtMostOne(Success) => AtMostOne(Success)'
    BY <2>1, AppendUnderway, AppendAtMostOne DEF AnswerUnderway
  <2>3. Quiet => server # "down"
    BY DEF StageInv
  <2> QED
    BY <1>6, <1>21, <2>2, <2>3
       DEF BrokerSubscribes, BrokerForwards, NoFault, mainVars, eventVars, serverVars
<1>22. CASE Receive
  <2>1. /\ Underway(Head(toDevice)) /\ (AnswerUnderway' => AnswerUnderway)
        /\ AtMostOne(Success) => AtMostOne(Success)'
        /\ AtMostOne(Success) /\ Head(toDevice) \in Success => ~AnswerUnderway'
    BY <1>22, TailUnderway, TailAtMostOne DEF Receive, AnswerUnderway
  <2>2. UNCHANGED <<requests, server, faultVars, stage, attempt>>
    BY <1>22 DEF Receive, serverVars, Raise
  <2>3. CASE Head(toDevice) \in Success
    <3>1. AnswerUnderway
      BY <2>1, <2>3 DEF AnswerUnderway
    <3>2. UNCHANGED request /\ (stage # "parse" => (~spoilt => ~spoilt'))
      BY <1>22, <2>3 DEF Receive
    <3> QED
      BY <1>6, <2>1, <2>2, <2>3, <3>1, <3>2
  <2>4. CASE Head(toDevice) \notin Success
    <3>1. PICK e \in Bits \ {"DATA"} : Raise(e) /\ (e = "SUBSCRIBED" \/ e = "PUBLISHED")
      BY <1>22, <2>4 DEF Receive, Bits
    <3>2. UNCHANGED spoilt /\ (request' = request \/ request' = "none")
      BY <1>22, <2>4 DEF Receive
    <3>3. stage = "answer" => e \notin Awaited[stage]
      BY <3>1
    <3> QED
      BY <1>6, <2>1, <2>2, <3>1, <3>2, <3>3, RaiseEffect
  <2> QED
    BY <2>3, <2>4
<1>23. CASE Handle
  BY <1>6, <1>7, <1>23 DEF Handle, OnServer, NoFault, mainVars, eventVars
<1>24. CASE Respond
  <2>1. answer \in Success
        /\ UNCHANGED <<stage, step, attempt, bits, request, requests, spoilt, faultVars>>
        /\ server = "answering" /\ server' = "listening"
    BY <1>24 DEF Respond, StageInv, OnServer, NoFault, mainVars, eventVars
  <2>2. CASE subscribed
    <3>1. (AnswerUnderway \/ AtMostOne(Success)') \/ ~AtMostOne(Success)
      BY <1>24, <2>1, <2>2, AppendAtMostOne DEF Respond, AnswerUnderway
    <3>2. AnswerUnderway'
      BY <1>24, <2>1, <2>2, AppendUnderway DEF Respond, AnswerUnderway
    <3> QED
      BY <1>6, <2>1, <3>1, <3>2
  <2>3. CASE ~subscribed
    BY <1>6, <1>7, <1>24, <2>1, <2>3 DEF Respond
  <2> QED
    BY <2>2, <2>3
<1>25. CASE Finished
  BY <1>6, <1>7, <1>25 DEF Finished, vars, mainVars, eventVars, netVars, serverVars
<1> QED
  BY <1>1, <1>2, <1>3, <1>4, <1>5, <1>9, <1>10, <1>11, <1>12, <1>13, <1>14, <1>15, <1>16, <1>17,
     <1>18, <1>19, <1>20, <1>21, <1>22, <1>23, <1>24, <1>25
     DEF Next, MainStep, NetworkStep, ServerStep

\* Only DATA brings an answer to where it could be torn.
LEMMA RaiseDoes ==
  ASSUME RegistrationInv, NEW e \in Bits, Raise(e)
  PROVE  e # "DATA" =>
           /\ "DATA" \in bits' => "DATA" \in bits
           /\ stage = "answer" /\ step' = "woken" /\ "DATA" \in got' =>
                step = "woken" /\ "DATA" \in got
<1>1. TypeOK /\ StageInv
  BY DEF RegistrationInv
<1>2. step = "blocked" => stage \in Stages /\ bits \cap Awaited[stage] = {}
  BY <1>1 DEF StageInv
<1>3. stage = "answer" => "DATA" \in Awaited[stage]
  BY StageBits DEF Stages
<1> QED
  BY <1>1, <1>2, <1>3, RaiseEffect

\* Every step is paid for.
LEMMA StepCost ==
  ASSUME RegistrationInv, Next
  PROVE  CostInv'
<1>0. TypeOK /\ StageInv /\ RowInv /\ CleanInv /\ OnceInv /\ CostInv /\ CleanInv'
  BY StepClean DEF RegistrationInv
<1>t. /\ stage \in Stages \cup {"begin", "attempt", "parse", "registered", "backoff", "gaveUp"}
      /\ step \in {"call", "blocked", "woken"}
      /\ toDevice \in Seq(Packets) /\ bits \subseteq Bits /\ got \subseteq Bits
      /\ faults \in Nat /\ serverFaults \in Nat /\ missed \in Nat /\ attempt \in Nat
      /\ Failed \in Nat
  BY <1>0, BoundsAssumption, RetriesAssumption DEF TypeOK, Failed, Count
<1>s. /\ Success = {"registered", "already_registered"} /\ Success \subseteq Packets
      /\ "suback" \in Packets /\ "puback" \in Packets
      /\ Stages = {"connect", "subscribe", "publish", "answer"} /\ Inside = Stages \cup {"parse"}
  BY DEF Packets, Success, Stages, Inside
<1>b. /\ Awaited["answer"] = {"DATA", "DISCONNECTED"} /\ Wanted["answer"] = "DATA"
      /\ Wanted["connect"] = "CONNECTED" /\ Wanted["subscribe"] = "SUBSCRIBED"
      /\ Wanted["publish"] = "PUBLISHED"
      /\ \A s \in Stages \ {"answer"} : "DATA" \notin Awaited[s]
  BY StageBits DEF Stages, Wanted, Awaited
<1> DEFINE Spent == stage \in Inside /\ spoilt
           Paid == faults + serverFaults + missed
\* A step that costs nothing, and a fault or a missed request.
<1>1. ASSUME UNCHANGED <<faults, serverFaults, missed>>, Failed' = Failed, Tearable' => Tearable,
             Spent' => Spent
      PROVE  CostInv'
  BY <1>0, <1>1, <1>t DEF CostInv, Count
<1>2. ASSUME Paid' = Paid + 1, Failed' = Failed, Tearable' => Tearable
      PROVE  CostInv'
  BY <1>0, <1>2, <1>t DEF CostInv, Count
<1>3. ASSUME UNCHANGED toDevice PROVE Underway("registered")' <=> Underway("registered")
  BY <1>3 DEF Underway
<1>4. ASSUME toDevice' = <<>> PROVE ~Underway("registered")'
  BY <1>4, NothingUnderway
<1>5. CASE Begin
  <2>1. (Tearable' => Tearable) /\ (Spent' => Spent)
    BY <1>3, <1>5, <1>s DEF Begin, Tearable, netVars, serverVars
  <2> QED
    BY <1>1, <1>5, <2>1 DEF Begin, Failed, Count, faultVars
<1>6. CASE StartAttempt
  <2>1. (Tearable' => Tearable) /\ (Spent' => Spent)
    BY <1>4, <1>6, <1>s DEF StartAttempt, FreshBits, NoSession, Tearable, serverVars
  <2> QED
    BY <1>1, <1>6, <2>1 DEF StartAttempt, Failed, Count, faultVars
<1>7. CASE Wait
  <2>1. /\ UNCHANGED <<stage, attempt, status, toDevice, reply, server, answer, row, spoilt,
                       faults, serverFaults, missed>>
        /\ stage \in Stages /\ step = "call"
    BY <1>7 DEF Wait, netVars, serverVars, faultVars
  <2>2. \/ step' = "blocked" /\ bits' = bits /\ got' = got
        \/ /\ step' = "woken" /\ got' = bits /\ bits' = bits \ Awaited[stage]
           /\ bits \cap Awaited[stage] # {}
    BY <1>7 DEF Wait, eventVars
  <2>3. Tearable' => Tearable
    BY <1>3, <1>s, <1>b, <2>1, <2>2 DEF Tearable
  <2> QED
    BY <1>1, <2>1, <2>3 DEF Failed, Count
<1>8. CASE Subscribe
  <2>1. Tearable' => Tearable
    BY <1>3, <1>8 DEF Subscribe, Tearable, serverVars
  <2>2. stage = "connect"
    BY <1>8, <1>s, <1>b DEF Subscribe, WokenBy
  <2> QED
    BY <1>1, <1>8, <1>s, <2>1, <2>2 DEF Subscribe, Failed, Count, faultVars
<1>9. CASE Publish
  <2>1. Tearable' => Tearable
    BY <1>3, <1>9 DEF Publish, Tearable, serverVars
  <2>2. stage = "subscribe"
    BY <1>9, <1>s, <1>b DEF Publish, WokenBy
  <2> QED
    BY <1>1, <1>9, <1>s, <2>1, <2>2 DEF Publish, Failed, Count, faultVars
<1>10. CASE AwaitAnswer
  <2>1. stage = "publish"
    BY <1>10, <1>s, <1>b DEF AwaitAnswer, WokenBy
  <2>2. Tearable' => Tearable
    BY <1>3, <1>10, <2>1 DEF AwaitAnswer, Tearable, netVars, eventVars, serverVars
  <2> QED
    BY <1>1, <1>10, <1>s, <2>1, <2>2 DEF AwaitAnswer, Failed, Count, faultVars
<1>11. CASE ReadReply
  <2>1. stage = "answer" /\ step = "woken" /\ "DATA" \in got /\ status' = reply
    BY <1>11, <1>s, <1>b DEF ReadReply, WokenBy
  <2>2. Tearable' => Tearable
    BY <1>3, <1>11, <2>1 DEF ReadReply, Tearable, netVars, eventVars, serverVars
  <2> QED
    BY <1>1, <1>11, <1>s, <2>1, <2>2 DEF ReadReply, Failed, Count, faultVars
<1>12. CASE Registered
  <2>1. (Tearable' => Tearable) /\ stage = "parse" /\ stage' = "registered"
    BY <1>3, <1>12 DEF Registered, Tearable, netVars, eventVars, serverVars
  <2> QED
    BY <1>1, <1>12, <1>s, <2>1 DEF Registered, Failed, Count, faultVars
<1>13. CASE Fails
  <2>1. Spent /\ ~Spent'
    BY <1>0, <1>13, <1>s DEF Fails, CleanInv, NoNeedlessRetry
  <2>2. Failed' = Failed + 1 /\ UNCHANGED <<faults, serverFaults, missed>>
    BY <1>13, <1>s, <1>t DEF Fails, Failed, Count, faultVars
  <2>3. Tearable' => Tearable
    BY <1>4, <1>13 DEF Fails, Destroy, NoSession, Tearable, serverVars
  <2> QED
    BY <1>0, <1>t, <2>1, <2>2, <2>3 DEF CostInv, Count
<1>14. CASE Backoff \/ GiveUp
  <2>1. (Tearable' => Tearable) /\ (Spent' => Spent)
    BY <1>3, <1>14, <1>s DEF Backoff, GiveUp, Tearable, netVars, serverVars
  <2>2. Failed' = Failed
    BY <1>14, <1>t DEF Backoff, GiveUp, Failed, Count
  <2> QED
    BY <1>1, <1>14, <2>1, <2>2 DEF Backoff, GiveUp, faultVars
<1>15. CASE TimesOut
  <2>1. /\ UNCHANGED <<stage, attempt, status, bits, toDevice, reply, server, answer, row,
                       serverFaults, missed>>
        /\ stage \in Stages /\ step = "blocked" /\ bits \cap Awaited[stage] = {}
        /\ step' = "woken" /\ got' = bits
    BY <1>0, <1>15 DEF TimesOut, StageInv, netVars, serverVars
  <2>2. Tearable' => Tearable
    BY <1>3, <1>s, <1>b, <2>1 DEF Tearable
  <2>3. Failed' = Failed
    BY <2>1 DEF Failed, Count
  <2>4. (faults' = faults + 1) \/ UNCHANGED <<faults, spoilt>>
    BY <1>15 DEF TimesOut
  <2> QED
    BY <1>1, <1>2, <1>t, <2>1, <2>2, <2>3, <2>4
<1>16. CASE Connects \/ Aborted
  <2>1. PICK e \in Bits \ {"DATA"} : Raise(e)
    BY <1>16 DEF Connects, Aborted, Bits
  <2>2. UNCHANGED <<stage, attempt, status, toDevice, reply, server, answer, row, spoilt, faults,
                    serverFaults, missed>>
    BY <1>16, <2>1 DEF Connects, Aborted, Raise, NoFault, serverVars, faultVars
  <2>3. Tearable' => Tearable
    BY <1>3, <2>1, <2>2, RaiseDoes DEF Tearable
  <2> QED
    BY <1>1, <2>2, <2>3 DEF Failed, Count
<1>17. CASE Refused
  <2>1. Raise("ERROR") /\ "ERROR" \in Bits
    BY <1>17 DEF Refused, Bits
  <2>2. UNCHANGED <<stage, attempt, status, toDevice, reply, server, answer, row, serverFaults,
                    missed>>
        /\ faults' = faults + 1
    BY <1>17, <2>1 DEF Refused, Raise, LinkFault, serverVars
  <2>3. Tearable' => Tearable
    BY <1>3, <2>1, <2>2, RaiseDoes DEF Tearable
  <2> QED
    BY <1>2, <1>t, <2>2, <2>3 DEF Failed, Count
<1>19. CASE LinkLost
  <2>1. Raise("DISCONNECTED") /\ "DISCONNECTED" \in Bits /\ toDevice' = <<>>
    BY <1>19 DEF LinkLost, NoSession, Bits
  <2>2. UNCHANGED <<stage, attempt, status, reply, server, answer, row, serverFaults, missed>>
        /\ faults' = faults + 1
    BY <1>19, <2>1 DEF LinkLost, Raise, LinkFault, serverVars
  <2>3. Tearable' => Tearable
    BY <1>4, <2>1, <2>2, RaiseDoes DEF Tearable
  <2> QED
    BY <1>2, <1>t, <2>2, <2>3 DEF Failed, Count
<1>20. CASE BrokerSubscribes \/ BrokerForwards
  <2>1. PICK x \in {"suback", "puback"} : toDevice' = Append(toDevice, x)
    BY <1>20 DEF BrokerSubscribes, BrokerForwards
  <2>2. Underway("registered")' <=> Underway("registered")
    BY <1>s, <1>t, <2>1, AppendUnderway
  <2>3. UNCHANGED <<stage, step, attempt, status, bits, got, reply, server, answer, row,
                    faults, serverFaults>>
    BY <1>20 DEF BrokerSubscribes, BrokerForwards, NoFault, mainVars, eventVars, serverVars,
       faultVars
  <2>4. (Tearable' => Tearable) /\ Failed' = Failed
    BY <2>2, <2>3 DEF Tearable, Failed
  <2>5. UNCHANGED <<spoilt, missed>> \/ missed' = missed + 1
    BY <1>20 DEF BrokerSubscribes, BrokerForwards, NoFault, faultVars
  <2> QED
    BY <1>1, <1>2, <1>t, <2>3, <2>4, <2>5
<1>21. CASE Receive
  <2> DEFINE packet == Head(toDevice)
  <2>1. /\ packet \in Packets /\ Underway(packet)
        /\ Underway("registered")' => Underway("registered")
        /\ packet = "registered" => ~Underway("registered")'
    BY <1>0, <1>21, <1>t, TailUnderway, TailAtMostOne DEF Receive, OnceInv
  <2>2. UNCHANGED <<stage, attempt, server, answer, row, faults, serverFaults, missed>>
    BY <1>21 DEF Receive, Raise, serverVars, faultVars
  <2>3. Failed' = Failed
    BY <2>2 DEF Failed, Count
  <2>4. CASE packet \notin Success
    <3>1. PICK e \in Bits \ {"DATA"} : Raise(e)
      BY <1>21, <2>4 DEF Receive, Bits
    <3>2. UNCHANGED <<status, reply, spoilt>>
      BY <1>21, <2>4 DEF Receive
    <3>3. Tearable' => Tearable
      BY <2>1, <2>2, <3>1, <3>2, RaiseDoes DEF Tearable
    <3> QED
      BY <1>1, <2>2, <2>3, <3>2, <3>3
  <2>5. CASE packet \in Success
    <3>1. row
      BY <1>0, <2>1, <2>5 DEF RowInv, AnswerUnderway
    <3>a. packet # "suback" /\ packet # "puback"
      BY <1>s, <2>5
    <3>b. /\ Raise("DATA") /\ reply' = packet
          /\ status' \in IF stage = "parse" /\ status # packet THEN {status, packet, "torn"} ELSE {status}
          /\ spoilt' = (spoilt \/ (status' = "torn" /\ stage = "parse"))
      BY <1>21, <3>a, Zenon DEF Receive
    <3>2. reply' = packet
          /\ (status' = status
             \/ (stage = "parse" /\ status # packet /\ status' \in {packet, "torn"}))
      BY <3>b
    <3>4. ~(stage = "parse" /\ status' = "torn") => (spoilt' => spoilt)
      BY <3>b, Zenon
    <3>5. Tearable' => Tearable
      BY <1>s, <2>1, <2>2, <2>5, <3>1, <3>2 DEF Tearable
    <3>7. CASE stage = "parse" /\ status \in Success /\ status # packet /\ status' = "torn"
      <4>1. Tearable
        BY <1>s, <2>1, <2>5, <3>7 DEF Tearable
      <4>2. ~Underway("registered")'
        BY <1>0, <1>s, <2>1, <2>5, <3>7 DEF OnceInv
      <4>3. ~(server' = "answering" /\ answer' = "registered")
        BY <1>0, <1>s, <2>1, <2>2, <2>5, <3>7 DEF OnceInv
      <4>4. ~Tearable'
        BY <2>2, <3>1, <3>7, <4>2, <4>3 DEF Tearable
      <4> QED
        BY <1>0, <1>t, <2>2, <2>3, <4>1, <4>4 DEF CostInv, Count
    <3>8. CASE ~(stage = "parse" /\ status \in Success /\ status # packet /\ status' = "torn")
      <4>1. stage = "parse" /\ ~spoilt => status \in Success
        BY <1>0, <1>s DEF CleanInv, CleanAttempt
      <4>2. spoilt' => spoilt \/ stage \notin Inside
        BY <1>s, <2>5, <3>2, <3>4, <3>8, <4>1
      <4> QED
        BY <1>1, <2>2, <2>3, <3>5, <4>2
    <3> QED
      BY <3>7, <3>8
  <2> QED
    BY <2>4, <2>5
<1>22. CASE Handle
  <2>1. Tearable' => Tearable
    BY <1>0, <1>3, <1>22 DEF Handle, OnServer, Tearable, RowInv, mainVars, eventVars
  <2> QED
    BY <1>1, <1>22, <2>1 DEF Handle, OnServer, NoFault, Failed, Count, mainVars, faultVars
<1>23. CASE Respond
  <2>1. answer \in Success /\ server = "answering" /\ server' = "listening"
        /\ UNCHANGED <<stage, step, attempt, status, bits, got, reply, row, answer, spoilt, faults,
                       serverFaults, missed>>
    BY <1>0, <1>23 DEF Respond, StageInv, OnServer, NoFault, mainVars, eventVars, faultVars
  <2>2. Underway("registered")' => Underway("registered") \/ answer = "registered"
    BY <1>s, <1>t, <1>3, <1>23, <2>1, AppendUnderway DEF Respond
  <2>3. Tearable' => Tearable
    BY <2>1, <2>2 DEF Tearable
  <2> QED
    BY <1>1, <2>1, <2>3 DEF Failed, Count
<1>24. CASE Reconnect
  <2>1. Tearable' => Tearable
    BY <1>3, <1>24 DEF Reconnect, OnServer, Tearable, mainVars, eventVars
  <2> QED
    BY <1>1, <1>24, <2>1 DEF Reconnect, OnServer, NoFault, Failed, Count, mainVars, faultVars
<1>25. CASE ServerFails \/ HandlingFails
  <2>1. /\ UNCHANGED <<stage, step, attempt, status, bits, got, toDevice, reply, answer, faults,
                       missed>>
        /\ serverFaults' = serverFaults + 1 /\ server' \in {"down", server} /\ (row => row')
    BY <1>25, HandlingFailsDoes DEF ServerFails, OnServer, mainVars, eventVars
  <2>2. (Tearable' => Tearable) /\ Failed' = Failed
    BY <1>3, <2>1 DEF Tearable, Failed
  <2> QED
    BY <1>2, <1>t, <2>1, <2>2
<1>26. CASE PowerCycle
  <2>1. attempt' = 0 /\ stage' = "begin" /\ UNCHANGED <<faults, serverFaults, missed>>
    BY <1>26 DEF PowerCycle
  <2>2. ~Spent' /\ Failed' = 0
    BY <1>s, <2>1 DEF Failed, Count
  <2> QED
    BY <1>t, <2>1, <2>2 DEF CostInv, Count
<1>27. CASE Finished
  <2>1. UNCHANGED <<stage, step, attempt, status, bits, got, toDevice, reply, server, answer, row,
                    spoilt, faults, serverFaults, missed>>
    BY <1>27 DEF Finished, vars, mainVars, eventVars, netVars, serverVars, faultVars
  <2>2. (Tearable' => Tearable) /\ Failed' = Failed
    BY <1>3, <2>1 DEF Tearable, Failed
  <2> QED
    BY <1>1, <2>1, <2>2
<1> QED
  BY <1>5, <1>6, <1>7, <1>8, <1>9, <1>10, <1>11, <1>12, <1>13, <1>14, <1>15, <1>16, <1>17,
     <1>19, <1>20, <1>21, <1>22, <1>23, <1>24, <1>25, <1>26, <1>27
     DEF Next, MainStep, NetworkStep, ServerStep
----------------------------------------------------------------------------
(* The theorems.                                                             *)

\* RegistrationInv holds in every state: what the steps above preserve together.
THEOREM RegistrationSafe ==
  Spec => []RegistrationInv
<1>1. Init => RegistrationInv
  BY InitInv
<1>2. RegistrationInv /\ [Next]_vars => RegistrationInv'
  <2>1. ASSUME RegistrationInv, Next PROVE RegistrationInv'
    <3>1. TypeOK' /\ StageInv'
      BY <2>1, StepType, StepStage DEF RegistrationInv
    <3> QED
      BY <2>1, <3>1, StepRow, StepClean, StepOnce, StepLone, StepCost DEF RegistrationInv
  <2>2. ASSUME RegistrationInv, UNCHANGED vars PROVE RegistrationInv'
    <3>1. UNCHANGED <<stage, step, attempt, status, led, bits, got, group, clients>>
      BY <2>2 DEF vars, mainVars, eventVars, clientVars
    <3>2. UNCHANGED <<link, asked, request, subscribed, toDevice, reply, requests, server, answer,
          row>>
      BY <2>2 DEF vars, netVars, serverVars
    <3>3. UNCHANGED <<faults, serverFaults, boots, missed, spoilt>>
      BY <2>2 DEF vars, faultVars
    <3>4. TypeOK' /\ StageInv' /\ RowInv'
      BY <2>2, <3>1, <3>2, <3>3
         DEF RegistrationInv, TypeOK, StageInv, RowInv, AnswerUnderway, Underway
    <3>5. CleanInv' /\ OnceInv'
      BY <2>2, <3>1, <3>2, <3>3
         DEF RegistrationInv, CleanInv, CleanAttempt, NoNeedlessRetry, AnswerDue, AnswerUnderway,
             OnceInv, AtMostOne, Underway
    <3>6. LoneInv'
      BY <2>2, <3>1, <3>2, <3>3
         DEF RegistrationInv, LoneInv, Untouched, LoneAnswer, DataSeen, AnswerUnderway, AtMostOne,
             Underway
    <3>7. CostInv'
      BY <2>2, <3>1, <3>2, <3>3
         DEF RegistrationInv, CostInv, Failed, Count, Tearable, Underway
    <3> QED
      BY <3>4, <3>5, <3>6, <3>7 DEF RegistrationInv
  <2> QED
    BY <2>1, <2>2
<1> QED
  BY <1>1, <1>2, PTL DEF Spec

\* Every variable keeps its type and every attempt its backoff
\* (mqtt_manager.c:823-858).
THEOREM TypeCorrect ==
  Spec => []TypeOK
<1>1. RegistrationInv => TypeOK
  BY DEF RegistrationInv
<1> QED
  BY <1>1, RegistrationSafe, PTL

\* Whoever goes on to Phase 3 or shows green is in the database
\* (mqtt_manager.c:920-926, handlers.py:73-86).
THEOREM RegisteredHasRow ==
  Spec => []RegisteredMeansRow
<1>1. RegistrationInv => RegisteredMeansRow
  BY DEF RegistrationInv, RowInv, RegisteredMeansRow
<1> QED
  BY <1>1, RegistrationSafe, PTL

\* No attempt fails unless something went wrong while it lasted
\* (mqtt_manager.c:846, :862, :886).
THEOREM RetriesHaveACause ==
  Spec => []NoNeedlessRetry
<1>1. RegistrationInv => NoNeedlessRetry
  BY DEF RegistrationInv, CleanInv
<1> QED
  BY <1>1, RegistrationSafe, PTL

\* The event group is deleted only when no client can set a bit in it
\* (mqtt_manager.c:937, :362).
THEOREM GroupOutlives ==
  Spec => []GroupOutlivesClient
<1>1. RegistrationInv => GroupOutlivesClient
  BY DEF RegistrationInv, StageInv, TypeOK, Inside, Stages, GroupOutlivesClient
<1> QED
  BY <1>1, RegistrationSafe, PTL

\* However many faults there are and however long the server is away: a fault
\* costs one attempt, every request the server misses one, and all of them
\* together one more (mqtt_manager.c:823-933, handlers.py:49-71).
THEOREM FaultsAreCheap ==
  Spec => []FaultCost
<1>1. ASSUME RegistrationInv PROVE FaultCost
  <2>1. /\ attempt \in Nat /\ faults \in Nat /\ serverFaults \in Nat /\ boots \in Nat
        /\ missed \in Nat
    BY <1>1, RetriesAssumption, BoundsAssumption DEF RegistrationInv, TypeOK
  <2>2. Failed <= faults + serverFaults + missed + 1
    BY <1>1, <2>1 DEF RegistrationInv, CostInv, Count, Failed
  <2>3. faults + serverFaults + boots = 0 => Failed = 0
    BY <1>1, <2>1 DEF RegistrationInv, LoneInv, Count, Failed
  <2> QED
    BY <2>1, <2>2, <2>3 DEF FaultCost, Failed, Count
<1> QED
  BY <1>1, RegistrationSafe, PTL
=============================================================================
