---------------------------- MODULE LedDriverProofs ----------------------------
(***************************************************************************)
(* Theorems about LedDriver, for any number of tasks that set the LED and    *)
(* any length of the timer service's queue.                                  *)
(***************************************************************************)
EXTENDS LedDriver, SequenceTheorems, TLAPS

\* What a call still has to do for a blinking state after it has painted.
Blink == <<"phase", "period", "start">>

\* What may be left of a call.
Left(state) ==
  IF Blinking(state)
  THEN {<<"stop", "state", "clear", "paint", "phase", "period", "start">>,
        <<"state", "clear", "paint", "phase", "period", "start">>,
        <<"clear", "paint", "phase", "period", "start">>,
        <<"paint", "phase", "period", "start">>,
        Blink, <<"period", "start">>, <<"start">>, <<>>}
  ELSE {<<"stop", "state", "clear", "paint">>, <<"state", "clear", "paint">>,
        <<"clear", "paint">>, <<"paint">>, <<>>}

TodoInv == \A s \in Setters : todo[s] \in Left(want[s])

\* What the timer will be like when the commands in q are done: one in set is
\* the last that is not in keep, or there is none and it is like that now.
Ends(q, now, set, keep) ==
  \/ \E i \in 1..Len(q) : q[i] \in set /\ \A j \in i+1..Len(q) : q[j] \in keep
  \/ now /\ \A j \in 1..Len(q) : q[j] \in keep

Stop == [name |-> "stop"]
Start == [name |-> "start"]
Period(ms) == [name |-> "period", of |-> ms]

WillRun == Ends(queue, timer.active, Commands \ {Stop}, Commands \ {Stop})
WillStop == Ends(queue, ~timer.active, {Stop}, {Stop})
WillRunAt(ms) == Ends(queue, timer = [active |-> TRUE, period |-> ms], {Period(ms)}, {Start})

\* Some call is going to write a state, or to start the timer.
Writes(s) == todo[s] # <<>> /\ Head(todo[s]) \in {"stop", "state"}
Starts(s) == todo[s] # <<>> /\ Blinking(want[s])

\* A blinking state has a timer that will run, or a call that sees to it.
TimerInv ==
  "dropped" \notin disturbed /\ Blinking(current) =>
    WillRun \/ \E s \in Setters : Writes(s) \/ Starts(s)

\* How far the one call has come that nothing disturbs, and what it leaves.
Promised(s) ==
  LET step == Head(todo[s]) IN
    /\ step \in {"state", "clear", "paint", "phase", "period"} => WillStop
    /\ step \in {"clear", "paint", "phase", "period", "start"} => current = want[s]
    /\ step = "start" => WillRunAt(PeriodOf(want[s]))

Kept ==
  IF Blinking(current) THEN WillRunAt(PeriodOf(current))
  ELSE WillStop /\ shown = SteadyColour[current]

CalmInv ==
  disturbed = {} =>
    /\ \A s, t \in Setters : todo[s] # <<>> /\ todo[t] # <<>> => s = t
    /\ callback.at # "idle" => ~Setting /\ queue = <<>> /\ timer.active
    /\ \A s \in Setters : todo[s] # <<>> => Promised(s)
    /\ ~Setting => Kept

LedInv == TypeOK /\ TodoInv /\ TimerInv /\ CalmInv

----------------------------------------------------------------------------
(* The queue of the timer service.                                           *)

\* A command joins the queue.
LEMMA EndsAppend ==
  ASSUME NEW C, NEW q \in Seq(C), NEW c \in C, NEW now, NEW set, NEW keep
  PROVE  /\ c \in set => Ends(Append(q, c), now, set, keep)
         /\ c \in keep /\ Ends(q, now, set, keep) => Ends(Append(q, c), now, set, keep)
<1> DEFINE r == Append(q, c)
<1>1. /\ Len(r) = Len(q) + 1 /\ Len(q) \in Nat
      /\ \A i \in 1..Len(q) : r[i] = q[i]
      /\ r[Len(q) + 1] = c
  BY AppendProperties, LenProperties
<1> HIDE DEF r
<1>2. ASSUME c \in set PROVE Ends(r, now, set, keep)
  <2>1. Len(r) \in 1..Len(r) /\ r[Len(r)] \in set /\ \A j \in Len(r)+1..Len(r) : r[j] \in keep
    BY <1>1, <1>2
  <2> QED
    BY <2>1 DEF Ends
<1>3. ASSUME c \in keep, Ends(q, now, set, keep) PROVE Ends(r, now, set, keep)
  <2>1. CASE \E i \in 1..Len(q) : q[i] \in set /\ \A j \in i+1..Len(q) : q[j] \in keep
    <3>1. PICK i \in 1..Len(q) : q[i] \in set /\ \A j \in i+1..Len(q) : q[j] \in keep
      BY <2>1
    <3>2. i \in 1..Len(r) /\ r[i] \in set /\ \A j \in i+1..Len(r) : r[j] \in keep
      BY <1>1, <1>3, <3>1
    <3> QED
      BY <3>2 DEF Ends
  <2>2. CASE now /\ \A j \in 1..Len(q) : q[j] \in keep
    <3>1. \A j \in 1..Len(r) : r[j] \in keep
      BY <1>1, <1>3, <2>2
    <3> QED
      BY <2>2, <3>1 DEF Ends
  <2> QED
    BY <1>3, <2>1, <2>2 DEF Ends
<1> QED
  BY <1>2, <1>3 DEF r

\* The service runs the first command.
LEMMA EndsTail ==
  ASSUME NEW C, NEW q \in Seq(C), q # <<>>, NEW now, NEW then, NEW set, NEW keep,
         Head(q) \in set => then, now /\ Head(q) \in keep => then,
         Ends(q, now, set, keep)
  PROVE  Ends(Tail(q), then, set, keep)
<1> DEFINE r == Tail(q)
<1>1. /\ Len(q) \in Nat \ {0} /\ Head(q) = q[1] /\ Len(r) = Len(q) - 1
      /\ \A i \in 1..Len(r) : r[i] = q[i + 1]
  BY HeadTailProperties, EmptySeq
<1> HIDE DEF r
<1>2. CASE \E i \in 1..Len(q) : q[i] \in set /\ \A j \in i+1..Len(q) : q[j] \in keep
  <2>1. PICK i \in 1..Len(q) : q[i] \in set /\ \A j \in i+1..Len(q) : q[j] \in keep
    BY <1>2
  <2>2. CASE i = 1
    <3>1. then /\ \A j \in 1..Len(r) : r[j] \in keep
      BY <1>1, <2>1, <2>2
    <3> QED
      BY <3>1 DEF Ends, r
  <2>3. CASE i # 1
    <3>1. i - 1 \in 1..Len(r) /\ r[i - 1] \in set /\ \A j \in (i - 1)+1..Len(r) : r[j] \in keep
      BY <1>1, <2>1, <2>3
    <3> QED
      BY <3>1 DEF Ends, r
  <2> QED
    BY <2>2, <2>3
<1>3. CASE now /\ \A j \in 1..Len(q) : q[j] \in keep
  <2>1. then /\ \A j \in 1..Len(r) : r[j] \in keep
    BY <1>1, <1>3
  <2> QED
    BY <2>1 DEF Ends, r
<1> QED
  BY <1>2, <1>3 DEF Ends

\* An empty queue changes nothing.
LEMMA EndsEmpty ==
  ASSUME NEW now, NEW set, NEW keep
  PROVE  Ends(<<>>, now, set, keep) <=> now
BY EmptySeq DEF Ends

\* There are three commands.
LEMMA CommandCases ==
  ASSUME NEW c \in Commands
  PROVE  \/ c = Stop /\ c.name = "stop"
         \/ c = Start /\ c.name = "start"
         \/ \E ms \in {150, 200, 500, 1000} : c = Period(ms) /\ c.name = "period" /\ c.of = ms
BY DEF Commands, Stop, Start, Period

\* They differ.
LEMMA CommandsDiffer ==
  /\ Stop \in Commands /\ Start \in Commands /\ Stop # Start
  /\ \A ms \in {150, 200, 500, 1000} :
       Period(ms) \in Commands /\ Period(ms) # Stop /\ Period(ms) # Start
  /\ \A m, n \in {150, 200, 500, 1000} : Period(m) = Period(n) => m = n
BY DEF Commands, Stop, Start, Period

----------------------------------------------------------------------------
(* What is left of a call.                                                   *)

\* Four steps and three.
LEMMA FourAndThree ==
  ASSUME NEW S, NEW p \in Seq(S), NEW q \in Seq(S), NEW r \in Seq(S),
         Len(p) = 4, Len(q) = 3, Len(r) = 7,
         \A i \in 1..4 : r[i] = p[i], \A i \in 1..3 : r[4 + i] = q[i]
  PROVE  p \o q = r
<1> DEFINE c == p \o q
<1>1. /\ c \in Seq(S) /\ Len(c) = Len(p) + Len(q)
      /\ \A i \in 1..Len(p) + Len(q) : c[i] = IF i <= Len(p) THEN p[i] ELSE q[i - Len(p)]
  BY ConcatProperties, Zenon
<1> HIDE DEF c
<1>2. \A i \in 1..7 : c[i] = r[i]
  <2>1. ASSUME NEW i \in 1..4 PROVE c[i] = r[i]
    BY <1>1
  <2>2. ASSUME NEW i \in 1..3 PROVE c[4 + i] = r[4 + i]
    BY <1>1
  <2>3. \A i \in 1..7 : i \in 1..4 \/ (i - 4 \in 1..3 /\ 4 + (i - 4) = i)
    OBVIOUS
  <2> QED
    BY <2>1, <2>2, <2>3
<1>3. c = r
  BY <1>1, <1>2, SeqEqual
<1> QED
  BY <1>3 DEF c

\* A call begins with all of its steps.
LEMMA StepsLeft ==
  ASSUME NEW state \in States
  PROVE  Steps(state) \in Left(state) /\ Steps(state) # <<>> /\ Head(Steps(state)) = "stop"
<1> DEFINE p == <<"stop", "state", "clear", "paint">>
           r == <<"stop", "state", "clear", "paint", "phase", "period", "start">>
           S == {"stop", "state", "clear", "paint", "phase", "period", "start"}
<1>1. p \in Seq(S) /\ Blink \in Seq(S) /\ r \in Seq(S)
  BY DEF Blink
<1>2. /\ Len(p) = 4 /\ Len(Blink) = 3 /\ Len(r) = 7
      /\ p # <<>> /\ Head(p) = "stop" /\ r # <<>> /\ Head(r) = "stop"
  BY DEF Blink
<1>3. (\A i \in 1..4 : r[i] = p[i]) /\ \A i \in 1..3 : r[4 + i] = Blink[i]
  BY DEF Blink
<1>4. (Blinking(state) => r \in Left(state)) /\ (~Blinking(state) => p \in Left(state))
  BY DEF Left
<1>5. Steps(state) = p \o (IF Blinking(state) THEN Blink ELSE <<>>)
  BY Zenon DEF Steps, Blink
<1> HIDE DEF p, r, S
<1>6. p \o Blink = r /\ p \o <<>> = p
  BY <1>1, <1>2, <1>3, FourAndThree, ConcatEmptySeq
<1>7. Steps(state) = IF Blinking(state) THEN r ELSE p
  BY <1>5, <1>6, Zenon
<1> QED
  BY <1>2, <1>4, <1>7

\* Each step is followed by the next one.
LEMMA NextStep ==
  ASSUME NEW state, NEW t \in Left(state), t # <<>>
  PROVE  /\ Tail(t) \in Left(state)
         /\ Head(t) = "stop" => Tail(t) # <<>> /\ Head(Tail(t)) = "state"
         /\ Head(t) = "state" => Tail(t) # <<>> /\ Head(Tail(t)) = "clear"
         /\ Head(t) = "clear" => Tail(t) # <<>> /\ Head(Tail(t)) = "paint"
         /\ Head(t) = "paint" => IF Blinking(state) THEN Tail(t) # <<>> /\ Head(Tail(t)) = "phase"
                                 ELSE Tail(t) = <<>>
         /\ Head(t) = "phase" => Blinking(state) /\ Tail(t) # <<>> /\ Head(Tail(t)) = "period"
         /\ Head(t) = "period" => Blinking(state) /\ Tail(t) # <<>> /\ Head(Tail(t)) = "start"
         /\ Head(t) = "start" => Blinking(state) /\ Tail(t) = <<>>
<1>1. /\ <<"stop", "state", "clear", "paint", "phase", "period", "start">> # <<>>
         /\ Head(<<"stop", "state", "clear", "paint", "phase", "period", "start">>) = "stop"
      /\ <<"state", "clear", "paint", "phase", "period", "start">> # <<>>
         /\ Head(<<"state", "clear", "paint", "phase", "period", "start">>) = "state"
      /\ <<"clear", "paint", "phase", "period", "start">> # <<>>
         /\ Head(<<"clear", "paint", "phase", "period", "start">>) = "clear"
      /\ <<"paint", "phase", "period", "start">> # <<>>
         /\ Head(<<"paint", "phase", "period", "start">>) = "paint"
      /\ <<"phase", "period", "start">> # <<>> /\ Head(<<"phase", "period", "start">>) = "phase"
      /\ <<"period", "start">> # <<>> /\ Head(<<"period", "start">>) = "period"
      /\ <<"start">> # <<>> /\ Head(<<"start">>) = "start"
      /\ <<"stop", "state", "clear", "paint">> # <<>>
         /\ Head(<<"stop", "state", "clear", "paint">>) = "stop"
      /\ <<"state", "clear", "paint">> # <<>> /\ Head(<<"state", "clear", "paint">>) = "state"
      /\ <<"clear", "paint">> # <<>> /\ Head(<<"clear", "paint">>) = "clear"
      /\ <<"paint">> # <<>> /\ Head(<<"paint">>) = "paint"
  OBVIOUS
<1>2. CASE Blinking(state)
  <2>1. CASE t = <<"stop", "state", "clear", "paint", "phase", "period", "start">>
    <3>1. Tail(t) = <<"state", "clear", "paint", "phase", "period", "start">>
      BY <2>1
    <3> QED
      BY <1>1, <1>2, <2>1, <3>1, Zenon DEF Left, Blink
  <2>2. CASE t = <<"state", "clear", "paint", "phase", "period", "start">>
    <3>1. Tail(t) = <<"clear", "paint", "phase", "period", "start">>
      BY <2>2
    <3> QED
      BY <1>1, <1>2, <2>2, <3>1, Zenon DEF Left, Blink
  <2>3. CASE t = <<"clear", "paint", "phase", "period", "start">>
    <3>1. Tail(t) = <<"paint", "phase", "period", "start">>
      BY <2>3
    <3> QED
      BY <1>1, <1>2, <2>3, <3>1, Zenon DEF Left, Blink
  <2>4. CASE t = <<"paint", "phase", "period", "start">>
    <3>1. Tail(t) = <<"phase", "period", "start">>
      BY <2>4
    <3> QED
      BY <1>1, <1>2, <2>4, <3>1, Zenon DEF Left, Blink
  <2>5. CASE t = <<"phase", "period", "start">>
    <3>1. Tail(t) = <<"period", "start">>
      BY <2>5
    <3> QED
      BY <1>1, <1>2, <2>5, <3>1, Zenon DEF Left, Blink
  <2>6. CASE t = <<"period", "start">>
    <3>1. Tail(t) = <<"start">>
      BY <2>6
    <3> QED
      BY <1>1, <1>2, <2>6, <3>1, Zenon DEF Left, Blink
  <2>7. CASE t = <<"start">>
    <3>1. Tail(t) = <<>>
      BY <2>7
    <3> QED
      BY <1>1, <1>2, <2>7, <3>1, Zenon DEF Left, Blink
  <2> QED
    BY <1>2, <2>1, <2>2, <2>3, <2>4, <2>5, <2>6, <2>7 DEF Left, Blink
<1>3. CASE ~Blinking(state)
  <2>1. CASE t = <<"stop", "state", "clear", "paint">>
    <3>1. Tail(t) = <<"state", "clear", "paint">>
      BY <2>1
    <3> QED
      BY <1>1, <1>3, <2>1, <3>1, Zenon DEF Left
  <2>2. CASE t = <<"state", "clear", "paint">>
    <3>1. Tail(t) = <<"clear", "paint">>
      BY <2>2
    <3> QED
      BY <1>1, <1>3, <2>2, <3>1, Zenon DEF Left
  <2>3. CASE t = <<"clear", "paint">>
    <3>1. Tail(t) = <<"paint">>
      BY <2>3
    <3> QED
      BY <1>1, <1>3, <2>3, <3>1, Zenon DEF Left
  <2>4. CASE t = <<"paint">>
    <3>1. Tail(t) = <<>>
      BY <2>4
    <3> QED
      BY <1>1, <1>3, <2>4, <3>1, Zenon DEF Left
  <2> QED
    BY <1>3, <2>1, <2>2, <2>3, <2>4 DEF Left
<1> QED
  BY <1>2, <1>3

\* What is left is a sequence of steps.
LEMMA LeftType ==
  ASSUME NEW state, NEW t \in Left(state)
  PROVE  t \in Seq({"stop", "state", "clear", "paint", "phase", "period", "start"})
<1> DEFINE S == {"stop", "state", "clear", "paint", "phase", "period", "start"}
<1>1. /\ <<"stop", "state", "clear", "paint", "phase", "period", "start">> \in Seq(S)
      /\ <<"state", "clear", "paint", "phase", "period", "start">> \in Seq(S)
      /\ <<"clear", "paint", "phase", "period", "start">> \in Seq(S)
      /\ <<"paint", "phase", "period", "start">> \in Seq(S)
      /\ <<"phase", "period", "start">> \in Seq(S)
      /\ <<"period", "start">> \in Seq(S)
      /\ <<"start">> \in Seq(S)
      /\ <<"stop", "state", "clear", "paint">> \in Seq(S)
      /\ <<"state", "clear", "paint">> \in Seq(S)
      /\ <<"clear", "paint">> \in Seq(S)
      /\ <<"paint">> \in Seq(S)
      /\ <<>> \in Seq(S)
  OBVIOUS
<1> HIDE DEF S
<1>2. t \in Seq(S)
  BY <1>1 DEF Left, Blink
<1> QED
  BY <1>2 DEF S

\* The colours and periods of the states.
LEMMA StateFacts ==
  ASSUME NEW state \in States
  PROVE  /\ ColourOf(state) \in Colours /\ PeriodOf(state) \in {150, 200, 500, 1000}
         /\ ~Blinking(state) => SteadyColour[state] \in Colours
BY DEF States, ColourOf, PeriodOf, Blinking, BlinkColour, SteadyColour, OwnPeriod, Colours

----------------------------------------------------------------------------
(* Types, and the shape of a call.                                           *)

\* A step of a call takes its first remaining step.
LEMMA DoingEffect ==
  ASSUME TypeOK, TodoInv, NEW s \in Setters, NEW step, Doing(s, step)
  PROVE  /\ todo[s] # <<>> /\ Head(todo[s]) = step /\ todo'[s] = Tail(todo[s])
         /\ \A t \in Setters : t # s => todo'[t] = todo[t]
         /\ todo' \in [Setters -> Seq({"stop", "state", "clear", "paint", "phase", "period",
            "start"})]
         /\ UNCHANGED <<want, timer, callback, sets>>
         /\ todo[s] \in Left(want[s]) /\ todo'[s] \in Left(want[s])
         /\ TodoInv'
<1>1. todo[s] # <<>> /\ Head(todo[s]) = step /\ todo' = [todo EXCEPT ![s] = Tail(todo[s])]
      /\ UNCHANGED <<want, timer, callback, sets>> /\ todo[s] \in Left(want[s])
  BY DEF Doing, TodoInv
<1>2. Tail(todo[s]) \in Left(want[s])
  BY <1>1, NextStep
<1>3. Tail(todo[s]) \in Seq({"stop", "state", "clear", "paint", "phase", "period", "start"})
  BY <1>2, LeftType
<1>4. /\ todo'[s] = Tail(todo[s]) /\ \A t \in Setters : t # s => todo'[t] = todo[t]
      /\ todo' \in [Setters -> Seq({"stop", "state", "clear", "paint", "phase", "period", "start"})]
  BY <1>1, <1>3 DEF TypeOK
<1> QED
  BY <1>1, <1>2, <1>4 DEF TodoInv

\* A call that begins.
LEMMA BeginEffect ==
  ASSUME TypeOK, TodoInv, NEW s \in Setters, NEW state \in Requested, Begin(s, state)
  PROVE  /\ todo[s] = <<>> /\ todo'[s] # <<>> /\ Head(todo'[s]) = "stop"
         /\ \A t \in Setters : t # s => todo'[t] = todo[t] /\ want'[t] = want[t]
         /\ want'[s] = state /\ TodoInv'
         /\ todo' \in [Setters -> Seq({"stop", "state", "clear", "paint", "phase", "period",
            "start"})]
         /\ want' \in [Setters -> States]
<1>1. state \in States
  BY RequestedAssumption
<1>2. Steps(state) \in Left(state) /\ Steps(state) # <<>> /\ Head(Steps(state)) = "stop"
  BY <1>1, StepsLeft
<1>3. Steps(state) \in Seq({"stop", "state", "clear", "paint", "phase", "period", "start"})
  BY <1>2, LeftType
<1>4. todo[s] = <<>> /\ todo' = [todo EXCEPT ![s] = Steps(state)]
      /\ want' = [want EXCEPT ![s] = state]
  BY DEF Begin
<1>5. /\ todo'[s] = Steps(state) /\ want'[s] = state
      /\ \A t \in Setters : t # s => todo'[t] = todo[t] /\ want'[t] = want[t]
      /\ todo' \in [Setters -> Seq({"stop", "state", "clear", "paint", "phase", "period", "start"})]
      /\ want' \in [Setters -> States]
  BY <1>1, <1>3, <1>4 DEF TypeOK
<1> QED
  BY <1>2, <1>4, <1>5 DEF TodoInv

\* A command is queued or dropped.
LEMMA SendEffect ==
  ASSUME TypeOK, NEW s, NEW step, NEW command \in Commands, Send(s, step, command)
  PROVE  /\ \/ queue' = Append(queue, command) /\ UNCHANGED disturbed
            \/ queue' = queue /\ disturbed' = disturbed \cup {"dropped"}
         /\ queue' \in Seq(Commands) /\ Len(queue') <= QueueLength
         /\ Doing(s, step) /\ UNCHANGED <<current, phase, shown>>
<1>1. CASE Len(queue) < QueueLength
  <2>1. queue' = Append(queue, command)
    BY <1>1 DEF Send
  <2>2. queue' \in Seq(Commands) /\ Len(queue') = Len(queue) + 1
    BY <2>1, AppendProperties DEF TypeOK
  <2> QED
    BY <1>1, <2>1, <2>2, LenProperties, BoundAssumption DEF Send, TypeOK
<1>2. CASE ~(Len(queue) < QueueLength)
  BY <1>2 DEF Send, TypeOK
<1> QED
  BY <1>1, <1>2

\* It holds at first.
LEMMA InitInv == Init => LedInv
<1> SUFFICES ASSUME Init PROVE LedInv
  OBVIOUS
<1>0. "off" \in States /\ ~Blinking("off") /\ SteadyColour["off"] = "dark" /\ Asleep.at = "idle"
  BY DEF States, Blinking, SteadyColour, BlinkColour, Asleep
<1>1. TypeOK
  <2>1. todo \in [Setters -> Seq({"stop", "state", "clear", "paint", "phase", "period", "start"})]
    BY EmptySeq DEF Init
  <2>2. queue \in Seq(Commands) /\ Len(queue) <= QueueLength
    BY EmptySeq, BoundAssumption DEF Init
  <2>3. /\ timer \in [active : BOOLEAN, period : {150, 200, 500, 1000}]
        /\ callback \in [at : {"idle", "phase", "paint"}, colour : Colours, lit : BOOLEAN]
    BY DEF Init, Asleep, Colours
  <2> QED
    BY <1>0, <2>1, <2>2, <2>3, BoundAssumption DEF Init, TypeOK, Colours
<1>2. TodoInv
  BY DEF Init, TodoInv, Left, Blink
<1>3. TimerInv
  BY <1>0 DEF Init, TimerInv
<1>4. CalmInv
  <2>1. WillStop
    BY EndsEmpty DEF Init, WillStop
  <2> QED
    BY <1>0, <2>1 DEF Init, CalmInv, Kept, Setting
<1> QED
  BY <1>1, <1>2, <1>3, <1>4 DEF LedInv

\* A timer is started or stopped.
LEMMA TimerSet ==
  ASSUME NEW P, timer \in [active : BOOLEAN, period : P],
         timer' = [timer EXCEPT !.active = FALSE] \/ timer' = [timer EXCEPT !.active = TRUE]
  PROVE  timer' \in [active : BOOLEAN, period : P]
OBVIOUS

\* Every step keeps the types and the shape of the calls.
LEMMA StepType ==
  ASSUME TypeOK, TodoInv, Next
  PROVE  TypeOK' /\ TodoInv'
<1>t. \A s \in Setters : want[s] \in States
  BY DEF TypeOK
<1>p. Stop \in Commands /\ Start \in Commands
      /\ \A ms \in {150, 200, 500, 1000} : Period(ms) \in Commands
  BY CommandsDiffer
<1>1. ASSUME NEW s \in Setters, NEW state \in Requested, Begin(s, state) PROVE TypeOK' /\ TodoInv'
  <2>1. sets' \in 0..MaxSets /\ UNCHANGED <<current, phase, queue, timer, callback, shown>>
    BY <1>1, BoundAssumption DEF Begin, TypeOK
  <2>2. disturbed' \subseteq disturbed \cup {"overlapped", "overtaken"}
    BY <1>1 DEF Begin
  <2>3. /\ TodoInv' /\ want' \in [Setters -> States]
        /\ todo' \in [Setters -> Seq({"stop", "state", "clear", "paint", "phase", "period",
           "start"})]
    BY <1>1, BeginEffect
  <2> QED
    BY <2>1, <2>2, <2>3 DEF TypeOK
<1>2. ASSUME NEW s \in Setters, NEW step, NEW command \in Commands, Send(s, step, command)
      PROVE  TypeOK' /\ TodoInv'
  <2>1. /\ queue' \in Seq(Commands) /\ Len(queue') <= QueueLength
        /\ Doing(s, step) /\ UNCHANGED <<current, phase, shown>>
        /\ disturbed' \subseteq disturbed \cup {"dropped"}
    BY <1>2, SendEffect
  <2> QED
    BY <2>1, DoingEffect DEF TypeOK
<1>3. ASSUME NEW s \in Setters, StopTimer(s) \/ ChangePeriod(s) \/ StartTimer(s)
      PROVE  TypeOK' /\ TodoInv'
  BY <1>2, <1>3, <1>t, <1>p, StateFacts DEF StopTimer, ChangePeriod, StartTimer, Stop, Start, Period
<1>4. ASSUME NEW s \in Setters, SetState(s) PROVE TypeOK' /\ TodoInv'
  BY <1>4, DoingEffect DEF SetState, TypeOK
<1>5. ASSUME NEW s \in Setters, SetPhase(s) PROVE TypeOK' /\ TodoInv'
  <2>1. PICK step : Doing(s, step)
    BY <1>5 DEF SetPhase
  <2>2. phase' \in 0..7
    BY <1>5 DEF SetPhase
  <2> QED
    BY <1>5, <2>1, <2>2, DoingEffect DEF SetPhase, TypeOK
<1>6. ASSUME NEW s \in Setters, Paint(s) PROVE TypeOK' /\ TodoInv'
  <2>1. shown' \in Colours
    BY <1>6, <1>t, StateFacts DEF Paint
  <2> QED
    BY <1>6, <2>1, DoingEffect DEF Paint, TypeOK
<1>7. CASE RunCommand
  <2>1. queue # <<>> /\ queue' = Tail(queue) /\ queue \in Seq(Commands)
    BY <1>7 DEF RunCommand, TypeOK
  <2>2. queue' \in Seq(Commands) /\ Len(queue') = Len(queue) - 1 /\ Head(queue) \in Commands
    BY <2>1, HeadTailProperties
  <2>3. timer' \in [active : BOOLEAN, period : {150, 200, 500, 1000}]
    <3> DEFINE P == {150, 200, 500, 1000}
    <3>0. timer \in [active : BOOLEAN, period : P]
      BY DEF TypeOK
    <3> HIDE DEF P
    <3>t. timer' \in [active : BOOLEAN, period : P] =>
          timer' \in [active : BOOLEAN, period : {150, 200, 500, 1000}]
      BY DEF P
    <3>1. CASE Head(queue).name = "stop"
      <4>1. timer' = [timer EXCEPT !.active = FALSE]
        BY <1>7, <3>1 DEF RunCommand
      <4> QED
        BY <3>0, <3>t, <4>1, TimerSet, ZenonT(60)
    <3>2. CASE Head(queue).name = "start"
      <4>1. timer' = [timer EXCEPT !.active = TRUE]
        BY <1>7, <3>2 DEF RunCommand
      <4> QED
        BY <3>0, <3>t, <4>1, TimerSet, ZenonT(60)
    <3>3. CASE Head(queue).name = "period" /\ Head(queue).of \in {150, 200, 500, 1000}
      BY <1>7, <3>3 DEF RunCommand, TypeOK
    <3> QED
      BY <2>2, <3>1, <3>2, <3>3, CommandCases
  <2>4. Len(queue') <= QueueLength
    BY <2>1, <2>2, LenProperties, BoundAssumption DEF TypeOK
  <2> QED
    BY <1>7, <2>2, <2>3, <2>4, ZenonT(60) DEF RunCommand, ByService, TypeOK, TodoInv
<1>8. CASE Tick
  <2>1. callback' \in [at : {"idle", "phase", "paint"}, colour : Colours, lit : BOOLEAN]
    BY <1>8, StateFacts DEF Tick, TypeOK
  <2> QED
    BY <1>8, <2>1 DEF Tick, ByService, TypeOK, TodoInv
<1>9. CASE Turn
  <2> DEFINE lit == IF Double(current) THEN phase \in {0, 2} ELSE phase' # 0
  <2>1. lit \in BOOLEAN
    <3>1. (phase \in {0, 2}) \in BOOLEAN
      OBVIOUS
    <3>2. (phase' # 0) \in BOOLEAN
      BY Zenon
    <3> QED
      BY <3>1, <3>2, Zenon
  <2>2. callback' = [callback EXCEPT !.at = "paint", !.lit = lit]
    BY <1>9, Zenon DEF Turn
  <2>3. phase' \in 0..7
    BY <1>9 DEF Turn, NextPhase, TypeOK
  <2> HIDE DEF lit
  <2>4. callback' \in [at : {"idle", "phase", "paint"}, colour : Colours, lit : BOOLEAN]
    BY <2>1, <2>2, ZenonT(60) DEF TypeOK
  <2> QED
    BY <1>9, <2>3, <2>4 DEF Turn, ByService, TypeOK, TodoInv
<1>10. CASE Repaint
  <2>1. callback' \in [at : {"idle", "phase", "paint"}, colour : Colours, lit : BOOLEAN]
        /\ shown' \in Colours
    BY <1>10 DEF Repaint, TypeOK, Asleep, Colours
  <2> QED
    BY <1>10, <2>1 DEF Repaint, ByService, TypeOK, TodoInv
<1> QED
  BY <1>1, <1>3, <1>4, <1>5, <1>6, <1>7, <1>8, <1>9, <1>10 DEF Next, SetterStep, ServiceStep

----------------------------------------------------------------------------
(* The timer.                                                                *)

\* What a command does to the timer.
LEMMA RunEffect ==
  ASSUME TypeOK, RunCommand
  PROVE  /\ queue \in Seq(Commands) /\ queue # <<>> /\ Head(queue) \in Commands
            /\ queue' = Tail(queue)
         /\ Head(queue) = Stop => ~timer'.active
         /\ Head(queue) # Stop => timer'.active
         /\ \A ms \in {150, 200, 500, 1000} :
              /\ Head(queue) = Period(ms) => timer' = [active |-> TRUE, period |-> ms]
              /\ Head(queue) = Start /\ timer = [active |-> TRUE, period |-> ms] =>
                   timer' = [active |-> TRUE, period |-> ms]
<1>1. queue \in Seq(Commands) /\ queue # <<>> /\ Head(queue) \in Commands /\ queue' = Tail(queue)
  BY HeadTailProperties DEF RunCommand, TypeOK
<1>t. timer \in [active : BOOLEAN, period : {150, 200, 500, 1000}]
  BY DEF TypeOK
<1>2. CASE Head(queue) = Stop /\ Head(queue).name = "stop"
  <2>1. timer' = [timer EXCEPT !.active = FALSE]
    BY <1>2 DEF RunCommand
  <2>2. ~timer'.active
    BY <1>t, <2>1
  <2> QED
    BY <1>1, <1>2, <2>2, CommandsDiffer
<1>3. CASE Head(queue) = Start /\ Head(queue).name = "start"
  <2>1. timer' = [timer EXCEPT !.active = TRUE]
    BY <1>3 DEF RunCommand
  <2>2. timer'.active
    BY <1>t, <2>1
  <2>3. ASSUME NEW ms, timer = [active |-> TRUE, period |-> ms]
        PROVE  timer' = [active |-> TRUE, period |-> ms]
    BY <2>1, <2>3
  <2> QED
    BY <1>1, <1>3, <2>2, <2>3, CommandsDiffer
<1>4. ASSUME NEW ms \in {150, 200, 500, 1000},
             Head(queue) = Period(ms), Head(queue).name = "period", Head(queue).of = ms
      PROVE  /\ timer' = [active |-> TRUE, period |-> ms] /\ timer'.active
             /\ Head(queue) # Stop /\ Head(queue) # Start
             /\ \A n \in {150, 200, 500, 1000} : Head(queue) = Period(n) => n = ms
  <2>1. timer' = [active |-> TRUE, period |-> ms]
    BY <1>4, ZenonT(60) DEF RunCommand
  <2>2. timer'.active
    BY <2>1
  <2> QED
    BY <1>4, <2>1, <2>2, CommandsDiffer
<1> QED
  BY <1>1, <1>2, <1>3, <1>4, CommandCases

\* The queue and what it will come to.
LEMMA RunKeeps ==
  ASSUME TypeOK, RunCommand
  PROVE  /\ WillRun => WillRun'
         /\ WillStop => WillStop'
         /\ \A ms \in {150, 200, 500, 1000} : WillRunAt(ms) => WillRunAt(ms)'
<1>1. /\ queue \in Seq(Commands) /\ queue # <<>> /\ Head(queue) \in Commands /\ queue' = Tail(queue)
      /\ Head(queue) = Stop => ~timer'.active
      /\ Head(queue) # Stop => timer'.active
      /\ \A ms \in {150, 200, 500, 1000} :
           /\ Head(queue) = Period(ms) => timer' = [active |-> TRUE, period |-> ms]
           /\ Head(queue) = Start /\ timer = [active |-> TRUE, period |-> ms] =>
                timer' = [active |-> TRUE, period |-> ms]
  BY RunEffect
<1>2. ASSUME WillRun PROVE WillRun'
  <2> DEFINE S == Commands \ {Stop}
             now == timer.active
             then == timer'.active
  <2>1. Head(queue) \in S => then
    BY <1>1
  <2>2. Ends(queue, now, S, S)
    BY <1>2 DEF WillRun
  <2> HIDE DEF now, then, S
  <2>3. Ends(Tail(queue), then, S, S)
    BY <1>1, <2>1, <2>2, EndsTail
  <2> QED
    BY <1>1, <2>3 DEF WillRun, then, S
<1>3. ASSUME WillStop PROVE WillStop'
  <2> DEFINE S == {Stop}
             now == ~timer.active
             then == ~timer'.active
  <2>1. Head(queue) \in S => then
    BY <1>1
  <2>2. Ends(queue, now, S, S)
    BY <1>3 DEF WillStop
  <2> HIDE DEF now, then, S
  <2>3. Ends(Tail(queue), then, S, S)
    BY <1>1, <2>1, <2>2, EndsTail
  <2> QED
    BY <1>1, <2>3 DEF WillStop, then, S
<1>4. ASSUME NEW ms \in {150, 200, 500, 1000}, WillRunAt(ms) PROVE WillRunAt(ms)'
  <2> DEFINE S == {Period(ms)}
             K == {Start}
             now == timer = [active |-> TRUE, period |-> ms]
             then == timer' = [active |-> TRUE, period |-> ms]
  <2>1. (Head(queue) \in S => then) /\ (now /\ Head(queue) \in K => then)
    BY <1>1
  <2>2. Ends(queue, now, S, K)
    BY <1>4 DEF WillRunAt
  <2> HIDE DEF now, then, S, K
  <2>3. Ends(Tail(queue), then, S, K)
    BY <1>1, <2>1, <2>2, EndsTail
  <2> QED
    BY <1>1, <2>3 DEF WillRunAt, then, S, K
<1> QED
  BY <1>2, <1>3, <1>4

\* A command that is queued.
LEMMA QueueKeeps ==
  ASSUME TypeOK, UNCHANGED timer
  PROVE  /\ queue' = queue => /\ WillRun' <=> WillRun
                              /\ WillStop' <=> WillStop
                              /\ \A ms : WillRunAt(ms)' <=> WillRunAt(ms)
         /\ queue' = Append(queue, Stop) => WillStop'
         /\ queue' = Append(queue, Start) =>
              WillRun' /\ \A ms \in {150, 200, 500, 1000} : WillRunAt(ms) => WillRunAt(ms)'
         /\ \A ms \in {150, 200, 500, 1000} : queue' = Append(queue, Period(ms)) => WillRunAt(ms)'
<1>1. queue \in Seq(Commands)
  BY DEF TypeOK
<1>2. ASSUME queue' = queue
      PROVE  /\ WillRun' <=> WillRun
             /\ WillStop' <=> WillStop
             /\ \A ms : WillRunAt(ms)' <=> WillRunAt(ms)
  BY <1>2, Zenon DEF WillRun, WillStop, WillRunAt, Ends
<1>3. ASSUME queue' = Append(queue, Stop) PROVE WillStop'
  <2>1. Ends(Append(queue, Stop), ~timer'.active, {Stop}, {Stop})
    BY <1>1, EndsAppend, CommandsDiffer
  <2> QED
    BY <1>3, <2>1 DEF WillStop
<1>4. ASSUME queue' = Append(queue, Start) PROVE WillRun'
  <2>1. Ends(Append(queue, Start), timer'.active, Commands \ {Stop}, Commands \ {Stop})
    BY <1>1, EndsAppend, CommandsDiffer
  <2> QED
    BY <1>4, <2>1 DEF WillRun
<1>5. ASSUME queue' = Append(queue, Start), NEW ms \in {150, 200, 500, 1000}, WillRunAt(ms)
      PROVE  WillRunAt(ms)'
  <2> DEFINE now == timer = [active |-> TRUE, period |-> ms]
  <2>1. Ends(queue, now, {Period(ms)}, {Start})
    BY <1>5 DEF WillRunAt
  <2> HIDE DEF now
  <2>2. Ends(Append(queue, Start), now, {Period(ms)}, {Start})
    BY <1>1, <2>1, EndsAppend, CommandsDiffer
  <2> QED
    BY <1>5, <2>2 DEF WillRunAt, now
<1>6. ASSUME NEW ms \in {150, 200, 500, 1000},
             queue' = Append(queue, Period(ms)) PROVE WillRunAt(ms)'
  <2> DEFINE now == timer = [active |-> TRUE, period |-> ms]
  <2>1. Ends(Append(queue, Period(ms)), now, {Period(ms)}, {Start})
    <3> HIDE DEF now
    <3> QED
      BY <1>1, EndsAppend, CommandsDiffer
  <2> QED
    BY <1>6, <2>1 DEF WillRunAt
<1> QED
  BY <1>2, <1>3, <1>4, <1>5, <1>6

\* A blinking state keeps its timer.
LEMMA StepTimer ==
  ASSUME TypeOK, TodoInv, TimerInv, Next
  PROVE  TimerInv'
<1> SUFFICES ASSUME "dropped" \notin disturbed', Blinking(current')
             PROVE  WillRun' \/ \E s \in Setters : Writes(s)' \/ Starts(s)'
  BY DEF TimerInv
<1>1. ASSUME NEW s \in Setters, NEW state \in Requested, Begin(s, state) PROVE Writes(s)'
  BY <1>1, BeginEffect DEF Writes
<1>2. ASSUME NEW s \in Setters, NEW step, Doing(s, step)
      PROVE  /\ step = "stop" => Writes(s)'
             /\ step = "state" /\ Blinking(want[s]) => Starts(s)'
             /\ step \in {"clear", "paint", "phase", "period"} /\ Blinking(want[s]) => Starts(s)'
             /\ step = "period" => Blinking(want[s])
             /\ \A t \in Setters : t # s => (Writes(t)' <=> Writes(t)) /\ (Starts(t)' <=> Starts(t))
  <2>1. /\ todo[s] # <<>> /\ Head(todo[s]) = step /\ todo'[s] = Tail(todo[s])
        /\ \A t \in Setters : t # s => todo'[t] = todo[t]
        /\ UNCHANGED want /\ todo[s] \in Left(want[s])
    BY <1>2, DoingEffect
  <2>2. /\ step = "stop" => todo'[s] # <<>> /\ Head(todo'[s]) = "state"
        /\ step \in {"state", "clear", "phase", "period"} => todo'[s] # <<>>
        /\ step = "paint" /\ Blinking(want[s]) => todo'[s] # <<>>
        /\ step = "period" => Blinking(want[s])
    BY <2>1, NextStep
  <2>3. \A t \in Setters : t # s => (Writes(t)' <=> Writes(t)) /\ (Starts(t)' <=> Starts(t))
    BY <2>1, Zenon DEF Writes, Starts
  <2> QED
    BY <2>1, <2>2, <2>3 DEF Writes, Starts
<1>3. ASSUME NEW s \in Setters, StopTimer(s) PROVE Writes(s)'
  BY <1>2, <1>3 DEF StopTimer, Send
<1>4. ASSUME NEW s \in Setters, SetState(s) PROVE Starts(s)'
  BY <1>2, <1>4 DEF SetState
<1>5. ASSUME NEW s \in Setters, ChangePeriod(s) PROVE Starts(s)'
  BY <1>2, <1>5 DEF ChangePeriod, Send
<1>6. ASSUME NEW s \in Setters, StartTimer(s) PROVE WillRun'
  <2>1. /\ queue' = Append(queue, Start) \/ disturbed' = disturbed \cup {"dropped"}
        /\ Doing(s, "start")
    BY <1>6, SendEffect, CommandsDiffer DEF StartTimer, Start
  <2>2. UNCHANGED timer
    BY <2>1, DoingEffect
  <2> QED
    BY <2>1, <2>2, QueueKeeps
<1>7. ASSUME UNCHANGED <<current, disturbed>>
      PROVE  WillRun \/ \E s \in Setters : Writes(s) \/ Starts(s)
  BY <1>7 DEF TimerInv
<1>8. ASSUME NEW s \in Setters, SetPhase(s) \/ Paint(s)
      PROVE  WillRun' \/ \E t \in Setters : Writes(t)' \/ Starts(t)'
  <2>1. PICK step \in {"clear", "phase", "paint"} : Doing(s, step)
    BY <1>8 DEF SetPhase, Paint
  <2>2. UNCHANGED <<current, queue, disturbed>>
    BY <1>8 DEF SetPhase, Paint
  <2>3. CASE WillRun
    BY <2>1, <2>2, <2>3, DoingEffect, QueueKeeps
  <2>4. ASSUME NEW t \in Setters, Writes(t) \/ Starts(t) PROVE Writes(t)' \/ Starts(t)'
    <3>1. CASE t = s
      <4>1. Head(todo[s]) = step
        BY <2>1 DEF Doing
      <4>2. Blinking(want[s])
        BY <2>1, <2>4, <3>1, <4>1 DEF Writes, Starts
      <4> QED
        BY <1>2, <2>1, <3>1, <4>2
    <3>2. CASE t # s
      BY <1>2, <2>1, <2>4, <3>2
    <3> QED
      BY <3>1, <3>2
  <2> QED
    BY <1>7, <2>2, <2>3, <2>4
<1>9. CASE ServiceStep
  <2>1. UNCHANGED <<todo, want, current>>
    BY <1>9 DEF ServiceStep, RunCommand, Tick, Turn, Repaint, ByService
  <2>2. \A s \in Setters : (Writes(s)' <=> Writes(s)) /\ (Starts(s)' <=> Starts(s))
    BY <2>1, Zenon DEF Writes, Starts
  <2>3. disturbed \subseteq disturbed'
    BY <1>9 DEF ServiceStep, RunCommand, Tick, Turn, Repaint
  <2>4. WillRun \/ \E s \in Setters : Writes(s) \/ Starts(s)
    BY <2>1, <2>3 DEF TimerInv
  <2>5. WillRun => WillRun'
    <3>1. CASE RunCommand
      BY <3>1, RunKeeps
    <3>2. CASE Tick \/ Turn \/ Repaint
      <4>1. UNCHANGED <<queue, timer>>
        BY <3>2 DEF Tick, Turn, Repaint
      <4> QED
        BY <4>1, QueueKeeps
    <3> QED
      BY <1>9, <3>1, <3>2 DEF ServiceStep
  <2> QED
    BY <2>2, <2>4, <2>5
<1> QED
  BY <1>1, <1>3, <1>4, <1>5, <1>6, <1>8, <1>9 DEF Next, SetterStep

\* A call that nothing disturbs does what it was called for.
LEMMA StepCalm ==
  ASSUME TypeOK, TodoInv, CalmInv, Next
  PROVE  CalmInv'
<1> SUFFICES ASSUME disturbed' = {} PROVE CalmInv'
  BY DEF CalmInv
<1>t. \A s \in Setters : want[s] \in States /\ PeriodOf(want[s]) \in {150, 200, 500, 1000}
  BY StateFacts DEF TypeOK
<1>c. PeriodOf(current) \in {150, 200, 500, 1000}
  BY StateFacts DEF TypeOK
<1>1. ASSUME NEW s \in Setters, NEW state \in Requested, Begin(s, state) PROVE CalmInv'
  <2>1. ~Setting /\ callback.at = "idle"
    <3>1. CASE AtRest
      BY <3>1 DEF AtRest
    <3>2. CASE ~AtRest
      BY <1>1, <3>2 DEF Begin
    <3> QED
      BY <3>1, <3>2
  <2>2. /\ \A t \in Setters : t # s => todo'[t] = <<>>
        /\ todo'[s] # <<>> /\ Head(todo'[s]) = "stop"
    BY <1>1, <2>1, BeginEffect DEF Setting
  <2>3. Promised(s)'
    BY <2>2 DEF Promised
  <2>4. callback'.at = "idle"
    BY <1>1, <2>1 DEF Begin
  <2>5. Setting'
    BY <2>2 DEF Setting
  <2> QED
    BY <2>2, <2>3, <2>4, <2>5 DEF CalmInv
<1>2. ASSUME NEW s \in Setters, NEW step, Doing(s, step), disturbed = {}
      PROVE  /\ Head(todo[s]) = step /\ Promised(s)
             /\ todo'[s] = Tail(todo[s]) /\ todo[s] \in Left(want[s]) /\ todo[s] # <<>>
             /\ UNCHANGED <<want, timer>>
             /\ (todo'[s] # <<>> => Promised(s)') /\ (todo'[s] = <<>> => Kept') => CalmInv'
  <2>1. /\ todo[s] # <<>> /\ Head(todo[s]) = step /\ todo'[s] = Tail(todo[s])
        /\ \A t \in Setters : t # s => todo'[t] = todo[t]
        /\ UNCHANGED <<want, timer, callback>> /\ todo[s] \in Left(want[s])
    BY <1>2, DoingEffect
  <2>2. Setting
    BY <2>1 DEF Setting
  <2>3. /\ callback'.at = "idle" /\ Promised(s)
        /\ \A t \in Setters : t # s => todo[t] = <<>>
    <3>1. callback.at = "idle" /\ Promised(s)
      BY <1>2, <2>1, <2>2 DEF CalmInv
    <3>2. \A t \in Setters : t # s => todo[t] = <<>>
      BY <1>2, <2>1 DEF CalmInv
    <3> QED
      BY <2>1, <3>1, <3>2
  <2>4. \A t \in Setters : t # s => todo'[t] = <<>>
    BY <2>1, <2>3
  <2>5. ASSUME todo'[s] # <<>> => Promised(s)', todo'[s] = <<>> => Kept'
        PROVE  CalmInv'
    <3>1. Setting' <=> todo'[s] # <<>>
      BY <2>4 DEF Setting
    <3>2. \A t \in Setters : todo'[t] # <<>> => t = s
      BY <2>4
    <3> QED
      BY <2>3, <2>5, <3>1, <3>2 DEF CalmInv
  <2> QED
    BY <2>1, <2>3, <2>5
<1>3. ASSUME NEW s \in Setters, StopTimer(s) PROVE CalmInv'
  <2>1. Doing(s, "stop") /\ queue' = Append(queue, Stop) /\ disturbed = {}
    BY <1>3, SendEffect, CommandsDiffer DEF StopTimer, Stop
  <2>2. todo'[s] # <<>> /\ Head(todo'[s]) = "state"
    BY <1>2, <2>1, NextStep
  <2>3. WillStop'
    BY <1>2, <2>1, QueueKeeps
  <2> QED
    BY <1>2, <2>1, <2>2, <2>3 DEF Promised
<1>4. ASSUME NEW s \in Setters, SetState(s) PROVE CalmInv'
  <2>1. Doing(s, "state") /\ UNCHANGED queue /\ disturbed = {} /\ current' = want[s]
    BY <1>4 DEF SetState
  <2>2. todo'[s] # <<>> /\ Head(todo'[s]) = "clear" /\ UNCHANGED want
    BY <1>2, <2>1, NextStep
  <2>3. WillStop'
    BY <1>2, <2>1, QueueKeeps DEF Promised
  <2> QED
    BY <1>2, <2>1, <2>2, <2>3 DEF Promised
<1>5. ASSUME NEW s \in Setters, SetPhase(s) PROVE CalmInv'
  <2>1. PICK step \in {"clear", "phase"} : Doing(s, step)
    BY <1>5 DEF SetPhase
  <2>2. UNCHANGED <<current, queue>> /\ disturbed = {}
    BY <1>5 DEF SetPhase
  <2>3. todo'[s] # <<>> /\ Head(todo'[s]) \in {"paint", "period"} /\ UNCHANGED want
    BY <1>2, <2>1, <2>2, NextStep
  <2>4. WillStop' /\ current' = want'[s]
    BY <1>2, <2>1, <2>2, <2>3, QueueKeeps DEF Promised
  <2> QED
    BY <1>2, <2>1, <2>2, <2>3, <2>4 DEF Promised
<1>6. ASSUME NEW s \in Setters, Paint(s) PROVE CalmInv'
  <2>1. Doing(s, "paint") /\ UNCHANGED <<current, queue>> /\ disturbed = {}
    BY <1>6 DEF Paint
  <2>2. /\ IF Blinking(want[s]) THEN todo'[s] # <<>> /\ Head(todo'[s]) = "phase" ELSE todo'[s] = <<>>
        /\ UNCHANGED want
    BY <1>2, <2>1, NextStep
  <2>3. WillStop' /\ current' = want'[s]
    BY <1>2, <2>1, <2>2, QueueKeeps DEF Promised
  <2>4. CASE Blinking(want[s])
    BY <1>2, <2>1, <2>2, <2>3, <2>4 DEF Promised
  <2>5. CASE ~Blinking(want[s])
    <3>1. ~Blinking(current') /\ shown' = SteadyColour[current']
      BY <1>6, <2>2, <2>3, <2>5 DEF Paint
    <3>2. Kept'
      BY <2>3, <3>1 DEF Kept
    <3> QED
      BY <1>2, <2>1, <2>2, <2>5, <3>2
  <2> QED
    BY <2>4, <2>5
<1>7. ASSUME NEW s \in Setters, ChangePeriod(s) PROVE CalmInv'
  <2>1. /\ Doing(s, "period") /\ queue' = Append(queue, Period(PeriodOf(want[s])))
        /\ disturbed = {} /\ UNCHANGED current
    BY <1>7, <1>t, SendEffect, CommandsDiffer DEF ChangePeriod, Period
  <2>2. todo'[s] # <<>> /\ Head(todo'[s]) = "start" /\ UNCHANGED want
    BY <1>2, <2>1, NextStep
  <2>3. WillRunAt(PeriodOf(want[s]))'
    BY <1>2, <1>t, <2>1, <2>2, QueueKeeps
  <2>4. current' = want'[s]
    BY <1>2, <2>1, <2>2 DEF Promised
  <2> QED
    BY <1>2, <2>1, <2>2, <2>3, <2>4 DEF Promised
<1>8. ASSUME NEW s \in Setters, StartTimer(s) PROVE CalmInv'
  <2>1. /\ Doing(s, "start") /\ queue' = Append(queue, Start)
        /\ disturbed = {} /\ UNCHANGED current
    BY <1>8, SendEffect, CommandsDiffer DEF StartTimer, Start
  <2>2. todo'[s] = <<>> /\ Blinking(want[s]) /\ current = want[s] /\ WillRunAt(PeriodOf(want[s]))
    BY <1>2, <2>1, NextStep DEF Promised
  <2>3. WillRunAt(PeriodOf(current))'
    BY <1>2, <1>t, <2>1, <2>2, QueueKeeps
  <2>4. Kept'
    BY <2>1, <2>2, <2>3 DEF Kept
  <2> QED
    BY <1>2, <2>1, <2>2, <2>4
<1>9. CASE RunCommand
  <2>1. callback.at = "idle" /\ UNCHANGED <<todo, want, current, callback, shown, disturbed>>
    BY <1>9 DEF RunCommand, ByService
  <2>2. WillStop => WillStop'
    BY <1>9, RunKeeps
  <2>3. \A ms \in {150, 200, 500, 1000} : WillRunAt(ms) => WillRunAt(ms)'
    BY <1>9, RunKeeps
  <2>4. ASSUME NEW s \in Setters, Promised(s) PROVE Promised(s)'
    <3>1. WillRunAt(PeriodOf(want[s])) => WillRunAt(PeriodOf(want[s]))'
      BY <1>t, <2>1, <2>3
    <3> QED
      BY <2>1, <2>2, <2>4, <3>1 DEF Promised
  <2>5. ASSUME Kept PROVE Kept'
    <3>1. WillRunAt(PeriodOf(current)) => WillRunAt(PeriodOf(current))'
      BY <1>c, <2>1, <2>3
    <3> QED
      BY <2>1, <2>2, <2>5, <3>1 DEF Kept
  <2> QED
    BY <2>1, <2>4, <2>5 DEF CalmInv, Setting
<1>10. ASSUME Tick \/ Turn \/ Repaint,
              UNCHANGED <<todo, want, current, queue, timer>>, disturbed = {},
              callback'.at # "idle" => ~Setting /\ queue = <<>> /\ timer.active,
              ~Setting => Kept'
       PROVE  CalmInv'
  <2>1. WillStop' <=> WillStop
    BY <1>10, QueueKeeps
  <2>2. \A ms : WillRunAt(ms)' <=> WillRunAt(ms)
    BY <1>10, QueueKeeps
  <2>3. ASSUME NEW s \in Setters, Promised(s) PROVE Promised(s)'
    <3>1. WillRunAt(PeriodOf(want[s])) => WillRunAt(PeriodOf(want[s]))'
      BY <1>10, <2>2
    <3> QED
      BY <1>10, <2>1, <2>3, <3>1 DEF Promised
  <2>4. Setting' <=> Setting
    BY <1>10 DEF Setting
  <2> QED
    BY <1>10, <2>3, <2>4 DEF CalmInv
<1>11. ASSUME UNCHANGED <<current, queue, timer, shown>>, Kept PROVE Kept'
  <2>1. WillStop' <=> WillStop
    BY <1>11, QueueKeeps
  <2>2. WillRunAt(PeriodOf(current)) => WillRunAt(PeriodOf(current))'
    BY <1>11, QueueKeeps
  <2> QED
    BY <1>11, <2>1, <2>2 DEF Kept
<1>12. CASE Tick
  <2>1. /\ UNCHANGED <<todo, want, current, queue, timer, shown>> /\ disturbed = {}
        /\ timer.active /\ ~Setting /\ queue = <<>>
    BY <1>12 DEF Tick, ByService
  <2>2. Kept'
    BY <1>11, <2>1 DEF CalmInv
  <2> QED
    BY <1>10, <1>12, <2>1, <2>2
<1>13. CASE Turn
  <2>1. /\ UNCHANGED <<todo, want, current, queue, timer, shown>> /\ disturbed = {}
        /\ callback.at = "phase"
    BY <1>13 DEF Turn, ByService
  <2>2. ~Setting /\ queue = <<>> /\ timer.active /\ Kept
    BY <2>1 DEF CalmInv
  <2> QED
    BY <1>10, <1>11, <1>13, <2>1, <2>2
<1>14. CASE Repaint
  <2>1. /\ UNCHANGED <<todo, want, current, queue, timer>> /\ disturbed = {}
        /\ callback.at = "paint" /\ callback' = Asleep
    BY <1>14 DEF Repaint, ByService
  <2>2. ~Setting /\ queue = <<>> /\ timer.active /\ Kept
    BY <2>1 DEF CalmInv
  <2>3. Blinking(current)
    <3>1. WillStop <=> ~timer.active
      BY <2>2, EndsEmpty DEF WillStop
    <3> QED
      BY <2>2, <3>1 DEF Kept
  <2>4. WillRunAt(PeriodOf(current))'
    BY <2>1, <2>2, <2>3, QueueKeeps DEF Kept
  <2>5. Kept'
    BY <2>1, <2>3, <2>4 DEF Kept
  <2> QED
    BY <1>10, <1>14, <2>1, <2>5 DEF Asleep
<1> QED
  BY <1>1, <1>3, <1>4, <1>5, <1>6, <1>7, <1>8, <1>9, <1>12, <1>13, <1>14
     DEF Next, SetterStep, ServiceStep

----------------------------------------------------------------------------

\* The invariant holds in every reachable state.
THEOREM LedSafe == Spec => []LedInv
<1>1. Init => LedInv
  BY InitInv
<1>2. LedInv /\ [Next]_vars => LedInv'
  <2>1. CASE LedInv /\ Next
    BY <2>1, StepType, StepTimer, StepCalm DEF LedInv
  <2>2. CASE LedInv /\ UNCHANGED vars
    <3>1. UNCHANGED <<todo, want, current, phase, queue, timer, callback, shown, sets, disturbed>>
      BY <2>2 DEF vars
    <3>2. TypeOK' /\ TodoInv'
      BY <2>2, <3>1 DEF LedInv, TypeOK, TodoInv
    <3>3. TimerInv'
      BY <2>2, <3>1, Zenon DEF LedInv, TimerInv, WillRun, Writes, Starts, Ends
    <3>4. CalmInv'
      BY <2>2, <3>1, ZenonT(60)
         DEF LedInv, CalmInv, Promised, Kept, Setting, WillStop, WillRunAt, Ends
    <3> QED
      BY <3>2, <3>3, <3>4 DEF LedInv
  <2> QED
    BY <2>1, <2>2
<1> QED
  BY <1>1, <1>2, PTL DEF Spec

\* Every variable keeps its type, however many tasks set the LED and however
\* short the queue is.
THEOREM TypeCorrect == Spec => []TypeOK
<1>1. LedInv => TypeOK
  BY DEF LedInv
<1> QED
  BY <1>1, LedSafe, PTL

\* The stop of one call never undoes the start of another whose state stays
\* (led_driver.c:137, 97-98).
THEOREM TimerOutlives == Spec => []BlinkingTimerRuns
<1>1. LedInv => BlinkingTimerRuns
  <2> SUFFICES ASSUME LedInv, AtRest, "dropped" \notin disturbed, Blinking(current)
               PROVE  timer.active
    BY DEF BlinkingTimerRuns
  <2>1. \A s \in Setters : ~Writes(s) /\ ~Starts(s)
    BY DEF AtRest, Setting, Writes, Starts
  <2>2. WillRun
    BY <2>1 DEF LedInv, TimerInv
  <2> QED
    BY <2>2, EndsEmpty DEF AtRest, WillRun
<1> QED
  BY <1>1, LedSafe, PTL

\* A call that nothing disturbs leaves the LED as it was asked to
\* (led_driver.c:133-161).
THEOREM CallsAreKept == Spec => []ShowsWhatWasSet
<1>1. LedInv => ShowsWhatWasSet
  <2> SUFFICES ASSUME LedInv, AtRest, disturbed = {}
               PROVE  IF Blinking(current) THEN timer = [active |-> TRUE, period |-> PeriodOf(current)]
                      ELSE ~timer.active /\ shown = SteadyColour[current]
    BY DEF ShowsWhatWasSet
  <2>1. Kept /\ queue = <<>>
    BY DEF LedInv, CalmInv, AtRest
  <2>2. WillStop <=> ~timer.active
    BY <2>1, EndsEmpty DEF WillStop
  <2>3. WillRunAt(PeriodOf(current)) => timer = [active |-> TRUE, period |-> PeriodOf(current)]
    <3> DEFINE now == timer = [active |-> TRUE, period |-> PeriodOf(current)]
    <3>1. WillRunAt(PeriodOf(current)) <=> Ends(queue, now, {Period(PeriodOf(current))}, {Start})
      BY DEF WillRunAt
    <3> HIDE DEF now
    <3>2. WillRunAt(PeriodOf(current)) => now
      BY <2>1, <3>1, EndsEmpty
    <3> QED
      BY <3>2 DEF now
  <2> QED
    BY <2>1, <2>2, <2>3 DEF Kept
<1> QED
  BY <1>1, LedSafe, PTL
=============================================================================
