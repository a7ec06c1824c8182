------------------------------- MODULE LedDriver -------------------------------
(***************************************************************************)
(* led_driver.c: one RGB LED, the tasks that set it and its blink timer.     *)
(*                                                                          *)
(* led_driver_set() takes no lock.  It stops the timer by a command in the   *)
(* queue of the timer service, writes the state, the phase and the pins, and *)
(* for a blinking state queues the new period and the start.  The service    *)
(* runs the commands and blink_callback() in one task of low priority, so a  *)
(* tick may come before the stop that was already queued.                    *)
(***************************************************************************)
EXTENDS Naturals, Sequences

CONSTANTS
  Setters,     \* the tasks that call led_driver_set() for this LED
  Requested,   \* the states they ask for
  QueueLength, \* configTIMER_QUEUE_LENGTH
  MaxSets      \* bound: calls of led_driver_set()

SteadyColour == [off |-> "dark", red_steady |-> "red", green_steady |-> "green",
                 white_steady |-> "white", purple_steady |-> "purple"]

BlinkColour == [red_blinking |-> "red", red_double_blink |-> "red", red_slow_blink |-> "red",
                red_fast_blink |-> "red", yellow_blinking |-> "yellow",
                white_blinking |-> "white", blue_blinking |-> "blue", cyan_blinking |-> "cyan"]

OwnPeriod == [red_double_blink |-> 200, red_slow_blink |-> 1000, red_fast_blink |-> 150]

Blinking(state) == state \in DOMAIN BlinkColour

\* get_blink_color(): a steady state has no blink colour and the default period.
ColourOf(state) == IF Blinking(state) THEN BlinkColour[state] ELSE "dark"
PeriodOf(state) == IF state \in DOMAIN OwnPeriod THEN OwnPeriod[state] ELSE 500

States == DOMAIN SteadyColour \cup DOMAIN BlinkColour
Colours == {"dark", "red", "green", "yellow", "white", "purple", "blue", "cyan"}

ASSUME RequestedAssumption == Requested \subseteq States
ASSUME BoundAssumption == QueueLength \in Nat \ {0} /\ MaxSets \in Nat

VARIABLES
  todo,      \* what each setter has left to do in its call
  want,      \* the state it was called with
  current,   \* current_state
  phase,     \* blink_phase, modulo the eight ticks of the double blink
  queue,     \* commands the timer service has not run yet
  timer,     \* whether the timer is active, and its period
  callback,  \* where blink_callback() stands, and its locals
  shown,     \* what the pins show
  sets,      \* calls so far
  disturbed  \* ghost: what has come between since a call last found everything at rest

vars == <<todo, want, current, phase, queue, timer, callback, shown, sets, disturbed>>

Asleep == [at |-> "idle", colour |-> "dark", lit |-> FALSE]

Init ==
  /\ todo = [s \in Setters |-> <<>>] /\ want = [s \in Setters |-> "off"]
  /\ current = "off" /\ phase = 0 /\ shown = "dark"
  /\ queue = <<>> /\ timer = [active |-> FALSE, period |-> 500] /\ callback = Asleep
  /\ sets = 0 /\ disturbed = {}

----------------------------------------------------------------------------
(* led_driver_set().                                                         *)

\* Mutant: the timer of a blinking state is left alone.
StepsWithoutStop(state) ==
  <<"state", "clear", "paint">>
    \o IF Blinking(state) THEN <<"phase", "period", "start">> ELSE <<>>

\* Mutant: the state is written before the timer is stopped.
StepsLateStop(state) ==
  <<"state", "stop", "clear", "paint">>
    \o IF Blinking(state) THEN <<"phase", "period", "start">> ELSE <<>>

Steps(state) ==
  <<"stop", "state", "clear", "paint">>
    \o IF Blinking(state) THEN <<"phase", "period", "start">> ELSE <<>>

Setting == \E s \in Setters : todo[s] # <<>>
AtRest == ~Setting /\ queue = <<>> /\ callback.at = "idle"

Begin(s, state) ==
  /\ todo[s] = <<>> /\ sets < MaxSets /\ sets' = sets + 1
  /\ todo' = [todo EXCEPT ![s] = Steps(state)]
  /\ want' = [want EXCEPT ![s] = state]
  /\ disturbed' = IF AtRest THEN {}
                  ELSE disturbed \cup (IF Setting THEN {"overlapped"} ELSE {})
                                 \cup (IF callback.at # "idle" THEN {"overtaken"} ELSE {})
  /\ UNCHANGED <<current, phase, queue, timer, callback, shown>>

Doing(s, step) ==
  /\ todo[s] # <<>> /\ Head(todo[s]) = step
  /\ todo' = [todo EXCEPT ![s] = Tail(@)]
  /\ UNCHANGED <<want, timer, callback, sets>>

\* A command is sent without waiting: a full queue drops it.
Send(s, step, command) ==
  /\ Doing(s, step)
  /\ IF Len(queue) < QueueLength
     THEN queue' = Append(queue, command) /\ UNCHANGED disturbed
     ELSE disturbed' = disturbed \cup {"dropped"} /\ UNCHANGED queue
  /\ UNCHANGED <<current, phase, shown>>

StopTimer(s) == Send(s, "stop", [name |-> "stop"])
ChangePeriod(s) == Send(s, "period", [name |-> "period", of |-> PeriodOf(want[s])])
StartTimer(s) == Send(s, "start", [name |-> "start"])

SetState(s) ==
  /\ Doing(s, "state") /\ current' = want[s]
  /\ UNCHANGED <<phase, queue, shown, disturbed>>

SetPhase(s) ==
  /\ \/ Doing(s, "clear") /\ phase' = 0
     \/ Doing(s, "phase") /\ phase' = 1
  /\ UNCHANGED <<current, queue, shown, disturbed>>

Paint(s) ==
  /\ Doing(s, "paint")
  /\ shown' = IF Blinking(want[s]) THEN ColourOf(want[s]) ELSE SteadyColour[want[s]]
  /\ UNCHANGED <<current, phase, queue, disturbed>>

SetterStep(s) ==
  \/ StopTimer(s) \/ SetState(s) \/ SetPhase(s) \/ Paint(s) \/ ChangePeriod(s) \/ StartTimer(s)

----------------------------------------------------------------------------
(* The timer service and blink_callback().                                   *)

ByService == UNCHANGED <<todo, want, current, sets>>

\* Changing the period of a stopped timer starts it, too.
RunCommand ==
  /\ callback.at = "idle" /\ queue # <<>> /\ queue' = Tail(queue)
  /\ LET command == Head(queue) IN
       timer' = CASE command.name = "stop" -> [timer EXCEPT !.active = FALSE]
                  [] command.name = "start" -> [timer EXCEPT !.active = TRUE]
                  [] command.name = "period" -> [active |-> TRUE, period |-> command.of]
  /\ ByService /\ UNCHANGED <<phase, callback, shown, disturbed>>

\* The period is over: the callback reads the colour.
Tick ==
  /\ callback.at = "idle" /\ timer.active
  /\ callback' = [at |-> "phase", colour |-> ColourOf(current), lit |-> FALSE]
  /\ disturbed' = disturbed \cup (IF Setting \/ queue # <<>> THEN {"overtaken"} ELSE {})
  /\ ByService /\ UNCHANGED <<phase, queue, timer, shown>>

\* Two short flashes in eight ticks, or on and off.
Double(state) == state = "red_double_blink"

\* Mutant: the phase is counted up for every state and nothing takes it modulo 8.
NextPhaseCounted(state) == phase + 1

\* Mutant: the phase is read and not changed.
NextPhaseKept(state) == phase

NextPhase(state) ==
  IF Double(state) THEN (phase + 1) % 8 ELSE IF phase = 0 THEN 1 ELSE 0

Turn ==
  /\ callback.at = "phase"
  /\ phase' = NextPhase(current)
  /\ callback' = [callback EXCEPT !.at = "paint",
                    !.lit = IF Double(current) THEN phase \in {0, 2} ELSE phase' # 0]
  /\ ByService /\ UNCHANGED <<queue, timer, shown, disturbed>>

Repaint ==
  /\ callback.at = "paint" /\ callback' = Asleep
  /\ shown' = IF callback.lit THEN callback.colour ELSE "dark"
  /\ ByService /\ UNCHANGED <<phase, queue, timer, disturbed>>

ServiceStep == RunCommand \/ Tick \/ Turn \/ Repaint

Next ==
  \/ \E s \in Setters : SetterStep(s) \/ \E state \in Requested : Begin(s, state)
  \/ ServiceStep

Spec == Init /\ [][Next]_vars

\* Every task runs, and the service empties its queue in each round of its loop,
\* between two ticks.
Fairness ==
  /\ \A s \in Setters : WF_vars(SetterStep(s))
  /\ WF_vars(Tick \/ Turn \/ Repaint) /\ SF_vars(RunCommand)

FairSpec == Spec /\ Fairness

----------------------------------------------------------------------------
Commands == [name : {"stop", "start"}] \cup [name : {"period"}, of : {150, 200, 500, 1000}]

\* Every variable stays in its type: the phase below eight, the queue within its
\* length.
TypeOK ==
  /\ todo \in [Setters -> Seq({"stop", "state", "clear", "paint", "phase", "period", "start"})]
  /\ want \in [Setters -> States] /\ current \in States /\ phase \in 0..7
  /\ queue \in Seq(Commands) /\ Len(queue) <= QueueLength
  /\ timer \in [active : BOOLEAN, period : {150, 200, 500, 1000}]
  /\ callback \in [at : {"idle", "phase", "paint"}, colour : Colours, lit : BOOLEAN]
  /\ shown \in Colours /\ sets \in 0..MaxSets
  /\ disturbed \subseteq {"overlapped", "overtaken", "dropped"}

\* A call of led_driver_set() that starts with everything at rest, and during
\* which no other call, no tick and no full queue comes between, leaves the LED
\* as asked whatever it showed before (led_driver.c:133-161): a steady colour
\* without a timer that would change it, or a timer with the right period.
ShowsWhatWasSet ==
  AtRest /\ disturbed = {} =>
    IF Blinking(current) THEN timer = [active |-> TRUE, period |-> PeriodOf(current)]
    ELSE ~timer.active /\ shown = SteadyColour[current]

\* However many tasks set the LED at once, a blinking state keeps a running
\* timer: a call stops it (led_driver.c:137) before it writes the state and
\* starts it (led_driver.c:97-98) after that, so the stop of one call cannot
\* undo the start of a call whose state is the one that stays.
BlinkingTimerRuns ==
  AtRest /\ "dropped" \notin disturbed /\ Blinking(current) => timer.active

\* So a blinking state that stays is lit in its colour and dark again and again
\* (led_driver.c:71-90), if no command was dropped.
Blinks ==
  \A state \in Requested :
    Blinking(state) /\ <>[](current = state /\ "dropped" \notin disturbed) =>
      []<>(shown = ColourOf(state)) /\ []<>(shown = "dark")
=============================================================================
