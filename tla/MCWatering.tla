----------------------------- MODULE MCWatering -----------------------------
(***************************************************************************)
(* Instances of Watering.  A day is two or three minutes long; the clock    *)
(* starts anywhere in it.                                                   *)
(***************************************************************************)
EXTENDS Watering

Raw(at, dur) == [at |-> at, dur |-> dur]

Stored(id, thr, dur, sched) == [id |-> id, sched |-> sched, thr |-> thr, dur |-> dur]

\* Both ports have a slot in either minute of the day; port 2 also has a
\* humidity trigger whose doses, as long as the check period, compete for its
\* queue.
EveryMinute ==
  [p \in Ports |-> Stored("c1", IF p = 1 THEN 0 ELSE 30, IF p = 1 THEN 0 ELSE 2,
                          <<Raw(0, 1), Raw(1, 1)>>)]

\* Two slots in the same minute.
TwiceAMinute == [p \in Ports |-> Stored("c1", 0, 0, <<Raw(1, 1), Raw(1, 2)>>)]

\* One slot a day.
OneSlot == [p \in Ports |-> Stored("c1", 0, 0, <<Raw(1, 1)>>)]

\* A config that moves the slots of port 1 into the other minute.
Update ==
  { [id |-> "c3", port |-> 1, thr |-> 0, dur |-> 0, sched |-> <<Raw(0, 1)>>,
     fits |-> TRUE] }

NoUpdate == {}

\* A failed ADC read, and a dry soil.
FailOrDry == {Invalid, 200}
=============================================================================
