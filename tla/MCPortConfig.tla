---------------------------- MODULE MCPortConfig ----------------------------
(***************************************************************************)
(* Instances of PortConfig: two ports, messages that overlap in the buffer, *)
(* and the malformed ones.                                                   *)
(***************************************************************************)
EXTENDS PortConfig

Raw(at, dur) == [at |-> at, dur |-> dur]

Msg(id, port, thr, dur, sched) ==
  [id |-> id, port |-> port, thr |-> thr, dur |-> dur, sched |-> sched, fits |-> TRUE]

NothingSaved ==
  [p \in Ports |-> [id |-> None, sched |-> None, thr |-> None, dur |-> None]]

\* Port 1 runs "c0" since before the first boot; port 2 is new.
OneSaved ==
  [p \in Ports |->
     IF p = 1 THEN [id |-> "c0", sched |-> <<Raw(1, 1)>>, thr |-> 0, dur |-> 0]
              ELSE NothingSaved[p]]

\* Port 1 runs "c0"; the messages are for port 2.  "c1" has an unreadable
\* time, a slot more than MaxSlots and one more than fits the buffer; another
\* has the empty id that port 2 starts with; "c4" is longer than the buffer,
\* and finds it empty when it comes first.
PushedMessages ==
  { Msg("c1", 2, 30, 0, <<Raw(NoTime, 1), Raw(2, 2), Raw(3, 1)>>),
    Msg(NoId, 2, 30, 0, <<Raw(1, 1)>>),
    [Msg("c4", 1, 0, 0, <<>>) EXCEPT !.fits = FALSE] }

\* Halves of two messages: no id, a port and a threshold made of digits of two.
MixedText == { [id |-> None, port |-> 12, thr |-> 130, dur |-> 0, sched |-> <<>>] }

\* One update of the saved port 1.
OneUpdate == { Msg("c1", 1, 30, 2, <<Raw(2, 2)>>) }

\* One whose slot has an unreadable time.
UnreadableUpdate == { Msg("c1", 1, 30, 2, <<Raw(NoTime, 2)>>) }

\* Two updates, one after the other.
TwoUpdates == { Msg("c1", 1, 0, 0, <<>>), Msg("c2", 1, 30, 0, <<>>) }
=============================================================================
