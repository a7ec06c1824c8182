-------------------------- MODULE MCConfigProtocol --------------------------
(***************************************************************************)
(* Instances of ConfigProtocol: one push for each port.                     *)
(***************************************************************************)
EXTENDS ConfigProtocol

MCPortOf == [c \in Configs |-> IF c = "c3" THEN 2 ELSE 1]

MCHeads == {MessageOf(c) : c \in Configs}

\* Halves of two ids, and no port in between.
MixedHead == { [id |-> "mix", port |-> None] }

NothingSaved == [p \in Ports |-> NoId]
=============================================================================
