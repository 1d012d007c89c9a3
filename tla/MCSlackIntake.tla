---------------------------- MODULE MCSlackIntake ----------------------------
(* A small instance of SlackIntake for TLC: a unit of two messages and a unit *)
(* of one message in another channel.                                         *)
EXTENDS SlackIntake, TLC

MCUnitOf == [m \in Messages |-> IF m = 3 THEN 2 ELSE 1]
MCChannelOf == [u \in Units |-> IF u = 1 THEN "one" ELSE "two"]
=============================================================================
