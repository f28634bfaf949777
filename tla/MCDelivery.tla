----------------------------- MODULE MCDelivery -----------------------------
(* The data of the events in the instances of Delivery that TLC checks.    *)
EXTENDS Delivery

CONSTANTS a, b, s

\* Two machines: the second event has the earliest start of the shared session.
TwoMachines == [e \in Event |-> IF e = 3 THEN b ELSE a]
OneMachine  == [e \in Event |-> a]

\* The clock stepped back after the first event; the others share a second.
Seconds == [e \in Event |-> IF e = 1 THEN 2 ELSE 1]

EventParts ==
  [e \in Event |-> CASE e = 1 -> {"requests", "tool_calls"}
                     [] e = 2 -> {"requests"}
                     [] e = 3 -> {"requests", "web_requests"}]

Starts == [e \in Event |-> CASE e = 1 -> 3 [] e = 2 -> 1 [] e = 3 -> 2]

Sessions == [e \in Event |-> s]
=============================================================================
