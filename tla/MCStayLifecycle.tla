--------------------------- MODULE MCStayLifecycle ---------------------------
(* Instances of StayLifecycle for TLC. *)
EXTENDS StayLifecycle

\* The first facility can hold two people per date, the others one.
MCCapacity == [f \in Facilities |-> [d \in Days |-> IF f = 1 THEN 2 ELSE 1]]
==============================================================================
