------------------------------ MODULE MCEvents ------------------------------
(* Instances of Events for TLC.                                            *)
EXTENDS Events, TLC

CONSTANTS p1, s1, s2

\* Both services subscribe to the one event.
Subscriptions == s1 :> {1} @@ s2 :> {1}
=============================================================================
