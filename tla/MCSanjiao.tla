----------------------------- MODULE MCSanjiao ------------------------------
(* Instances of Sanjiao for TLC: a fee of one step from three steps on. *)
EXTENDS Sanjiao

MCNet == [n \in Volumes |-> IF n < 3 THEN n ELSE n - 1]

=============================================================================
