--------------------------- MODULE MCPolicyRunner ---------------------------
(* Instances of PolicyRunner for TLC. *)
EXTENDS PolicyRunner

CONSTANT limitbuy    \* the policy that may start one instant early

MCTolerance == [p \in Policies |-> IF p = limitbuy THEN 1 ELSE 0]

=============================================================================
