------------------------------ MODULE MCBroker ------------------------------
(* Broker for TLC: one binding id, and the sizes the updates ask for.      *)
EXTENDS Broker, PlanSizes, TLC

CONSTANTS b1, u1, u2

\* A plan of 1 GB that may be customized up to 3 GB.
MCPlan == [bullet |-> 1, customized |-> TRUE, Default |-> 1, Step |-> 1, Max |-> 3]
MCSize0 == VolumeSize(MCPlan, NotGiven)
SameBinding == [r \in Binds \cup Unbinds |-> b1]
\* u1 asks for 1.5 GB and gets 2, u2 for 2.5 GB and gets 3.
Growing == [u \in Updates |-> VolumeSize(MCPlan, AsksFor(IF u = u1 THEN 15 ELSE 25))]

Permuted == Permutations(Provisions) \cup Permutations(Deprovisions)
=============================================================================
