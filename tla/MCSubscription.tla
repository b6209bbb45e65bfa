--------------------------- MODULE MCSubscription ---------------------------
(* Instances of Subscription for TLC: numbers for orders and rows; runs do
   not differ. *)
EXTENDS Subscription, TLC

CONSTANTS known, unknown

MCOrders == 1..2
MCRows == 1..2
\* Every order buys the known product, some also one that is not in the map.
MCBaskets == {(known :> 1) @@ (unknown :> n) : n \in 0..1}
MCSymmetry == Permutations(Runs)

=============================================================================
