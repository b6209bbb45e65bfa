----------------------------- MODULE MCCheckout -----------------------------
(* An instance of Checkout for TLC: one product, two accounts, two tabs. *)
EXTENDS Checkout, TLC

CONSTANTS month, main, spare, r1, r2

MCRequests == {r1, r2}
MCProducts == {month}
MCAccounts == {main, spare}
MCPrice == month :> 1

\* Two months take both accounts, or a top-up; one of them is not to be used before
\* its start date.  The other may be frozen, and is allocated all the same.
MCOpening == (main :> [current |-> TRUE, open |-> TRUE, balance |-> 1]) @@
             (spare :> [current |-> FALSE, open |-> TRUE, balance |-> 1])

=============================================================================
