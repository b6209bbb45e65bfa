------------------------------- MODULE Sales -------------------------------
(***************************************************************************)
(* What the shop promises of money and orders: what leaves an account goes *)
(* whole to one basket, an order is never changed once it is placed, and   *)
(* the site places one only when it has been paid for.                     *)
(***************************************************************************)
EXTENDS Integers

CONSTANTS
    Accounts,
    Baskets,
    Orders,     \* what may be ordered
    Worth,      \* per order
    Opening,    \* per account, its balance at the start
    NoOrder

VARIABLES
    balance,    \* of each account
    paid,       \* for each basket
    order,      \* of each basket, or NoOrder
    given,      \* baskets ordered by the REST interface
    outside     \* number of changes other than by the checkout

vars == <<balance, paid, order, given, outside>>

Init ==
    /\ balance = Opening
    /\ paid = [b \in Baskets |-> 0]
    /\ order = [b \in Baskets |-> NoOrder]
    /\ given = {}
    /\ outside = 0

\* The amount is what the account loses.
Pay(a, b) ==
    LET amount == balance[a] - balance'[a] IN
      /\ amount > 0
      /\ balance' = [balance EXCEPT ![a] = @ - amount]
      /\ paid' = [paid EXCEPT ![b] = @ + amount]
      /\ UNCHANGED <<order, given, outside>>

Place(b, o) ==
    /\ order[b] = NoOrder
    /\ order' = [order EXCEPT ![b] = o]
    /\ Worth[o] > 0
    /\ UNCHANGED <<balance, paid, outside>>

Sell(b, o) ==
    /\ Place(b, o)
    /\ paid[b] >= Worth[o]
    /\ UNCHANGED given

Give(b, o) ==
    /\ Place(b, o)
    /\ given' = given \cup {b}

Adjust(a) ==
    /\ outside' = outside + 1
    /\ balance' = [balance EXCEPT ![a] = balance'[a]]
    /\ UNCHANGED <<paid, order, given>>

Next ==
    \/ \E a \in Accounts : Adjust(a) \/ \E b \in Baskets : Pay(a, b)
    \/ \E b \in Baskets, o \in Orders : Sell(b, o) \/ Give(b, o)

Spec == Init /\ [][Next]_vars

=============================================================================
