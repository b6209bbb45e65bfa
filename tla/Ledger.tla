------------------------------- MODULE Ledger -------------------------------
(***************************************************************************)
(* What the accounts application promises: money only moves, whole and     *)
(* once, from one account to another.  posted[a] is the sum of the         *)
(* committed rows of the Transaction table that belong to account a.       *)
(***************************************************************************)
EXTENDS Integers

CONSTANTS
    Accounts,   \* rows of the Account table
    Amounts,    \* what transfers may move
    Opening     \* what the Transaction table sums to, per account, at the start

VARIABLE posted

Init == posted = Opening

\* A transfer is a debit of the source and a credit of the destination.
Post(source, destination, amount) ==
    /\ source # destination
    /\ amount > 0
    /\ posted' = [posted EXCEPT ![source] = @ - amount,
                                ![destination] = @ + amount]

\* The amount is what the destination gains.
Next == \E s, d \in Accounts :
          LET amount == posted'[d] - posted[d]
          IN  amount \in Amounts /\ Post(s, d, amount)

Spec == Init /\ [][Next]_posted

=============================================================================
