----------------------------- MODULE MCPosting ------------------------------
(* Instances of Posting for TLC. *)
EXTENDS Posting, TLC

CONSTANTS bank, redemptions, alice, frozen, r1, r2, r3

MCAccounts == {bank, redemptions, alice, frozen}
MCCreditLimit == [a \in MCAccounts |-> IF a = bank THEN Unlimited ELSE 0]
MCInitialRow ==
    (bank :> [status |-> "Open", balance |-> -3]) @@
    (redemptions :> [status |-> "Open", balance |-> 1]) @@
    (alice :> [status |-> "Open", balance |-> 2]) @@
    (frozen :> [status |-> "Frozen", balance |-> 0])

Transfer(s, d, m) ==
    [source |-> s, destination |-> d, amount |-> m, authorised |-> TRUE]

\* Payments and a top-up: two of them may overdraw alice.
PayAndTopUp ==
    {Transfer(alice, redemptions, 2), Transfer(alice, redemptions, 1),
     Transfer(redemptions, alice, 2), Transfer(bank, alice, 1)}

\* Transfers that lock the same two rows, in both orders.
Contention ==
    {Transfer(alice, redemptions, 1), Transfer(redemptions, alice, 1)}

\* One job for every reason verify_transfer has to refuse, and some that pass.
Refusals ==
    {Transfer(alice, alice, 1), Transfer(alice, redemptions, 0),
     Transfer(frozen, redemptions, 1), Transfer(alice, frozen, 1),
     Transfer(alice, redemptions, 3), Transfer(bank, frozen, 1),
     [Transfer(alice, redemptions, 1) EXCEPT !.authorised = FALSE],
     Transfer(bank, redemptions, 5)}

AllJobs == PayAndTopUp \cup Contention \cup Refusals

MCRequests == {r1, r2, r3}
TwoRequests == {r1, r2}

\* One request may ask for anything, the others fight it for the same rows.
AssignedInit ==
    /\ Init
    /\ job[r2] \in Contention
    /\ job[r3] \in {Transfer(alice, redemptions, 2), Transfer(bank, alice, 1)}

AssignedSpec == AssignedInit /\ [][Next]_vars /\ Fairness

=============================================================================
