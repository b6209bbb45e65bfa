--------------------------- MODULE MCAccountLife ----------------------------
(* Instances of AccountLife for TLC. *)
EXTENDS AccountLife, TLC

CONSTANTS bank, lapsedAccount, card, voucher

MCAccounts == {bank, lapsedAccount, card, voucher}
MCCreditLimit == [a \in MCAccounts |-> IF a = bank THEN Unlimited ELSE 0]
Holding(c, v) ==
    [a \in MCAccounts |->
        [status |-> "Open",
         balance |-> IF a = card THEN c ELSE IF a = voucher THEN v ELSE 0]]

\* One gift card with money on it, and one that is used up.
OneIsEmpty == Holding(1, 0)
BothHold == Holding(2, 1)

Transfer(s, d, m) == [source |-> s, destination |-> d, amount |-> m]
Set(a, st) == [account |-> a, status |-> st]

TopUpOrWithdraw == {Transfer(bank, card, 1), Transfer(card, bank, 1)}
TopUp == {Transfer(bank, card, 1)}
AnyChange == {Set(card, "Frozen"), Set(card, "Open"), Set(card, "Kept")}
Edit == {Set(card, "Kept")}

ExpiredCards == {card, voucher}
NoWork == {}

Symmetry == Permutations(Commands)

=============================================================================
