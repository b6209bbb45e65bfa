------------------------------ MODULE Sanjiao -------------------------------
(***************************************************************************)
(* One run of the triangular arbitrage strategy (Sanjiao.run) against an   *)
(* exchange that fills its orders when it likes: three limit orders turn   *)
(* the quote coin into a second and a third one and back; a leg that does  *)
(* not go through is cancelled and the legs before it are traded back.     *)
(* Afterwards the opposite direction is tried on the same, by then old,    *)
(* tickers.                                                                *)
(*                                                                         *)
(* A volume is what an order states and 'filled' reports: an amount of the *)
(* base coin of the order's market, in the smallest step the markets have. *)
(* A leg and the order that trades it back are on the same market, so the  *)
(* properties compare volumes of one market and need no prices.  Prices    *)
(* come in twice, and are free choices there: how much the first leg buys, *)
(* and how much of the third coin the second one buys with that.  Balances *)
(* come in as the exchange's right to refuse any order.                    *)
(***************************************************************************)
EXTENDS Integers, Sequences

CONSTANTS
    MaxVolume,  \* the most the markets' limits let an order trade
    Whole,      \* steps of a whole coin: int(volume) counts these
    Net,        \* the volume left of a filled one after the taker's fee, rounded:
                \* one fee for the three markets
    NoOrder

Directions == 1 .. 2
Legs == 1 .. 3
Volumes == 0 .. MaxVolume

\* The fee is small: it leaves something of everything, and more of more.
ASSUME SanjiaoAssumption ==
    /\ MaxVolume \in Nat \ {0} /\ Whole \in Nat \ {0}
    /\ Net \in [Volumes -> Volumes]
    /\ \A n \in Volumes : Net[n] <= n /\ (n > 0 => Net[n] > 0)
    /\ \A m, n \in Volumes : m <= n => Net[m] <= Net[n]

\* Every order a run can place: the legs, and the orders that trade them back.
\* Direction 1, percent_shun, buys on symbol and on symbol1 and sells on symbol2;
\* direction 2, percent_ni, buys on symbol2 and sells on symbol1 and on symbol.
Slots == [direction : Directions, role : {"leg", "revert"}, leg : Legs]
Leg(d, k) == [direction |-> d, role |-> "leg", leg |-> k]
Revert(d, k) == [direction |-> d, role |-> "revert", leg |-> k]

Order == [volume : Volumes, filled : Volumes,
          status : {"open", "closed", "canceled"}]
ASSUME NoOrderAssumption == NoOrder \notin Order

VARIABLES
    orders,     \* the exchange's orders
    direction, leg, pc,
    volume,     \* volume1, volume2 and volume3
    filled,     \* order_status['filled'] as last fetched
    reverts,    \* legs still to trade back, as <<leg, volume>>
    disturbed   \* history: what went wrong

vars == <<orders, direction, leg, pc, volume, filled, reverts, disturbed>>

Disturbances ==
    {"rejected",   \* an order was refused: the call raised
     "error",      \* a call raised after, or about, an order that exists
     "raced",      \* the order was filled further between fetch and cancel
     "withdrawn",  \* the order was fetched when the exchange had cancelled it
     "dust"}       \* less than a whole coin was filled

Init ==
    /\ orders = [s \in Slots |-> NoOrder]
    /\ direction = 1 /\ leg = 1 /\ pc = "choose"
    /\ volume = [k \in Legs |-> 0]
    /\ filled = 0 /\ reverts = << >> /\ disturbed = {}

Where == <<direction, leg>>
Book == <<volume, filled, reverts>>

Placed(s) == orders[s] # NoOrder
IsOpen(s) == Placed(s) /\ orders[s].status = "open"
Remaining(s) == orders[s].volume - orders[s].filled

(***************************************************************************)
(* The exchange.  It fills and withdraws the legs at any time; nobody      *)
(* looks at what becomes of the orders that trade back.                    *)
(***************************************************************************)

Accept(s, v) ==
    orders' = [orders EXCEPT ![s] = [volume |-> v, filled |-> 0,
                                     status |-> "open"]]

Release(s) == orders' = [orders EXCEPT ![s].status = "canceled"]

Fill(s) ==
    /\ IsOpen(s)
    /\ \E n \in 1 .. Remaining(s) :
         orders' = [orders EXCEPT ![s].filled = @ + n,
                      ![s].status = IF n = Remaining(s) THEN "closed"
                                                        ELSE "open"]
    /\ UNCHANGED <<Where, pc, Book, disturbed>>

Withdraw(s) ==
    /\ IsOpen(s)
    /\ Release(s)
    /\ UNCHANGED <<Where, pc, Book, disturbed>>

(***************************************************************************)
(* The strategy.                                                           *)
(***************************************************************************)

Forget == volume' = [k \in Legs |-> 0] /\ filled' = 0 /\ reverts' = << >>

\* The two directions are tried in turn, unless the first returned.
NextDirection ==
    /\ direction' = 2 /\ leg' = 1
    /\ pc' = IF direction = 1 THEN "choose" ELSE "done"
    /\ Forget

\* Any exception while orders are placed is printed and forgotten.
Raise(what) ==
    /\ disturbed' = disturbed \cup {what}
    /\ NextDirection

Return == direction' = 2 /\ leg' = 1 /\ pc' = "done" /\ Forget

\* Faulty variant: the market's maximum is not looked at.
ChooseLargest ==
    /\ pc = "choose"
    /\ \/ NextDirection
       \/ \E v \in 1 .. MaxVolume + 1 :
            /\ volume' = [volume EXCEPT ![1] = v]
            /\ pc' = "place"
            /\ UNCHANGED <<Where, filled, reverts>>
       \/ Return
    /\ UNCHANGED <<orders, disturbed>>

\* The direction pays or not; the first volume is what base_volume, or what the
\* order books offer, buys, and the market's limits may refuse it.
Choose ==
    /\ pc = "choose"
    /\ \/ NextDirection
       \/ \E v \in 1 .. MaxVolume :
            /\ volume' = [volume EXCEPT ![1] = v]
            /\ pc' = "place"
            /\ UNCHANGED <<Where, filled, reverts>>
       \/ Return
    /\ UNCHANGED <<orders, disturbed>>

This == Leg(direction, leg)

Place ==
    /\ pc = "place"
    /\ Accept(This, volume[leg])
    /\ pc' = "fetch"
    /\ UNCHANGED <<Where, Book, disturbed>>

\* Trade back legs k, k - 1, ... 1 of these volumes.
Back(k, volumes) == [i \in 1 .. k |-> <<k + 1 - i, volumes[k + 1 - i]>>]

\* The next leg's volume.  The second leg of direction 1 spends volume v on
\* another coin, at a price.  The others sell the very number v: of the coin that
\* was bought, except for the third leg of direction 2, which sells v of symbol's
\* base coin when v is a volume of symbol1's.
Handed(v) == IF direction = 1 /\ leg = 1 THEN 1 .. MaxVolume ELSE {v}

\* Volume v was traded: on to the next leg, unless its market limits refuse the
\* volume and the legs so far are traded back.
Proceed(v) ==
    IF leg = 3 THEN NextDirection
    ELSE /\ \E w \in Handed(v) :
              volume' = [volume EXCEPT ![leg] = v, ![leg + 1] = w]
         /\ filled' = 0
         /\ \/ leg' = leg + 1 /\ pc' = "place" /\ UNCHANGED reverts
            \/ leg' = leg /\ pc' = "revert" /\ reverts' = Back(leg, volume')
         /\ UNCHANGED direction

\* fetchOrder right after the order was placed.  A cancelled order has a branch
\* of its own on the first leg only; on the others it counts as filled.
Fetch ==
    /\ pc = "fetch"
    /\ LET status == orders[This].status IN
         /\ \/ status = "closed" /\ Proceed(Net[orders[This].filled])
            \/ status = "canceled" /\ leg = 1 /\ Return
            \/ status = "canceled" /\ leg # 1 /\ Proceed(volume[leg])
            \/ /\ status = "open"
               /\ filled' = orders[This].filled
               /\ pc' = "cancel"
               /\ UNCHANGED <<Where, volume, reverts>>
         /\ disturbed' = disturbed \cup (IF status = "canceled"
                                           THEN {"withdrawn"} ELSE {})
    /\ UNCHANGED orders

Counts == Net[filled] >= Whole

\* Faulty variant: only the leg at hand is traded back, not the ones before.
CancelledAlone ==
    \/ leg = 1 /\ ~Counts /\ Return
    \/ leg = 1 /\ Counts /\ Proceed(Net[filled])
    \/ /\ leg # 1
       /\ reverts' = IF Counts THEN << <<leg, Net[filled]>> >> ELSE << >>
       /\ pc' = "revert"
       /\ UNCHANGED <<Where, volume, filled>>

\* Faulty variant: the leg is traded back as it was ordered, not as it was filled.
CancelledAsOrdered ==
    \/ leg = 1 /\ ~Counts /\ Return
    \/ leg = 1 /\ Counts /\ Proceed(Net[filled])
    \/ /\ leg # 1
       /\ reverts' = Back(leg, volume)
       /\ pc' = "revert"
       /\ UNCHANGED <<Where, volume, filled>>

\* What follows the cancelled order, with what was filled before: the first leg
\* goes on with it, the others are traded back.  int() takes less than a whole
\* coin for nothing.
Cancelled ==
    \/ leg = 1 /\ ~Counts /\ Return
    \/ leg = 1 /\ Counts /\ Proceed(Net[filled])
    \/ /\ leg # 1
       /\ reverts' = (IF Counts THEN << <<leg, Net[filled]>> >> ELSE << >>)
                       \o Back(leg - 1, volume)
       /\ pc' = "revert"
       /\ UNCHANGED <<Where, volume, filled>>

Noticed == {d \in {"raced", "dust"} :
              \/ d = "raced" /\ orders[This].filled # filled
              \/ d = "dust" /\ filled > 0 /\ ~Counts}

\* Faulty variant: the order is left to be filled later.
CancelNothing ==
    /\ pc = "cancel"
    /\ UNCHANGED orders
    /\ disturbed' = disturbed \cup Noticed
    /\ Cancelled

\* cancelOrder; OrderNotFound means it was filled or cancelled by then.
Cancel ==
    /\ pc = "cancel"
    /\ IF IsOpen(This) THEN Release(This) ELSE UNCHANGED orders
    /\ disturbed' = disturbed \cup Noticed
    /\ Cancelled

\* The orders that trade back are placed one after the other and not looked at
\* again.
TradeBack ==
    /\ pc = "revert" /\ reverts # << >>
    /\ Accept(Revert(direction, Head(reverts)[1]), Head(reverts)[2])
    /\ reverts' = Tail(reverts)
    /\ UNCHANGED <<Where, pc, volume, filled, disturbed>>

\* Faulty variant: the return after the orders is forgotten.
TradedBackOn ==
    /\ pc = "revert" /\ reverts = << >>
    /\ NextDirection
    /\ UNCHANGED <<orders, disturbed>>

TradedBack ==
    /\ pc = "revert" /\ reverts = << >>
    /\ Return
    /\ UNCHANGED <<orders, disturbed>>

\* The order the strategy is about to place, and its volume.
Wanted == IF pc = "place" THEN <<This, volume[leg]>>
          ELSE <<Revert(direction, Head(reverts)[1]), Head(reverts)[2]>>
Placing == pc = "place" \/ (pc = "revert" /\ reverts # << >>)

\* The order does not reach the exchange, or is refused there: for want of coins,
\* as when the order before is not filled yet or brought less than this one sells.
Rejected ==
    /\ Placing
    /\ Raise("rejected")
    /\ UNCHANGED orders

\* The exchange takes the order and its answer is lost.
PlaceFails ==
    /\ Placing
    /\ Accept(Wanted[1], Wanted[2])
    /\ Raise("error")

FetchFails ==
    /\ pc = "fetch"
    /\ Raise("error")
    /\ UNCHANGED orders

\* On the first leg the return in "finally" swallows the exception.
CancelFails ==
    /\ pc = "cancel"
    /\ \/ UNCHANGED orders
       \/ IsOpen(This) /\ Release(This)
    /\ IF leg = 1 /\ ~Counts
         THEN Return /\ disturbed' = disturbed \cup {"error"}
         ELSE Raise("error")

Run == \/ Choose \/ Place \/ Fetch \/ Cancel \/ TradeBack \/ TradedBack
       \/ Rejected \/ PlaceFails \/ FetchFails \/ CancelFails

\* The run is over and no leg is left to fill.
Stopped == /\ pc = "done"
           /\ \A d \in Directions, k \in Legs : ~IsOpen(Leg(d, k))
           /\ UNCHANGED vars

Next == \/ Run \/ Stopped
        \/ \E d \in Directions, k \in Legs : Fill(Leg(d, k)) \/ Withdraw(Leg(d, k))

Spec == Init /\ [][Next]_vars

(***************************************************************************)
(* Properties.                                                             *)
(***************************************************************************)

\* Orders and the variables of run hold what they can hold.
TypeOK ==
    /\ orders \in [Slots -> Order \cup {NoOrder}]
    /\ direction \in Directions /\ leg \in Legs
    /\ pc \in {"choose", "place", "fetch", "cancel", "revert", "done"}
    /\ volume \in [Legs -> Volumes] /\ filled \in Volumes
    /\ reverts \in Seq(Legs \X Volumes)
    /\ disturbed \subseteq Disturbances

\* What leg k of direction d was filled for is traded back on its market, less
\* the fee, with one order; what was not filled is not.
TradedBackAsFilled(d, k) ==
    IF orders[Leg(d, k)].filled = 0 THEN ~Placed(Revert(d, k))
    ELSE /\ Placed(Revert(d, k))
         /\ orders[Revert(d, k)].volume = Net[orders[Leg(d, k)].filled]

\* The direction went all the way round, and the coin that symbol1 and symbol2
\* share, bought on leg k, was sold on the next as it was bought.
WentRound(d) ==
    LET k == IF d = 1 THEN 2 ELSE 1 IN
    /\ Placed(Leg(d, 3)) /\ orders[Leg(d, 3)].status = "closed"
    /\ Placed(Leg(d, k)) /\ Placed(Leg(d, k + 1))
    /\ orders[Leg(d, k + 1)].volume = Net[orders[Leg(d, k)].filled]

\* A run that nothing disturbed leaves no direction half way: it went round, or
\* each of its legs is traded back for just what it was filled.
EndsSquare ==
    pc = "done" /\ disturbed = {} =>
      \A d \in Directions :
        \/ WentRound(d)
        \/ \A k \in Legs : Placed(Leg(d, k)) => TradedBackAsFilled(d, k)

\* Unless a call about an existing order failed, a leg is over before the next
\* one is placed, in both directions: no two legs compete for the same coins.
OneLegAtATime ==
    "error" \notin disturbed =>
      \A s, t \in Slots : s.role = "leg" /\ t.role = "leg"
                          /\ IsOpen(s) /\ IsOpen(t) => s = t

\* However fills, cancellations and failures fall together, no more of a leg is
\* traded back than it was filled for, unless a leg the exchange cancelled was
\* taken for filled: the status fetched before the cancellation errs on the low
\* side only.
TradesBackNoMore ==
    "withdrawn" \notin disturbed =>
      \A d \in Directions, k \in Legs :
        Placed(Revert(d, k)) =>
          /\ Placed(Leg(d, k))
          /\ orders[Revert(d, k)].volume <= Net[orders[Leg(d, k)].filled]

\* base_volume is staked a second time, on the opposite direction, only after the
\* first one placed nothing or sold its third leg in full, unless a call raised or
\* a cancelled leg was taken for filled.
SecondStakeAfterFirst ==
    disturbed \cap {"error", "rejected", "withdrawn"} = {} =>
      \/ \A k \in Legs : ~Placed(Leg(2, k))
      \/ \A k \in Legs : ~Placed(Leg(1, k))
      \/ Placed(Leg(1, 3)) /\ orders[Leg(1, 3)].status = "closed"

\* The comment where a later leg is cancelled: cancel all orders, those of the
\* step before included, that is, sell everything.
SellsEverything ==
    pc = "done" /\ disturbed \subseteq {"raced", "dust"} =>
      \A k \in Legs \ {1} :
        Placed(Leg(1, k)) /\ orders[Leg(1, k)].status = "canceled"
          => TradedBackAsFilled(1, k)

=============================================================================
