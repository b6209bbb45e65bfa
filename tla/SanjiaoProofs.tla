--------------------------- MODULE SanjiaoProofs ----------------------------
(***************************************************************************)
(* Proofs about Sanjiao, for every market limit, size of a whole coin, fee *)
(* and price.                                                              *)
(***************************************************************************)
EXTENDS Sanjiao, TLAPS

(***************************************************************************)
(* The inductive invariant, in the parts the theorems need.                *)
(***************************************************************************)

\* What the exchange keeps: an order is never filled beyond its volume, and it is
\* not closed for nothing.
Books ==
    /\ orders \in [Slots -> Order \cup {NoOrder}]
    /\ \A s \in Slots :
         Placed(s) => /\ orders[s].filled <= orders[s].volume
                      /\ orders[s].status = "closed" => orders[s].filled > 0

\* What is still to be traded back: legs Len(reverts), ..., 2, 1, in this order.
Due(k) == reverts[Len(reverts) + 1 - k][2]
Rows ==
    /\ Len(reverts) \in 0 .. leg
    /\ \A i \in 1 .. Len(reverts) : reverts[i][1] = Len(reverts) + 1 - i

\* What run keeps: it fetches and cancels an order that exists, and has seen no
\* more of it filled than there is.
Locals ==
    /\ direction \in Directions /\ leg \in Legs
    /\ pc \in {"choose", "place", "fetch", "cancel", "revert", "done"}
    /\ volume \in [Legs -> Volumes] /\ filled \in Volumes
    /\ reverts \in Seq(Legs \X Volumes)
    /\ disturbed \subseteq Disturbances
    /\ pc = "choose" => leg = 1
    /\ pc \in {"fetch", "cancel"} => Placed(This)
    /\ pc = "cancel" => filled <= orders[This].filled
    /\ pc = "revert" => Rows

Sound == Books /\ Locals

\* The orders the run has yet to come to.
Ahead(s) ==
    \/ s.direction > direction
    \/ /\ s.direction = direction
       /\ \/ s.role = "leg" /\ s.leg > leg
          \/ s.role = "leg" /\ s.leg = leg /\ pc \in {"choose", "place"}
          \/ s.role = "revert" /\ pc # "revert"
          \/ s.role = "revert" /\ s.leg <= Len(reverts)

Fresh == pc # "done" => \A s \in Slots : Ahead(s) => ~Placed(s)

OnlyThisIsOpen ==
    "error" \notin disturbed =>
      \A s \in Slots : s.role = "leg" /\ IsOpen(s)
                       => s = This /\ pc \in {"fetch", "cancel"}

\* Of each leg, no more is handed on, is due or is traded back than was filled.
Covered(k, v) == /\ Placed(Leg(direction, k))
                 /\ v <= Net[orders[Leg(direction, k)].filled]
NoMore ==
    "withdrawn" \notin disturbed =>
      /\ \A d \in Directions, k \in Legs :
           Placed(Revert(d, k)) =>
             /\ Placed(Leg(d, k))
             /\ orders[Revert(d, k)].volume <= Net[orders[Leg(d, k)].filled]
      /\ pc # "done" => \A k \in Legs : k < leg => Covered(k, volume[k])
      /\ pc = "revert" => \A k \in Legs : k <= Len(reverts) => Covered(k, Due(k))

\* The second direction has not started, or the first went round or never started.
FirstIsOver ==
    \/ \A k \in Legs : ~Placed(Leg(1, k))
    \/ Placed(Leg(1, 3)) /\ orders[Leg(1, 3)].status = "closed"
InTurn ==
    disturbed \cap {"error", "rejected", "withdrawn"} = {} =>
      /\ FirstIsOver \/ \A k \in Legs : ~Placed(Leg(2, k))
      /\ direction = 2 /\ pc # "done" => FirstIsOver

\* Undisturbed, all of it is: what a leg was filled for is handed on, due or traded
\* back to the step.  The coin that symbol1 and symbol2 share, bought on leg
\* Bought(d), is sold on the leg after it.
Bought(d) == IF d = 1 THEN 2 ELSE 1
Exact(k, v) == /\ Placed(Leg(direction, k))
               /\ orders[Leg(direction, k)].filled > 0
               /\ v = Net[orders[Leg(direction, k)].filled]
Square(d) ==
    \/ WentRound(d)
    \/ \A k \in Legs : Placed(Leg(d, k)) => TradedBackAsFilled(d, k)
Over(d) == pc = "done" \/ d < direction
HandedOn ==
    LET b == Bought(direction) IN
    /\ pc = "place" /\ leg = b + 1 => volume[b + 1] = volume[b]
    /\ \/ pc \in {"fetch", "cancel"} /\ leg = b + 1
       \/ pc \in {"place", "fetch", "cancel"} /\ leg > b + 1
       => /\ Placed(Leg(direction, b + 1))
          /\ orders[Leg(direction, b + 1)].volume = volume[b]
Halfway ==
    /\ pc # "done" => \A k \in Legs : k < leg => Exact(k, volume[k])
    /\ pc = "revert" =>
         \A k \in Legs :
           /\ k <= Len(reverts) => Exact(k, Due(k))
           /\ k > Len(reverts) /\ Placed(Leg(direction, k))
                => TradedBackAsFilled(direction, k)
    /\ HandedOn
Undisturbed ==
    disturbed = {} => Halfway /\ \A d \in Directions : Over(d) => Square(d)

(***************************************************************************)
(* Slots and sequences.                                                    *)
(***************************************************************************)

LEMMA LegSlots ==
    ASSUME NEW d \in Directions, NEW k \in Legs
    PROVE  /\ Leg(d, k) \in Slots
           /\ Leg(d, k).direction = d /\ Leg(d, k).leg = k
           /\ Leg(d, k).role = "leg"
BY DEF Leg, Slots

LEMMA RevertSlots ==
    ASSUME NEW d \in Directions, NEW k \in Legs
    PROVE  /\ Revert(d, k) \in Slots
           /\ Revert(d, k).direction = d /\ Revert(d, k).leg = k
           /\ Revert(d, k).role = "revert"
BY DEF Revert, Slots

LEMMA SlotParts ==
    ASSUME NEW s \in Slots
    PROVE  /\ s.direction \in Directions /\ s.leg \in Legs
           /\ s.role \in {"leg", "revert"}
           /\ s.role = "leg" => s = Leg(s.direction, s.leg)
           /\ s.role = "revert" => s = Revert(s.direction, s.leg)
BY DEF Slots, Leg, Revert

LEMMA BackTypes ==
    ASSUME NEW k \in 0 .. 2, NEW volumes \in [Legs -> Volumes]
    PROVE  /\ Back(k, volumes) \in Seq(Legs \X Volumes)
           /\ Len(Back(k, volumes)) = k
           /\ \A i \in 1 .. k : Back(k, volumes)[i] = <<k + 1 - i, volumes[k + 1 - i]>>
<1>1. \A i \in 1 .. k : k + 1 - i \in Legs /\ volumes[k + 1 - i] \in Volumes
  BY DEF Legs
<1>2. \A i \in 1 .. k : <<k + 1 - i, volumes[k + 1 - i]>> \in Legs \X Volumes
  BY <1>1
<1>3. Back(k, volumes) \in [1 .. k -> Legs \X Volumes]
  BY <1>2 DEF Back
<1>4. Back(k, volumes) \in Seq(Legs \X Volumes) /\ Len(Back(k, volumes)) = k
  BY <1>3
<1>5. QED
  BY <1>4 DEF Back

LEMMA Between ==
    ASSUME NEW m \in 1 .. 3, NEW n \in 0 .. m, n >= 1
    PROVE  n \in 1 .. 3
OBVIOUS

LEMMA NetTypes ==
    ASSUME NEW n \in Volumes
    PROVE  Net[n] \in Volumes /\ Net[n] <= n /\ (n > 0 => Net[n] > 0)
BY SanjiaoAssumption

(***************************************************************************)
(* What each step of the exchange does to the orders.                      *)
(***************************************************************************)

LEMMA AcceptEffect ==
    ASSUME Books, NEW s \in Slots, NEW v \in Volumes, Accept(s, v)
    PROVE  /\ Books'
           /\ orders'[s] # NoOrder /\ orders'[s].status = "open"
           /\ orders'[s].volume = v /\ orders'[s].filled = 0
           /\ \A t \in Slots : t # s => orders'[t] = orders[t]
<1> DEFINE new == [volume |-> v, filled |-> 0, status |-> "open"]
<1>1. new \in Order /\ new # NoOrder
  BY SanjiaoAssumption, NoOrderAssumption DEF Order, Volumes
<1>2. orders'[s] = new /\ \A t \in Slots : t # s => orders'[t] = orders[t]
  BY DEF Accept, Books
<1>3. v >= 0
  BY DEF Volumes
<1>4. orders' \in [Slots -> Order \cup {NoOrder}]
  BY <1>1 DEF Accept, Books
<1>5. Books'
  BY <1>1, <1>2, <1>3, <1>4 DEF Books, Placed
<1>6. QED
  BY <1>1, <1>2, <1>5

LEMMA ReleaseEffect ==
    ASSUME Books, NEW s \in Slots, IsOpen(s), Release(s)
    PROVE  /\ Books'
           /\ orders'[s] # NoOrder /\ orders'[s].status = "canceled"
           /\ orders'[s].volume = orders[s].volume
           /\ orders'[s].filled = orders[s].filled
           /\ \A t \in Slots : t # s => orders'[t] = orders[t]
<1>1. orders[s] \in Order
  BY DEF IsOpen, Placed, Books
<1> DEFINE new == [orders[s] EXCEPT !.status = "canceled"]
<1>2. /\ new \in Order /\ new # NoOrder /\ new.status = "canceled"
      /\ new.volume = orders[s].volume /\ new.filled = orders[s].filled
  BY <1>1, NoOrderAssumption DEF Order
<1>3. orders'[s] = new /\ \A t \in Slots : t # s => orders'[t] = orders[t]
  BY DEF Release, Books
<1>4. orders' \in [Slots -> Order \cup {NoOrder}]
  BY <1>2 DEF Release, Books
<1> HIDE DEF new
<1>5. Books'
  BY <1>2, <1>3, <1>4 DEF Books, IsOpen, Placed
<1>6. QED
  BY <1>2, <1>3, <1>5

LEMMA FillEffect ==
    ASSUME Books, NEW s \in Slots, Fill(s)
    PROVE  /\ Books'
           /\ orders[s] # NoOrder /\ orders[s].status = "open"
           /\ orders'[s] # NoOrder /\ orders'[s].status # "canceled"
           /\ orders'[s].volume = orders[s].volume
           /\ orders'[s].filled >= orders[s].filled
           /\ \A t \in Slots : t # s => orders'[t] = orders[t]
<1>1. orders[s] \in Order /\ IsOpen(s)
  BY DEF Fill, IsOpen, Placed, Books
<1>2. PICK n \in 1 .. Remaining(s) :
          orders' = [orders EXCEPT ![s].filled = @ + n,
                          ![s].status = IF n = Remaining(s) THEN "closed"
                                                            ELSE "open"]
  BY DEF Fill
<1> DEFINE new == [orders[s] EXCEPT !.filled = @ + n,
                      !.status = IF n = Remaining(s) THEN "closed" ELSE "open"]
<1>3. /\ orders[s].filled + n \in Volumes
      /\ orders[s].filled + n <= orders[s].volume
      /\ orders[s].filled + n >= orders[s].filled /\ orders[s].filled + n > 0
  BY <1>1, <1>2, SanjiaoAssumption DEF Order, Volumes, Remaining
<1>4. /\ new \in Order /\ new # NoOrder /\ new.status # "canceled"
      /\ new.volume = orders[s].volume /\ new.filled = orders[s].filled + n
  BY <1>1, <1>3, NoOrderAssumption DEF Order
<1>5. orders'[s] = new /\ \A t \in Slots : t # s => orders'[t] = orders[t]
  BY <1>2 DEF Books
<1>6. orders' = [orders EXCEPT ![s] = new]
  BY <1>2 DEF Books
<1> HIDE DEF new
<1>7. orders' \in [Slots -> Order \cup {NoOrder}]
  BY <1>4, <1>6 DEF Books
<1>8. Books'
  BY <1>3, <1>4, <1>5, <1>7 DEF Books, Placed
<1>9. QED
  BY <1>1, <1>3, <1>4, <1>5, <1>8 DEF IsOpen, Placed

(***************************************************************************)
(* What each step of the strategy does to the variables of run.            *)
(***************************************************************************)

LEMMA NextCases ==
    ASSUME [Next]_vars
    PROVE  \/ Run
           \/ \E d \in Directions, k \in Legs :
                Fill(Leg(d, k)) \/ Withdraw(Leg(d, k))
           \/ UNCHANGED vars
BY DEF Next, Stopped

\* A direction is over: the other one is tried, or run has returned.
LEMMA EndEffect ==
    ASSUME Locals, disturbed' \subseteq Disturbances, NextDirection \/ Return
    PROVE  /\ Locals'
           /\ pc' \in {"choose", "done"}
           /\ pc' = "choose" => direction = 1 /\ direction' = 2 /\ leg' = 1
<1>1. /\ volume' \in [Legs -> Volumes] /\ filled' \in Volumes
      /\ reverts' \in Seq(Legs \X Volumes)
  <2>1. /\ volume' = [k \in Legs |-> 0] /\ filled' = 0 /\ reverts' = << >>
    BY DEF NextDirection, Return, Forget
  <2>2. 0 \in Volumes
    BY SanjiaoAssumption DEF Volumes
  <2>3. << >> \in Seq(Legs \X Volumes)
    OBVIOUS
  <2>4. QED
    BY <2>1, <2>2, <2>3
<1>2. direction' = 2 /\ leg' = 1 /\ pc' \in {"choose", "done"}
      /\ (pc' = "choose" => direction = 1)
  BY DEF NextDirection, Return
<1>3. QED
  BY <1>1, <1>2 DEF Locals, Directions, Legs

\* A leg is over: the next one is placed, the legs so far are traded back, or
\* the third was the last.
LEMMA ProceedEffect ==
    ASSUME Locals, disturbed' \subseteq Disturbances, NEW v \in Volumes,
           Proceed(v)
    PROVE  /\ Locals'
           /\ pc' \in {"choose", "done", "place", "revert"}
           /\ pc' \in {"choose", "done"} <=> leg = 3
           /\ leg = 3 => NextDirection
           /\ leg # 3 =>
                /\ direction' = direction
                /\ volume'[leg] = v
                /\ \A k \in Legs : k < leg => volume'[k] = volume[k]
                /\ (direction = 1 /\ leg = 1) \/ volume'[leg + 1] = v
           /\ pc' = "place" => leg' = leg + 1
           /\ pc' = "revert" =>
                /\ leg' = leg /\ Len(reverts') = leg
                /\ \A k \in 1 .. leg : Due(k)' = volume'[k]
<1>1. CASE leg = 3
  <2>1. NextDirection
    BY <1>1 DEF Proceed
  <2>2. QED
    BY <1>1, <2>1, EndEffect
<1>2. CASE leg # 3
  <2>1. leg \in 1 .. 2 /\ leg + 1 \in Legs
    BY <1>2 DEF Locals, Legs
  <2>2. PICK w \in Handed(v) :
            volume' = [volume EXCEPT ![leg] = v, ![leg + 1] = w]
    BY <1>2 DEF Proceed
  <2>3. w \in Volumes /\ ((direction = 1 /\ leg = 1) \/ w = v)
    BY <2>2, SanjiaoAssumption DEF Handed, Volumes
  <2>4. /\ volume' \in [Legs -> Volumes]
        /\ volume'[leg] = v /\ volume'[leg + 1] = w
        /\ \A k \in Legs : k < leg => volume'[k] = volume[k]
    BY <2>1, <2>2, <2>3 DEF Locals, Legs
  <2>5. /\ filled' = 0 /\ direction' = direction
        /\ \/ leg' = leg + 1 /\ pc' = "place" /\ reverts' = reverts
           \/ leg' = leg /\ pc' = "revert" /\ reverts' = Back(leg, volume')
    BY <1>2 DEF Proceed
  <2>6. /\ Back(leg, volume') \in Seq(Legs \X Volumes)
        /\ Len(Back(leg, volume')) = leg
        /\ \A i \in 1 .. leg :
             Back(leg, volume')[i] = <<leg + 1 - i, volume'[leg + 1 - i]>>
    <3>1. leg \in 0 .. 2
      BY <2>1
    <3> DEFINE volumes == volume'
    <3>2. volumes \in [Legs -> Volumes]
      BY <2>4
    <3> HIDE DEF volumes
    <3>3. /\ Back(leg, volumes) \in Seq(Legs \X Volumes)
          /\ Len(Back(leg, volumes)) = leg
          /\ \A i \in 1 .. leg :
               Back(leg, volumes)[i] = <<leg + 1 - i, volumes[leg + 1 - i]>>
      BY <3>1, <3>2, BackTypes
    <3>4. QED
      BY <3>3 DEF volumes
  <2>7. 0 \in Volumes
    BY SanjiaoAssumption DEF Volumes
  <2>8. pc' = "revert" =>
          /\ Len(reverts') = leg
          /\ \A k \in 1 .. leg : Due(k)' = volume'[k]
          /\ Rows'
    <3> SUFFICES ASSUME pc' = "revert"
                 PROVE  /\ Len(reverts') = leg
                        /\ \A k \in 1 .. leg : Due(k)' = volume'[k]
                        /\ Rows'
      OBVIOUS
    <3>1. /\ leg' = leg /\ Len(reverts') = leg
          /\ \A i \in 1 .. leg : reverts'[i] = <<leg + 1 - i, volume'[leg + 1 - i]>>
      BY <2>5, <2>6
    <3>2. \A k \in 1 .. leg : leg + 1 - k \in 1 .. leg /\ leg + 1 - (leg + 1 - k) = k
      BY <2>1
    <3>3. \A k \in 1 .. leg : Due(k)' = volume'[k]
      BY <3>1, <3>2 DEF Due
    <3>4. Rows'
      BY <2>1, <3>1 DEF Rows
    <3>5. QED
      BY <3>1, <3>3, <3>4
  <2>9. Locals'
    BY <2>1, <2>4, <2>5, <2>6, <2>7, <2>8 DEF Locals
  <2>10. QED
    BY <1>2, <2>3, <2>4, <2>5, <2>8, <2>9
<1>3. QED
  BY <1>1, <1>2

LEMMA ThisIsLeg ==
    ASSUME Locals
    PROVE  /\ This \in Slots /\ This = Leg(direction, leg)
           /\ This.direction = direction /\ This.leg = leg /\ This.role = "leg"
BY LegSlots DEF This, Locals

\* What is cancelled is an order that has been seen.
LEMMA CancelledEffect ==
    ASSUME Locals, disturbed' \subseteq Disturbances, Cancelled
    PROVE  /\ Locals'
           /\ pc' \in {"done", "place", "revert"}
           /\ pc' = "done" => leg = 1 /\ Return
           /\ leg = 1 => \/ ~Counts /\ Return
                         \/ Counts /\ Proceed(Net[filled])
           /\ leg # 1 =>
                /\ pc' = "revert" /\ leg' = leg /\ direction' = direction
                /\ volume' = volume
                /\ Len(reverts') = (IF Counts THEN leg ELSE leg - 1)
                /\ \A k \in Legs : k < leg => Due(k)' = volume[k]
                /\ Counts => Due(leg)' = Net[filled]
<1>0. Net[filled] \in Volumes
  BY NetTypes DEF Locals
<1>1. CASE leg = 1 /\ ~Counts /\ Return
  <2>1. pc' = "done"
    BY <1>1 DEF Return
  <2>2. QED
    BY <1>1, <2>1, EndEffect
<1>2. CASE leg = 1 /\ Counts /\ Proceed(Net[filled])
  <2>1. Locals' /\ pc' \in {"place", "revert"}
    BY <1>0, <1>2, ProceedEffect
  <2>2. QED
    BY <1>2, <2>1
<1>3. CASE /\ leg # 1
           /\ reverts' = (IF Counts THEN << <<leg, Net[filled]>> >> ELSE << >>)
                           \o Back(leg - 1, volume)
           /\ pc' = "revert"
           /\ UNCHANGED <<Where, volume, filled>>
  <2> DEFINE head == IF Counts THEN << <<leg, Net[filled]>> >> ELSE << >>
             back == Back(leg - 1, volume)
             n == IF Counts THEN 1 ELSE 0
  <2>0. leg \in 2 .. 3
    BY <1>3 DEF Locals, Legs
  <2>1. /\ back \in Seq(Legs \X Volumes) /\ Len(back) = leg - 1
        /\ \A i \in 1 .. leg - 1 : back[i] = <<leg - i, volume[leg - i]>>
    <3>1. leg - 1 \in 0 .. 2 /\ volume \in [Legs -> Volumes]
      BY <2>0 DEF Locals
    <3>2. /\ back \in Seq(Legs \X Volumes) /\ Len(back) = leg - 1
          /\ \A i \in 1 .. leg - 1 :
               back[i] = <<leg - 1 + 1 - i, volume[leg - 1 + 1 - i]>>
      BY <3>1, BackTypes
    <3>3. \A i \in 1 .. leg - 1 : leg - 1 + 1 - i = leg - i
      BY <2>0
    <3> HIDE DEF back
    <3>4. QED
      BY <3>2, <3>3
  <2>2. /\ head \in Seq(Legs \X Volumes) /\ Len(head) = n
        /\ n = 1 => head[1] = <<leg, Net[filled]>>
    <3>1. <<leg, Net[filled]>> \in Legs \X Volumes
      BY <1>0 DEF Locals
    <3>2. CASE Counts
      <4>1. head = << <<leg, Net[filled]>> >> /\ n = 1
        BY <3>2
      <4> HIDE DEF head, n
      <4>2. QED
        BY <3>1, <4>1
    <3>3. CASE ~Counts
      <4>1. head = << >> /\ n = 0
        BY <3>3
      <4> HIDE DEF head, n
      <4>2. QED
        BY <4>1
    <3>4. QED
      BY <3>2, <3>3
  <2>3. reverts' = head \o back
    BY <1>3
  <2>4. n \in 0 .. 1 /\ (Counts <=> n = 1)
    OBVIOUS
  <2> HIDE DEF head, back, n
  <2>5. /\ reverts' \in Seq(Legs \X Volumes)
        /\ Len(reverts') = n + (leg - 1)
        /\ \A i \in 1 .. n + (leg - 1) :
             reverts'[i] = IF i <= n THEN head[i] ELSE back[i - n]
    BY ONLY <2>0, <2>1, <2>2, <2>3, <2>4
  <2>6. /\ \A i \in 1 .. leg - 1 : reverts'[n + i] = <<leg - i, volume[leg - i]>>
        /\ n = 1 => reverts'[1] = <<leg, Net[filled]>>
    <3>1. ASSUME NEW i \in 1 .. leg - 1
          PROVE  reverts'[n + i] = <<leg - i, volume[leg - i]>>
      <4>1. n + i \in 1 .. n + (leg - 1) /\ ~(n + i <= n) /\ n + i - n = i
        BY <2>0, <2>4
      <4>2. PICK j \in 1 .. n + (leg - 1) : j = n + i
        BY <4>1
      <4>3. ~(j <= n) /\ j - n = i
        BY <2>0, <2>4, <4>2
      <4>4. reverts'[j] = back[j - n]
        BY <2>5, <4>3
      <4>5. reverts'[j] = <<leg - i, volume[leg - i]>>
        BY <2>1, <4>3, <4>4
      <4>6. QED
        BY ONLY <4>2, <4>5
    <3>2. ASSUME n = 1 PROVE reverts'[1] = <<leg, Net[filled]>>
      <4>1. 1 \in 1 .. n + (leg - 1) /\ 1 <= n
        BY <2>0, <3>2
      <4>2. reverts'[1] = head[1]
        BY <2>5, <4>1
      <4>3. QED
        BY <2>2, <3>2, <4>2
    <3>3. QED
      BY <3>1, <3>2
  <2>7. \A k \in Legs : k < leg => Due(k)' = volume[k]
    <3>1. ASSUME NEW k \in Legs, k < leg PROVE Due(k)' = volume[k]
      <4>1. leg - k \in 1 .. leg - 1 /\ leg - (leg - k) = k
            /\ n + (leg - 1) + 1 - k = n + (leg - k)
        BY <2>0, <2>4, <3>1 DEF Legs
      <4>2. reverts'[n + (leg - k)] = <<k, volume[k]>>
        BY <2>6, <4>1
      <4>3. QED
        BY <2>5, <4>1, <4>2 DEF Due
    <3>2. QED
      BY <3>1
  <2>8. Counts => Due(leg)' = Net[filled]
    <3>1. n = 1 => n + (leg - 1) + 1 - leg = 1
      BY <2>0
    <3>2. QED
      BY <2>4, <2>5, <2>6, <3>1, <1>3 DEF Due, Where
  <2>9. Rows'
    <3>1. ASSUME NEW j \in 1 .. n + (leg - 1)
          PROVE  reverts'[j][1] = n + (leg - 1) + 1 - j
      <4>1. CASE j > n
        <5>1. j - n \in 1 .. leg - 1 /\ n + (j - n) = j
          BY <2>0, <2>4, <4>1
        <5>2. reverts'[n + (j - n)] = <<leg - (j - n), volume[leg - (j - n)]>>
          BY <2>6, <5>1
        <5>3. leg - (j - n) = n + (leg - 1) + 1 - j
          BY <2>0, <2>4
        <5>4. QED
          BY <5>1, <5>2, <5>3
      <4>2. CASE j <= n
        <5>1. j = 1 /\ n = 1 /\ n + (leg - 1) + 1 - j = leg
          BY <2>0, <2>4, <4>2
        <5>2. QED
          BY <2>6, <5>1
      <4>3. QED
        BY <2>0, <2>4, <4>1, <4>2
    <3>2. n + (leg - 1) \in 0 .. leg /\ leg' = leg
      BY <1>3, <2>0, <2>4 DEF Where
    <3>3. QED
      BY <2>5, <3>1, <3>2 DEF Rows
  <2>10. Locals'
    BY <1>3, <2>5, <2>9 DEF Locals, Where
  <2>11. Len(reverts') = (IF Counts THEN leg ELSE leg - 1)
    BY <2>0, <2>4, <2>5
  <2>12. QED
    BY <1>3, <2>7, <2>8, <2>10, <2>11 DEF Where
<1>4. QED
  BY <1>1, <1>2, <1>3 DEF Cancelled

\* The order traded back next is the last leg's that is due.
LEMMA RevertsHead ==
    ASSUME Locals, pc = "revert", reverts # << >>
    PROVE  /\ Len(reverts) \in Legs
           /\ Head(reverts)[1] = Len(reverts)
           /\ Head(reverts)[2] = Due(Len(reverts)) /\ Head(reverts)[2] \in Volumes
           /\ Tail(reverts) \in Seq(Legs \X Volumes)
           /\ Len(Tail(reverts)) = Len(reverts) - 1
           /\ \A i \in 1 .. Len(reverts) - 1 : Tail(reverts)[i] = reverts[i + 1]
<1>1. reverts \in Seq(Legs \X Volumes) /\ Rows
  BY DEF Locals
<1>2. Len(reverts) >= 1 /\ Head(reverts) = reverts[1]
      /\ reverts[1] \in Legs \X Volumes
  BY <1>1
<1>3. Len(reverts) \in 1 .. 3
  <2>1. Len(reverts) \in 0 .. leg /\ leg \in 1 .. 3
    BY <1>1 DEF Rows, Locals, Legs
  <2>2. Len(reverts) >= 1
    BY <1>2
  <2>3. QED
    BY <2>1, <2>2, Between
<1>4. reverts[1][1] = Len(reverts) + 1 - 1 /\ Len(reverts) + 1 - Len(reverts) = 1
      /\ Len(reverts) + 1 - 1 = Len(reverts)
  BY <1>1, <1>3 DEF Rows
<1>5. QED
  BY <1>1, <1>2, <1>3, <1>4 DEF Due, Legs

LEMMA WantedTypes ==
    ASSUME Locals, Placing
    PROVE  /\ Wanted[1] \in Slots /\ Wanted[2] \in Volumes
           /\ Wanted[1].direction = direction
           /\ pc = "place" => Wanted[1] = This /\ Wanted[2] = volume[leg]
           /\ pc = "revert" => /\ reverts # << >>
                               /\ Wanted[1] = Revert(direction, Len(reverts))
                               /\ Wanted[2] = Due(Len(reverts))
<1>1. CASE pc = "place"
  BY <1>1, ThisIsLeg DEF Wanted, Locals
<1>2. CASE pc = "revert" /\ reverts # << >>
  <2>1. Head(reverts)[1] = Len(reverts) /\ Len(reverts) \in Legs
        /\ Head(reverts)[2] = Due(Len(reverts)) /\ Head(reverts)[2] \in Volumes
    BY <1>2, RevertsHead
  <2>2. direction \in Directions
    BY DEF Locals
  <2>3. QED
    BY <1>2, <2>1, <2>2, RevertSlots DEF Wanted
<1>3. QED
  BY <1>1, <1>2 DEF Placing

(***************************************************************************)
(* Types, and what an order can be.                                        *)
(***************************************************************************)

LEMMA InitSound == Init => Sound
<1> SUFFICES ASSUME Init PROVE Sound
  OBVIOUS
<1>1. Books
  BY SanjiaoAssumption DEF Init, Books, Placed
<1>2. 0 \in Volumes /\ << >> \in Seq(Legs \X Volumes)
  BY SanjiaoAssumption DEF Volumes
<1>3. Locals
  BY <1>2 DEF Init, Locals, Directions, Legs
<1>4. QED
  BY <1>1, <1>3 DEF Sound

\* Whatever the step, the exchange keeps its books.
LEMMA BooksStep ==
    ASSUME Sound, [Next]_vars
    PROVE  Books'
<1> USE DEF Sound
<1>1. CASE UNCHANGED orders
  BY <1>1 DEF Books, Placed
<1>2. ASSUME NEW s \in Slots, Fill(s) PROVE Books'
  BY <1>2, FillEffect
<1>3. ASSUME NEW s \in Slots, IsOpen(s), Release(s) PROVE Books'
  BY <1>3, ReleaseEffect
<1>4. ASSUME Placing, Accept(Wanted[1], Wanted[2]) PROVE Books'
  BY <1>4, AcceptEffect, WantedTypes
<1>5. CASE Choose \/ Fetch \/ TradedBack \/ Rejected \/ FetchFails
  BY <1>1, <1>5 DEF Choose, Fetch, TradedBack, Rejected, FetchFails
<1>6. CASE Place
  BY <1>4, <1>6 DEF Place, Placing, Wanted
<1>7. CASE TradeBack
  BY <1>4, <1>7 DEF TradeBack, Placing, Wanted
<1>8. CASE PlaceFails
  BY <1>4, <1>8 DEF PlaceFails
<1>9. CASE Cancel \/ CancelFails
  BY <1>1, <1>3, <1>9, ThisIsLeg DEF Cancel, CancelFails
<1>10. CASE UNCHANGED vars
  BY <1>1, <1>10 DEF vars
<1>11. ASSUME NEW s \in Slots, Withdraw(s) PROVE Books'
  BY <1>3, <1>11 DEF Withdraw
<1>12. QED
  BY <1>2, <1>5, <1>6, <1>7, <1>8, <1>9, <1>10, <1>11, NextCases, LegSlots DEF Run

\* A step of the exchange changes no variable of run, brings no order into being
\* and takes nothing back that was filled.
LEMMA ExchangeEffect ==
    ASSUME Sound, NEW s \in Slots, Fill(s) \/ Withdraw(s)
    PROVE  /\ UNCHANGED <<direction, leg, pc, volume, filled, reverts, disturbed>>
           /\ IsOpen(s)
           /\ \A t \in Slots : Placed(t)' <=> Placed(t)
           /\ \A t \in Slots : Placed(t) => orders'[t].filled >= orders[t].filled
           /\ \A t \in Slots : Placed(t) => orders'[t].volume = orders[t].volume
           /\ \A t \in Slots : t # s => orders'[t] = orders[t]
           /\ \A t \in Slots : Placed(t) /\ IsOpen(t)' => IsOpen(t)
<1> USE DEF Sound
<1>0. \A t \in Slots : Placed(t) => orders[t].filled >= orders[t].filled
  BY DEF Books, Placed, Order, Volumes
<1>1. CASE Fill(s)
  BY <1>0, <1>1, FillEffect DEF Fill, Where, Book, Placed, IsOpen
<1>2. CASE Withdraw(s)
  BY <1>0, <1>2, ReleaseEffect DEF Withdraw, Where, Book, Placed, IsOpen
<1>3. QED
  BY <1>1, <1>2

LEMMA ChooseEffect ==
    ASSUME Locals, Choose
    PROVE  /\ Locals' /\ UNCHANGED <<orders, disturbed>> /\ pc = "choose" /\ leg = 1
           /\ \/ NextDirection
              \/ Return
              \/ pc' = "place" /\ UNCHANGED <<direction, leg, filled, reverts>>
<1>1. /\ UNCHANGED <<orders, disturbed>> /\ pc = "choose" /\ leg = 1
      /\ disturbed' \subseteq Disturbances
  BY DEF Choose, Locals
<1>2. CASE NextDirection \/ Return
  BY <1>1, <1>2, EndEffect
<1>3. ASSUME NEW v \in 1 .. MaxVolume,
             volume' = [volume EXCEPT ![1] = v], pc' = "place",
             UNCHANGED <<Where, filled, reverts>>
      PROVE  Locals' /\ UNCHANGED <<direction, leg>>
  <2>1. v \in Volumes
    BY SanjiaoAssumption DEF Volumes
  <2>2. volume' \in [Legs -> Volumes]
    BY <1>3, <2>1 DEF Locals
  <2>3. QED
    BY <1>1, <1>3, <2>2 DEF Locals, Where
<1>4. QED
  BY <1>1, <1>2, <1>3 DEF Choose

\* What fetchOrder found decides.
LEMMA FetchEffect ==
    ASSUME Sound, Fetch
    PROVE  /\ Locals' /\ orders' = orders /\ pc = "fetch" /\ Placed(This)
           /\ orders[This] \in Order
           /\ \/ /\ orders[This].status = "closed" /\ disturbed' = disturbed
                 /\ Proceed(Net[orders[This].filled])
              \/ orders[This].status = "canceled" /\ "withdrawn" \in disturbed'
                 /\ \/ leg = 1 /\ Return
                    \/ leg # 1 /\ Proceed(volume[leg])
              \/ /\ orders[This].status = "open" /\ disturbed' = disturbed
                 /\ pc' = "cancel" /\ filled' = orders[This].filled
                 /\ UNCHANGED <<direction, leg, volume, reverts>>
<1> USE DEF Sound
<1>1. /\ Placed(This) /\ orders' = orders /\ pc = "fetch"
      /\ disturbed' = disturbed \cup (IF orders[This].status = "canceled"
                                        THEN {"withdrawn"} ELSE {})
  BY DEF Fetch, Locals
<1>2. disturbed' \subseteq Disturbances
  BY <1>1 DEF Locals, Disturbances
<1>3. orders[This] \in Order /\ orders[This].filled \in Volumes
  BY <1>1, ThisIsLeg DEF Books, Placed, Order
<1>4. Net[orders[This].filled] \in Volumes /\ volume[leg] \in Volumes
  BY <1>3, NetTypes DEF Locals
<1>5. CASE orders[This].status = "closed"
  <2>1. Proceed(Net[orders[This].filled])
    BY <1>5 DEF Fetch
  <2>2. QED
    BY <1>1, <1>2, <1>3, <1>4, <1>5, <2>1, ProceedEffect
<1>6. CASE orders[This].status = "canceled"
  <2>1. \/ leg = 1 /\ Return
        \/ leg # 1 /\ Proceed(volume[leg])
    BY <1>6 DEF Fetch
  <2>2. QED
    BY <1>1, <1>2, <1>3, <1>4, <1>6, <2>1, ProceedEffect, EndEffect
<1>7. CASE orders[This].status = "open"
  <2>1. /\ filled' = orders[This].filled /\ pc' = "cancel"
        /\ UNCHANGED <<Where, volume, reverts>>
    BY <1>7 DEF Fetch
  <2>2. This' = This /\ Placed(This)'
    BY <1>1, <2>1 DEF This, Where, Placed
  <2>3. orders[This].filled <= orders[This].filled
    BY <1>3 DEF Volumes
  <2>4. QED
    BY <1>1, <1>2, <1>3, <1>7, <2>1, <2>2, <2>3 DEF Locals, Where
<1>8. QED
  BY <1>3, <1>5, <1>6, <1>7 DEF Order

LEMMA LocalsStep ==
    ASSUME Sound, [Next]_vars
    PROVE  Locals'
<1> USE DEF Sound
<1>0. Books'
  BY BooksStep
<1>1. CASE UNCHANGED vars
  BY <1>1 DEF vars, Locals, This, Rows, Placed
<1>2. ASSUME NEW s \in Slots, Fill(s) \/ Withdraw(s) PROVE Locals'
  <2>1. This \in Slots /\ This' = This
    BY <1>2, ThisIsLeg, ExchangeEffect DEF This
  <2>2. /\ Placed(This) => Placed(This)'
        /\ Placed(This) => orders'[This].filled >= orders[This].filled
    BY <1>2, <2>1, ExchangeEffect DEF Placed
  <2>3. Placed(This) => orders[This].filled \in Int /\ orders'[This].filled \in Int
    <3>1. Placed(This) => orders[This] \in Order
      BY <2>1 DEF Books, Placed
    <3>2. Placed(This) => orders'[This] \in Order
      BY <1>0, <2>1, <2>2 DEF Books, Placed
    <3>3. QED
      BY <3>1, <3>2 DEF Order, Volumes
  <2>4. filled \in Int
    BY DEF Locals, Volumes
  <2>5. UNCHANGED <<direction, leg, pc, volume, filled, reverts, disturbed>>
    BY <1>2, ExchangeEffect
  <2>6. pc = "cancel" => filled <= orders'[This].filled
    BY <2>2, <2>3, <2>4 DEF Locals
  <2>7. QED
    BY <2>1, <2>2, <2>5, <2>6 DEF Locals, Rows
<1>3. CASE Choose
  BY <1>3, ChooseEffect
<1>4. CASE Place
  <2>1. Placed(This)' /\ This' = This
    BY <1>4, AcceptEffect, ThisIsLeg DEF Place, Locals, Where, This, Placed
  <2>2. QED
    BY <1>4, <2>1 DEF Place, Locals, Where, Book
<1>5. CASE Fetch
  BY <1>5, FetchEffect
<1>6. CASE Cancel
  BY <1>6, CancelledEffect DEF Cancel, Noticed, Disturbances, Locals
<1>7. CASE TradeBack
  <2>1. /\ UNCHANGED <<direction, leg, pc, volume, filled, disturbed>>
        /\ pc = "revert" /\ reverts' = Tail(reverts) /\ reverts # << >>
    BY <1>7 DEF TradeBack, Where
  <2>2. /\ Tail(reverts) \in Seq(Legs \X Volumes)
        /\ Len(Tail(reverts)) = Len(reverts) - 1 /\ Len(reverts) \in 1 .. 3
        /\ \A i \in 1 .. Len(reverts) - 1 : Tail(reverts)[i] = reverts[i + 1]
    BY <2>1, RevertsHead DEF Legs
  <2>3. Rows'
    <3>1. Len(reverts) \in 0 .. leg /\ leg \in 1 .. 3
          /\ \A i \in 1 .. Len(reverts) : reverts[i][1] = Len(reverts) + 1 - i
      BY <2>1 DEF Locals, Rows, Legs
    <3>2. PICK n \in 1 .. 3 : n = Len(reverts)
      BY <2>2
    <3>3. \A i \in 1 .. n - 1 : reverts[i + 1][1] = n - 1 + 1 - i
      <4>1. ASSUME NEW i \in 1 .. n - 1 PROVE reverts[i + 1][1] = n - 1 + 1 - i
        <5>1. i + 1 \in 1 .. n /\ n + 1 - (i + 1) = n - 1 + 1 - i
          BY <3>2
        <5>2. QED
          BY <3>1, <3>2, <5>1
      <4>2. QED
        BY <4>1
    <3>4. n - 1 \in 0 .. leg
      BY <3>1, <3>2
    <3>5. QED
      BY <2>1, <2>2, <3>2, <3>3, <3>4 DEF Rows
  <2>4. QED
    BY <2>1, <2>2, <2>3 DEF Locals
<1>8. CASE TradedBack
  BY <1>8, EndEffect DEF TradedBack, Locals
<1>9. CASE Rejected
  BY <1>9, EndEffect DEF Rejected, Raise, Locals, Disturbances
<1>10. CASE PlaceFails \/ FetchFails
  BY <1>10, EndEffect DEF PlaceFails, FetchFails, Raise, Locals, Disturbances
<1>11. CASE CancelFails
  BY <1>11, EndEffect DEF CancelFails, Raise, Locals, Disturbances
<1>12. QED
  BY <1>1, <1>2, <1>3, <1>4, <1>5, <1>6, <1>7, <1>8, <1>9, <1>10, <1>11,
     NextCases, LegSlots DEF Run

LEMMA SpecSound == Spec => []Sound
<1>1. Sound /\ [Next]_vars => Sound'
  BY BooksStep, LocalsStep DEF Sound
<1>2. QED
  BY InitSound, <1>1, PTL DEF Spec

\* TypeOK: every volume run orders, fetches or trades back stays within the
\* markets' limits, whatever the exchange fills, withdraws or fails to answer.
THEOREM TypeCorrect == Spec => []TypeOK
<1>1. Sound => TypeOK
  BY DEF Sound, Books, Locals, TypeOK
<1>2. QED
  BY <1>1, SpecSound, PTL

(***************************************************************************)
(* Orders the run has yet to come to do not exist.                         *)
(***************************************************************************)

\* The leg at hand is over, or the direction is.
LEMMA ProceedAhead ==
    ASSUME Locals, NEW v \in Volumes, Proceed(v), disturbed' \subseteq Disturbances,
           pc \in {"fetch", "cancel"}, pc' # "done", NEW s \in Slots, Ahead(s)'
    PROVE  Ahead(s)
<1>0. /\ s.direction \in 1 .. 2 /\ s.leg \in 1 .. 3
      /\ direction \in 1 .. 2 /\ leg \in 1 .. 3
  BY SlotParts DEF Locals, Directions, Legs
<1>1. CASE leg = 3
  <2>1. direction = 1 /\ direction' = 2 /\ leg' = 1 /\ pc' = "choose"
    BY <1>1, ProceedEffect DEF NextDirection
  <2>2. QED
    BY <1>0, <2>1 DEF Ahead
<1>2. CASE leg # 3 /\ pc' = "place"
  <2>1. direction' = direction /\ leg' = leg + 1
    BY <1>2, ProceedEffect
  <2>2. s.direction = direction /\ s.role = "revert" => Ahead(s)
    BY DEF Ahead
  <2>3. QED
    BY <1>0, <1>2, <2>1, <2>2, SlotParts DEF Ahead
<1>3. CASE leg # 3 /\ pc' = "revert"
  <2>1. direction' = direction /\ leg' = leg
    BY <1>3, ProceedEffect
  <2>2. s.direction = direction /\ s.role = "revert" => Ahead(s)
    BY DEF Ahead
  <2>3. QED
    BY <1>0, <1>3, <2>1, <2>2, SlotParts DEF Ahead
<1>4. QED
  BY <1>1, <1>2, <1>3, ProceedEffect

\* What is ahead after a step was ahead before, and the step does not make it.
LEMMA AheadShrinks ==
    ASSUME Sound, [Next]_vars, pc' # "done", NEW s \in Slots, Ahead(s)'
    PROVE  /\ pc # "done" /\ Ahead(s)
           /\ ~Placed(s) => ~Placed(s)'
<1> USE DEF Sound
<1>0. /\ s.direction \in 1 .. 2 /\ s.leg \in 1 .. 3
      /\ direction \in 1 .. 2 /\ leg \in 1 .. 3
  BY SlotParts DEF Locals, Directions, Legs
<1>1. ASSUME NEW t \in Slots, Fill(t) \/ Withdraw(t)
      PROVE  /\ pc # "done" /\ Ahead(s)
             /\ ~Placed(s) => ~Placed(s)'
  BY <1>1, ExchangeEffect DEF Ahead
<1>2. ASSUME NextDirection \/ Return, pc # "done" PROVE Ahead(s)
  <2>1. pc' = "choose" /\ direction = 1 /\ direction' = 2 /\ leg' = 1
    BY <1>2 DEF NextDirection, Return
  <2>2. QED
    BY <1>0, <2>1 DEF Ahead
<1>3. \A t \in Slots : orders' = orders => (~Placed(t) => ~Placed(t)')
  BY DEF Placed
<1>4. CASE Choose
  BY <1>0, <1>2, <1>3, <1>4, ChooseEffect DEF Ahead
<1>5. CASE Place
  <2>1. This.leg = leg /\ This.direction = direction /\ This.role = "leg"
    BY ThisIsLeg
  <2>2. s # This /\ Ahead(s) /\ pc # "done"
    BY <1>0, <1>5, <2>1 DEF Place, Where, Book, Ahead
  <2>3. volume[leg] \in Volumes /\ Accept(This, volume[leg])
    BY <1>5 DEF Place, Locals
  <2>4. QED
    BY <2>2, <2>3, ThisIsLeg, AcceptEffect DEF Placed
<1>6. CASE Fetch
  <2>1. /\ orders' = orders /\ pc = "fetch" /\ disturbed' \subseteq Disturbances
        /\ Net[orders[This].filled] \in Volumes /\ volume[leg] \in Volumes
    BY <1>6, FetchEffect, NetTypes DEF Locals, Order
  <2>2. CASE \E v \in Volumes : Proceed(v)
    BY <1>3, <2>1, <2>2, ProceedAhead
  <2>3. CASE Return
    BY <1>2, <1>3, <2>1, <2>3
  <2>4. CASE pc' = "cancel" /\ UNCHANGED <<direction, leg, volume, reverts>>
    BY <1>0, <1>3, <2>1, <2>4 DEF Ahead
  <2>5. QED
    BY <1>6, <2>1, <2>2, <2>3, <2>4, FetchEffect
<1>7. ASSUME \/ UNCHANGED orders
             \/ IsOpen(This) /\ Release(This)
      PROVE  ~Placed(s) => ~Placed(s)'
  BY <1>7, ThisIsLeg, ReleaseEffect DEF IsOpen, Placed
<1>8. CASE Cancel
  <2>1. /\ disturbed' \subseteq Disturbances /\ pc = "cancel" /\ Cancelled
        /\ Net[filled] \in Volumes
    BY <1>8, NetTypes DEF Cancel, Locals, Noticed, Disturbances
  <2>2. ~Placed(s) => ~Placed(s)'
    BY <1>7, <1>8 DEF Cancel
  <2>3. CASE Return \/ Proceed(Net[filled])
    BY <1>2, <2>1, <2>2, <2>3, ProceedAhead
  <2>4. CASE pc' = "revert" /\ leg' = leg /\ direction' = direction
    BY <1>0, <2>1, <2>2, <2>4, SlotParts DEF Ahead
  <2>5. QED
    BY <2>1, <2>3, <2>4, CancelledEffect
<1>9. CASE TradeBack
  <2> DEFINE k == Len(reverts)
             back == Revert(direction, k)
  <2>1. /\ k \in Legs /\ Head(reverts)[1] = k /\ Head(reverts)[2] \in Volumes
        /\ Len(reverts') = k - 1
    BY <1>9, RevertsHead DEF TradeBack
  <2>2. /\ back \in Slots /\ back.direction = direction /\ back.role = "revert"
        /\ back.leg = k
    BY <2>1, RevertSlots DEF Locals
  <2>3. UNCHANGED <<direction, leg, pc>> /\ pc = "revert"
    BY <1>9 DEF TradeBack, Where
  <2>4. Accept(back, Head(reverts)[2])
    BY <1>9, <2>1 DEF TradeBack
  <2>5. k \in 1 .. 3
    BY <2>1 DEF Legs
  <2> HIDE DEF back
  <2>6. s # back /\ Ahead(s)
    BY <1>0, <2>1, <2>2, <2>3, <2>5 DEF Ahead
  <2>7. QED
    BY <2>1, <2>2, <2>3, <2>4, <2>6, AcceptEffect DEF Placed
<1>10. CASE TradedBack \/ Rejected \/ FetchFails \/ CancelFails
  BY <1>2, <1>3, <1>7, <1>10 DEF TradedBack, Rejected, FetchFails, CancelFails,
                                 Raise, Placing
<1>11. CASE PlaceFails
  <2>1. /\ Placing /\ Accept(Wanted[1], Wanted[2]) /\ NextDirection /\ pc # "done"
    BY <1>11 DEF PlaceFails, Raise, Placing
  <2>2. /\ Wanted[1] \in Slots /\ Wanted[2] \in Volumes
        /\ Wanted[1].direction = direction
    BY <2>1, WantedTypes
  <2>3. direction = 1 /\ direction' = 2
    BY <2>1 DEF NextDirection
  <2>4. s.direction = 2
    BY <1>0, <2>3 DEF Ahead
  <2>5. s # Wanted[1] /\ Ahead(s)
    BY <1>2, <2>1, <2>2, <2>3, <2>4
  <2>6. QED
    BY <2>1, <2>2, <2>5, AcceptEffect DEF Placed
<1>12. CASE UNCHANGED vars
  BY <1>3, <1>12 DEF vars, Ahead
<1>13. QED
  BY <1>1, <1>4, <1>5, <1>6, <1>8, <1>9, <1>10, <1>11, <1>12, NextCases, LegSlots
     DEF Run

LEMMA FreshStep ==
    ASSUME Sound, Fresh, [Next]_vars
    PROVE  Fresh'
BY AheadShrinks DEF Fresh

LEMMA SpecFresh == Spec => [](Sound /\ Fresh)
<1>1. Init => Fresh
  BY DEF Init, Fresh, Placed
<1>2. Sound /\ Fresh /\ [Next]_vars => Fresh'
  BY FreshStep
<1>3. QED
  BY <1>1, <1>2, SpecSound, PTL DEF Spec

(***************************************************************************)
(* One leg at a time.                                                      *)
(***************************************************************************)

\* Outside "fetch" and "cancel" no leg is open, so that what closes This there
\* closes all.
LEMMA OnlyThisStep ==
    ASSUME Sound, OnlyThisIsOpen, [Next]_vars
    PROVE  OnlyThisIsOpen'
<1> SUFFICES ASSUME "error" \notin disturbed', NEW s \in Slots, s.role = "leg",
                    IsOpen(s)'
             PROVE  s = This' /\ pc' \in {"fetch", "cancel"}
  BY DEF OnlyThisIsOpen
<1> USE DEF Sound
<1>1. ASSUME "error" \notin disturbed, IsOpen(s)
      PROVE  s = This /\ pc \in {"fetch", "cancel"}
  BY <1>1 DEF OnlyThisIsOpen
<1>2. ASSUME NEW t \in Slots, Fill(t) \/ Withdraw(t)
      PROVE  s = This' /\ pc' \in {"fetch", "cancel"}
  BY <1>1, <1>2, ExchangeEffect DEF This, IsOpen, Placed
<1>3. orders'[s] = orders[s] => IsOpen(s)
  BY DEF IsOpen, Placed
<1>4. CASE Place
  <2>1. Accept(This, volume[leg]) /\ volume[leg] \in Volumes
        /\ This' = This /\ pc' = "fetch" /\ disturbed' = disturbed
        /\ pc = "place"
    BY <1>4 DEF Place, Locals, This, Where
  <2>2. s # This => orders'[s] = orders[s]
    BY <2>1, AcceptEffect, ThisIsLeg
  <2>3. QED
    BY <1>1, <1>3, <2>1, <2>2
<1>5. CASE Fetch
  <2>1. orders' = orders /\ pc = "fetch" /\ "error" \notin disturbed
    BY <1>5 DEF Fetch
  <2>2. s = This /\ orders[This].status = "open"
    BY <1>1, <1>3, <2>1 DEF IsOpen
  <2>3. pc' = "cancel" /\ This' = This
    BY <1>5, <2>2 DEF Fetch, This, Where
  <2>4. QED
    BY <2>2, <2>3
<1>6. CASE Cancel
  <2>1. "error" \notin disturbed
    BY <1>6 DEF Cancel
  <2>2. CASE IsOpen(This)
    <3>1. orders'[This].status = "canceled"
          /\ \A t \in Slots : t # This => orders'[t] = orders[t]
      BY <1>6, <2>2, ReleaseEffect, ThisIsLeg DEF Cancel
    <3>2. s # This
      BY <3>1 DEF IsOpen
    <3>3. QED
      BY <1>1, <1>3, <2>1, <3>1, <3>2
  <2>3. CASE ~IsOpen(This)
    BY <1>1, <1>3, <1>6, <2>1, <2>3 DEF Cancel
  <2>4. QED
    BY <2>2, <2>3
<1>7. CASE TradeBack
  <2> DEFINE back == Revert(direction, Head(reverts)[1])
  <2>1. /\ back \in Slots /\ back.role = "revert" /\ Head(reverts)[2] \in Volumes
    BY <1>7, RevertsHead, RevertSlots DEF TradeBack, Locals
  <2>2. Accept(back, Head(reverts)[2])
    BY <1>7 DEF TradeBack
  <2>3. s # back
    BY <2>1
  <2> HIDE DEF back
  <2>4. orders'[s] = orders[s]
    BY <2>1, <2>2, <2>3, AcceptEffect
  <2>5. pc = "revert" /\ disturbed' = disturbed
    BY <1>7 DEF TradeBack
  <2>6. QED
    BY <1>1, <1>3, <2>4, <2>5
<1>8. CASE Choose \/ TradedBack \/ Rejected
  <2>1. orders' = orders /\ "error" \notin disturbed
        /\ pc \notin {"fetch", "cancel"}
    BY <1>8 DEF Choose, TradedBack, Rejected, Placing, Raise
  <2>2. QED
    BY <1>1, <1>3, <2>1
<1>9. CASE PlaceFails \/ FetchFails \/ CancelFails
  BY <1>9 DEF PlaceFails, FetchFails, CancelFails, Raise
<1>10. CASE UNCHANGED vars
  BY <1>1, <1>3, <1>10 DEF vars, This
<1>11. QED
  BY <1>2, <1>4, <1>5, <1>6, <1>7, <1>8, <1>9, <1>10, NextCases, LegSlots DEF Run

LEMMA SpecOnlyThis == Spec => []OnlyThisIsOpen
<1>1. Init => OnlyThisIsOpen
  BY DEF Init, OnlyThisIsOpen, IsOpen, Placed
<1>2. Sound /\ OnlyThisIsOpen /\ [Next]_vars => OnlyThisIsOpen'
  BY OnlyThisStep
<1>3. QED
  BY <1>1, <1>2, SpecSound, PTL DEF Spec

\* OneLegAtATime: as long as no call about an existing order fails, no two legs
\* are open on the exchange at once, of either direction.
THEOREM LegsTakeTurns == Spec => []OneLegAtATime
<1>1. OnlyThisIsOpen => OneLegAtATime
  BY DEF OnlyThisIsOpen, OneLegAtATime
<1>2. QED
  BY <1>1, SpecOnlyThis, PTL

(***************************************************************************)
(* What is traded back.                                                    *)
(***************************************************************************)

LEMMA FilledTypes ==
    ASSUME Books, NEW t \in Slots, Placed(t)
    PROVE  /\ orders[t] \in Order /\ orders[t].filled \in Volumes
           /\ orders[t].volume \in Volumes /\ Net[orders[t].filled] \in Volumes
<1>1. orders[t] \in Order
  BY DEF Books, Placed
<1>2. orders[t].filled \in Volumes /\ orders[t].volume \in Volumes
  BY <1>1 DEF Order
<1>3. QED
  BY <1>1, <1>2, NetTypes

\* An order that exists is not placed again; only while it is open does it change,
\* and what is filled stays filled.
LEMMA OldOrders ==
    ASSUME Sound, Fresh, [Next]_vars, NEW t \in Slots, Placed(t)
    PROVE  /\ Placed(t)'
           /\ orders'[t].volume = orders[t].volume
           /\ orders'[t].filled >= orders[t].filled
           /\ Net[orders[t].filled] <= Net[orders'[t].filled]
           /\ ~IsOpen(t) => orders'[t] = orders[t]
<1> USE DEF Sound
<1>0. orders[t] \in Order /\ orders[t].filled \in Volumes
  BY FilledTypes
<1>1. /\ Placed(t)' /\ orders'[t].volume = orders[t].volume
      /\ orders'[t].filled >= orders[t].filled
      /\ ~IsOpen(t) => orders'[t] = orders[t]
  <2> DEFINE P == /\ Placed(t)' /\ orders'[t].volume = orders[t].volume
                  /\ orders'[t].filled >= orders[t].filled
                  /\ ~IsOpen(t) => orders'[t] = orders[t]
  <2>1. CASE orders'[t] = orders[t]
    BY <1>0, <2>1 DEF Placed, Volumes
  <2> HIDE DEF P
  <2>2. ASSUME NEW s \in Slots, Fill(s) \/ Withdraw(s) PROVE P
    BY <2>2, ExchangeEffect DEF P
  <2>3. CASE Place
    <3>1. This \in Slots /\ Ahead(This) /\ pc # "done" /\ volume[leg] \in Volumes
      BY <2>3, ThisIsLeg DEF Place, Ahead, Locals
    <3>2. t # This
      BY <3>1 DEF Fresh
    <3>3. QED
      BY <2>1, <2>3, <3>1, <3>2, AcceptEffect DEF Place, P
  <2>4. ASSUME pc = "revert", reverts # << >>,
               Accept(Revert(direction, Len(reverts)), Due(Len(reverts)))
        PROVE  P
    <3> DEFINE k == Len(reverts)
               back == Revert(direction, k)
    <3>1. /\ k \in Legs /\ Due(k) \in Volumes /\ back \in Slots
          /\ back.direction = direction /\ back.role = "revert" /\ back.leg = k
      BY <2>4, RevertsHead, RevertSlots DEF Locals
    <3>2. k \in 1 .. 3
      BY <3>1 DEF Legs
    <3>3. Accept(back, Due(k))
      BY <2>4
    <3> HIDE DEF back
    <3>4. ~Placed(back)
      BY <2>4, <3>1, <3>2 DEF Fresh, Ahead
    <3>5. QED
      BY <2>1, <3>1, <3>3, <3>4, AcceptEffect DEF P
  <2>5. CASE TradeBack
    BY <2>4, <2>5, RevertsHead DEF TradeBack, Accept, P
  <2>6. CASE PlaceFails
    <3>1. CASE pc = "place"
      <4>1. This \in Slots /\ Ahead(This) /\ pc # "done" /\ volume[leg] \in Volumes
        BY <3>1, ThisIsLeg DEF Ahead, Locals
      <4>2. t # This
        BY <4>1 DEF Fresh
      <4>3. QED
        BY <2>1, <2>6, <3>1, <4>1, <4>2, AcceptEffect, WantedTypes DEF PlaceFails, P
    <3>2. CASE pc = "revert"
      BY <2>4, <2>6, <3>2, WantedTypes DEF PlaceFails, Accept, P
    <3>3. QED
      BY <2>6, <3>1, <3>2 DEF PlaceFails, Placing
  <2>7. CASE Cancel \/ CancelFails
    <3>1. CASE orders' = orders
      BY <2>1, <3>1 DEF P
    <3>2. CASE IsOpen(This) /\ Release(This)
      <4>1. CASE t = This
        BY <1>0, <3>2, <4>1, ReleaseEffect DEF P, Placed, Volumes
      <4>2. CASE t # This
        BY <2>1, <3>2, <4>2, ReleaseEffect, ThisIsLeg DEF P
      <4>3. QED
        BY <4>1, <4>2
    <3>3. QED
      BY <2>7, <3>1, <3>2 DEF Cancel, CancelFails
  <2>8. CASE Choose \/ Fetch \/ TradedBack \/ Rejected \/ FetchFails \/ UNCHANGED vars
    BY <2>1, <2>8 DEF Choose, Fetch, TradedBack, Rejected, FetchFails, vars, P
  <2>9. P
    <3>1. CASE Run
      BY <2>3, <2>5, <2>6, <2>7, <2>8, <3>1 DEF Run, P
    <3>2. QED
      BY <2>2, <2>8, <3>1, NextCases, LegSlots DEF P
  <2>10. QED
    BY <2>9 DEF P
<1>2. orders'[t].filled \in Volumes
  <2>1. Books'
    BY BooksStep
  <2>2. orders'[t] \in Order
    BY <1>1, <2>1 DEF Books, Placed
  <2>3. QED
    BY <2>2 DEF Order
<1>3. Net[orders[t].filled] <= Net[orders'[t].filled]
  BY <1>0, <1>1, <1>2, SanjiaoAssumption
<1>4. QED
  BY <1>1, <1>3

\* A new order is the leg at hand, or trades back the last leg that is due.
LEMMA NewOrders ==
    ASSUME Sound, [Next]_vars, NEW t \in Slots, ~Placed(t), Placed(t)'
    PROVE  \/ /\ pc = "place" /\ t = This
              /\ orders'[t].volume = volume[leg]
           \/ /\ pc = "revert" /\ reverts # << >> /\ Len(reverts) \in Legs
              /\ t = Revert(direction, Len(reverts))
              /\ orders'[t].volume = Due(Len(reverts))
<1> USE DEF Sound
<1>1. ~ UNCHANGED orders
  BY DEF Placed
<1>2. ASSUME NEW s \in Slots, Fill(s) \/ Withdraw(s) PROVE FALSE
  BY <1>2, ExchangeEffect
<1>3. ASSUME IsOpen(This), Release(This) PROVE FALSE
  <2>1. t # This
    BY <1>3 DEF IsOpen
  <2>2. QED
    BY <1>3, <2>1, ReleaseEffect, ThisIsLeg DEF Placed
<1>4. Place \/ TradeBack \/ PlaceFails
  BY <1>1, <1>2, <1>3, NextCases, LegSlots DEF Run, Choose, Fetch, Cancel, TradedBack,
     Rejected, FetchFails, CancelFails, vars
<1>5. Placing /\ Accept(Wanted[1], Wanted[2])
  BY <1>4 DEF Place, TradeBack, PlaceFails, Placing, Wanted
<1>6. t = Wanted[1] /\ orders'[t].volume = Wanted[2]
  BY <1>5, WantedTypes, AcceptEffect DEF Placed
<1>7. QED
  BY <1>5, <1>6, WantedTypes, RevertsHead DEF Placing

LEMMA CoveredStays ==
    ASSUME Sound, Fresh, [Next]_vars, NEW t \in Slots, NEW v \in Volumes,
           Placed(t), v <= Net[orders[t].filled]
    PROVE  Placed(t)' /\ v <= Net[orders'[t].filled]
<1>1. Placed(t)' /\ Net[orders[t].filled] <= Net[orders'[t].filled]
  BY OldOrders
<1>2. Net[orders[t].filled] \in Volumes
  BY FilledTypes DEF Sound
<1>3. Net[orders'[t].filled] \in Volumes
  <2>1. Books'
    BY BooksStep
  <2>2. orders'[t] \in Order
    BY <1>1, <2>1 DEF Books, Placed
  <2>3. orders'[t].filled \in Volumes
    BY <2>2 DEF Order
  <2>4. QED
    BY <2>3, NetTypes
<1>4. QED
  BY <1>1, <1>2, <1>3 DEF Volumes

\* On to the next leg, or back, with what has been filled so far.
LEMMA ProceedCovered ==
    ASSUME Locals, disturbed' \subseteq Disturbances, NEW v \in Volumes,
           Proceed(v), leg # 3, Covered(leg, v),
           \A k \in Legs : k < leg => Covered(k, volume[k])
    PROVE  /\ \A k \in Legs : k < leg' => Covered(k, volume'[k])
           /\ pc' = "revert" =>
                \A k \in Legs : k <= Len(reverts') => Covered(k, Due(k)')
<1>0. leg \in 1 .. 3 /\ \A k \in Legs : k \in 1 .. 3
  BY DEF Locals, Legs
<1>1. /\ pc' \in {"place", "revert"}
      /\ volume'[leg] = v
      /\ \A k \in Legs : k < leg => volume'[k] = volume[k]
      /\ pc' = "place" => leg' = leg + 1
      /\ pc' = "revert" => /\ leg' = leg /\ Len(reverts') = leg
                           /\ \A k \in 1 .. leg : Due(k)' = volume'[k]
  BY ProceedEffect
<1>2. \A k \in Legs : k <= leg => Covered(k, volume'[k])
  <2>1. \A k \in Legs : k <= leg => k = leg \/ k < leg
    BY <1>0
  <2>2. QED
    BY <1>1, <2>1
<1>3. \A k \in Legs : k < leg' => k <= leg
  BY <1>0, <1>1
<1>4. pc' = "revert" => \A k \in Legs : k <= Len(reverts') => k \in 1 .. leg
  BY <1>0, <1>1
<1>5. QED
  BY <1>0, <1>1, <1>2, <1>3, <1>4

\* Trading back one leg leaves what is due of the others.
LEMMA DueOfTail ==
    ASSUME Locals, TradeBack
    PROVE  /\ Len(reverts) \in 1 .. 3 /\ Len(reverts') = Len(reverts) - 1
           /\ \A k \in Legs : k <= Len(reverts') => Due(k)' = Due(k)
<1>1. pc = "revert" /\ reverts # << >> /\ reverts' = Tail(reverts)
  BY DEF TradeBack
<1>2. /\ Len(reverts) \in 1 .. 3 /\ Len(reverts') = Len(reverts) - 1
      /\ \A i \in 1 .. Len(reverts) - 1 : reverts'[i] = reverts[i + 1]
  BY <1>1, RevertsHead DEF Legs
<1>3. ASSUME NEW k \in Legs, k <= Len(reverts')
      PROVE  Due(k)' = Due(k)
  <2>1. PICK n \in 1 .. 3 : n = Len(reverts)
    BY <1>2
  <2>2. k \in 1 .. n - 1
    BY <1>2, <1>3, <2>1 DEF Legs
  <2>3. /\ n - 1 + 1 - k \in 1 .. n - 1
        /\ (n - 1 + 1 - k) + 1 = n + 1 - k
    BY <2>1, <2>2
  <2>4. reverts'[n - 1 + 1 - k] = reverts[n + 1 - k]
    BY <1>2, <2>1, <2>3
  <2>5. QED
    BY <1>2, <2>1, <2>4 DEF Due
<1>4. QED
  BY <1>2, <1>3

LEMMA DisturbedGrows ==
    ASSUME [Next]_vars
    PROVE  disturbed \subseteq disturbed'
<1>1. CASE Run
  BY <1>1 DEF Run, Choose, Place, Fetch, Cancel, TradeBack, TradedBack, Rejected,
     PlaceFails, FetchFails, CancelFails, Raise
<1>2. ASSUME NEW s, Fill(s) \/ Withdraw(s) PROVE disturbed' = disturbed
  BY <1>2 DEF Fill, Withdraw
<1>3. CASE UNCHANGED vars
  BY <1>3 DEF vars
<1>4. QED
  BY <1>1, <1>2, <1>3, NextCases

\* The run's own variables after a step, against the orders before it: the orders
\* after it have only grown.
LEMMA CoveredStep ==
    ASSUME Sound, Fresh, NoMore, [Next]_vars, "withdrawn" \notin disturbed'
    PROVE  /\ pc' # "done" => \/ direction' = direction /\ pc # "done"
                              \/ leg' = 1 /\ pc' # "revert"
           /\ pc' # "done" =>
                \A k \in Legs : k < leg' => Covered(k, volume'[k])
           /\ pc' = "revert" =>
                \A k \in Legs : k <= Len(reverts') => Covered(k, Due(k)')
<1> USE DEF Sound
<1> DEFINE P == /\ pc' # "done" => \/ direction' = direction /\ pc # "done"
                                   \/ leg' = 1 /\ pc' # "revert"
                /\ pc' # "done" =>
                     \A k \in Legs : k < leg' => Covered(k, volume'[k])
                /\ pc' = "revert" =>
                     \A k \in Legs : k <= Len(reverts') => Covered(k, Due(k)')
<1>0. /\ leg \in 1 .. 3 /\ \A k \in Legs : k \in 1 .. 3
      /\ "withdrawn" \notin disturbed
  BY DisturbedGrows DEF Locals, Legs
<1>1. /\ pc # "done" => \A k \in Legs : k < leg => Covered(k, volume[k])
      /\ pc = "revert" => \A k \in Legs : k <= Len(reverts) => Covered(k, Due(k))
  BY <1>0 DEF NoMore
<1>2. ASSUME leg' = 1, pc' # "revert" PROVE P
  <2>1. \A k \in Legs : ~(k < leg')
    BY <1>0, <1>2
  <2>2. QED
    BY <1>2, <2>1
<1>3. CASE NextDirection \/ Return
  BY <1>2, <1>3 DEF NextDirection, Return
<1>4. ASSUME UNCHANGED <<direction, leg, volume>>, pc # "done", pc' # "revert" PROVE P
  BY <1>1, <1>4
<1>5. ASSUME pc \in {"fetch", "cancel"}, NEW v \in Volumes, Proceed(v),
             disturbed' \subseteq Disturbances,
             v <= Net[orders[This].filled]
      PROVE  P
  <2>1. CASE leg = 3
    BY <1>3, <1>5, <2>1, ProceedEffect
  <2>2. CASE leg # 3
    <3>1. Covered(leg, v)
      BY <1>5, ThisIsLeg DEF Locals, Covered
    <3>2. direction' = direction
      BY <1>5, <2>2, ProceedEffect
    <3>3. QED
      BY <1>1, <1>5, <2>2, <3>1, <3>2, ProceedCovered
  <2>3. QED
    BY <2>1, <2>2
<1> HIDE DEF P
<1>6. ASSUME NEW s \in Slots, Fill(s) \/ Withdraw(s) PROVE P
  BY <1>1, <1>6, ExchangeEffect DEF P, Due
<1>7. CASE Choose
  BY <1>2, <1>7, ChooseEffect DEF NextDirection, Return, P
<1>8. CASE Place
  BY <1>4, <1>8 DEF Place, Where, Book, P
<1>9. CASE Fetch
  <2>1. /\ pc = "fetch" /\ disturbed' \subseteq Disturbances
        /\ Net[orders[This].filled] \in Volumes
        /\ Net[orders[This].filled] <= Net[orders[This].filled]
    <3>1. orders[This].filled \in Volumes /\ pc = "fetch"
          /\ disturbed' \subseteq Disturbances
      BY <1>9, FetchEffect DEF Order, Locals
    <3>2. QED
      BY <3>1, NetTypes DEF Volumes
  <2>2. \/ Proceed(Net[orders[This].filled])
        \/ pc' = "cancel" /\ UNCHANGED <<direction, leg, volume, reverts>>
    BY <1>0, <1>9, FetchEffect
  <2>3. QED
    BY <1>4, <1>5, <2>1, <2>2 DEF P
<1>10. CASE Cancel
  <2>1. /\ pc = "cancel" /\ disturbed' \subseteq Disturbances /\ Cancelled
        /\ Placed(This) /\ filled \in Volumes /\ Net[filled] \in Volumes
        /\ filled <= orders[This].filled /\ orders[This].filled \in Volumes
    BY <1>10, FilledTypes, NetTypes, ThisIsLeg
       DEF Cancel, Noticed, Disturbances, Locals
  <2>2. Net[filled] <= Net[orders[This].filled]
    BY <2>1, SanjiaoAssumption
  <2>3. CASE leg = 1
    <3>1. Return \/ Proceed(Net[filled])
      BY <2>1, <2>3, CancelledEffect
    <3>2. CASE Return
      BY <1>3, <3>2 DEF P
    <3>3. CASE Proceed(Net[filled])
      BY <1>5, <2>1, <2>2, <3>3 DEF P
    <3>4. QED
      BY <3>1, <3>2, <3>3
  <2>4. CASE leg # 1
    <3>1. /\ pc' = "revert" /\ leg' = leg /\ direction' = direction
          /\ volume' = volume
          /\ Len(reverts') = (IF Counts THEN leg ELSE leg - 1)
          /\ \A k \in Legs : k < leg => Due(k)' = volume[k]
          /\ Counts => Due(leg)' = Net[filled]
      BY <2>1, <2>4, CancelledEffect
    <3>2. Covered(leg, Net[filled])
      BY <2>1, <2>2, ThisIsLeg DEF Covered
    <3>3. ASSUME NEW k \in Legs, k <= Len(reverts') PROVE Covered(k, Due(k)')
      <4>1. k < leg \/ (k = leg /\ Counts)
        BY <1>0, <3>1, <3>3
      <4>2. CASE k < leg
        BY <1>1, <2>1, <3>1, <4>2
      <4>3. CASE k = leg /\ Counts
        BY <3>1, <3>2, <4>3
      <4>4. QED
        BY <4>1, <4>2, <4>3
    <3>4. QED
      BY <1>1, <2>1, <3>1, <3>3 DEF P
  <2>5. QED
    BY <2>3, <2>4
<1>11. CASE TradeBack
  <2>1. /\ UNCHANGED <<direction, leg, pc, volume>> /\ pc = "revert"
    BY <1>11 DEF TradeBack, Where
  <2>2. /\ Len(reverts) \in 1 .. 3 /\ Len(reverts') = Len(reverts) - 1
        /\ \A k \in Legs : k <= Len(reverts') => Due(k)' = Due(k)
    BY <1>11, DueOfTail
  <2>3. \A k \in Legs : k <= Len(reverts') => k <= Len(reverts)
    BY <1>0, <2>2
  <2>4. QED
    BY <1>1, <2>1, <2>2, <2>3 DEF P
<1>12. CASE TradedBack \/ Rejected \/ PlaceFails \/ FetchFails \/ CancelFails
  BY <1>3, <1>12 DEF TradedBack, Rejected, PlaceFails, FetchFails, CancelFails, Raise, P
<1>13. CASE UNCHANGED vars
  BY <1>1, <1>13 DEF vars, P, Due
<1>14. P
  <2>1. CASE Run
    BY <1>7, <1>8, <1>9, <1>10, <1>11, <1>12, <2>1 DEF Run, P
  <2>2. QED
    BY <1>6, <1>13, <2>1, NextCases, LegSlots DEF P
<1>15. QED
  BY <1>14 DEF P

LEMMA NoMoreStep ==
    ASSUME Sound, Fresh, NoMore, [Next]_vars
    PROVE  NoMore'
<1> SUFFICES ASSUME "withdrawn" \notin disturbed' PROVE NoMore'
  BY DEF NoMore
<1>0. "withdrawn" \notin disturbed /\ Locals /\ Locals'
  BY DisturbedGrows, LocalsStep DEF Sound
<1>1. ASSUME NEW d \in Directions, NEW k \in Legs, Placed(Revert(d, k))'
      PROVE  /\ Placed(Leg(d, k))'
             /\ orders'[Revert(d, k)].volume <= Net[orders'[Leg(d, k)].filled]
  <2> DEFINE r == Revert(d, k)
             t == Leg(d, k)
  <2>1. r \in Slots /\ t \in Slots /\ r.role = "revert"
    BY LegSlots, RevertSlots
  <2>2. \E v \in Volumes : /\ v = orders'[r].volume
                           /\ Placed(t) /\ v <= Net[orders[t].filled]
    <3>1. CASE Placed(r)
      <4>1. Placed(t) /\ orders[r].volume <= Net[orders[t].filled]
        BY <1>0, <3>1 DEF NoMore
      <4>2. orders'[r].volume = orders[r].volume /\ orders[r].volume \in Volumes
        BY <2>1, <3>1, OldOrders, FilledTypes DEF Sound
      <4>3. QED
        BY <4>1, <4>2
    <3>2. CASE ~Placed(r)
      <4>1. /\ pc = "revert" /\ reverts # << >> /\ Len(reverts) \in Legs
            /\ r = Revert(direction, Len(reverts))
            /\ orders'[r].volume = Due(Len(reverts))
        BY <1>0, <1>1, <2>1, <3>2, NewOrders, ThisIsLeg
      <4>2. d = direction /\ k = Len(reverts)
        BY <4>1, RevertSlots, <1>0 DEF Locals
      <4>3. Due(k) \in Volumes
        BY <1>0, <4>1, <4>2, RevertsHead
      <4>4. k <= Len(reverts)
        BY <4>2 DEF Legs
      <4>5. Covered(k, Due(k))
        BY <1>0, <4>1, <4>4 DEF NoMore
      <4>6. QED
        BY <4>1, <4>2, <4>3, <4>5 DEF Covered
    <3>3. QED
      BY <3>1, <3>2
  <2> HIDE DEF r, t
  <2>3. Placed(t)' /\ orders'[r].volume <= Net[orders'[t].filled]
    BY <2>1, <2>2, CoveredStays
  <2>4. QED
    BY <2>3 DEF r, t
<1>2. ASSUME NEW k \in Legs, NEW v \in Volumes, Covered(k, v),
             direction' = direction
      PROVE  /\ Placed(Leg(direction, k))'
             /\ v <= Net[orders'[Leg(direction', k)].filled]
  <2>1. PICK d \in Directions : d = direction
    BY <1>0 DEF Locals
  <2>2. Leg(d, k) \in Slots /\ Placed(Leg(d, k)) /\ v <= Net[orders[Leg(d, k)].filled]
    BY <1>2, <2>1, LegSlots DEF Covered
  <2>3. Placed(Leg(d, k))' /\ v <= Net[orders'[Leg(d, k)].filled]
    BY <2>2, CoveredStays
  <2>4. QED
    BY <1>2, <2>1, <2>3 DEF Placed
<1>3. /\ pc' # "done" => \/ direction' = direction
                         \/ leg' = 1 /\ pc' # "revert"
      /\ pc' # "done" => \A k \in Legs : k < leg' => Covered(k, volume'[k])
      /\ pc' = "revert" =>
           \A k \in Legs : k <= Len(reverts') => Covered(k, Due(k)')
  BY CoveredStep
<1>4. ASSUME pc' # "done", NEW k \in Legs, k < leg' PROVE Covered(k, volume[k])'
  <2>1. volume'[k] \in Volumes
    BY <1>0 DEF Locals
  <2>2. direction' = direction
    BY <1>3, <1>4 DEF Legs
  <2>3. QED
    BY <1>2, <1>3, <1>4, <2>1, <2>2 DEF Covered
<1>5. ASSUME pc' = "revert", NEW k \in Legs, k <= Len(reverts')
      PROVE  Covered(k, Due(k))'
  <2>1. Due(k)' \in Volumes
    <3>1. Len(reverts') \in Nat /\ reverts' \in Seq(Legs \X Volumes)
      BY <1>0 DEF Locals
    <3>2. Len(reverts') + 1 - k \in 1 .. Len(reverts')
      BY <1>5, <3>1 DEF Legs
    <3>3. reverts'[Len(reverts') + 1 - k] \in Legs \X Volumes
      BY <3>1, <3>2
    <3>4. QED
      BY <3>3 DEF Due
  <2>2. direction' = direction /\ Covered(k, Due(k)')
    BY <1>3, <1>5
  <2>3. QED
    BY <1>2, <2>1, <2>2 DEF Covered
<1>6. QED
  BY <1>1, <1>4, <1>5 DEF NoMore

LEMMA SpecNoMore == Spec => [](Sound /\ Fresh /\ NoMore)
<1>1. Init => NoMore
  BY DEF Init, NoMore, Placed, Revert, Slots, Legs
<1>2. Sound /\ Fresh /\ NoMore /\ [Next]_vars => NoMore'
  BY NoMoreStep
<1>3. QED
  BY <1>1, <1>2, SpecFresh, PTL DEF Spec

\* TradesBackNoMore: fills between fetch and cancel, failed calls and lost answers
\* included, the strategy never trades back more of a leg than it was filled for,
\* as long as it takes no cancelled leg for filled.
THEOREM NeverTradesBackMore == Spec => []TradesBackNoMore
<1>1. NoMore => TradesBackNoMore
  BY DEF NoMore, TradesBackNoMore
<1>2. QED
  BY <1>1, SpecNoMore, PTL

(***************************************************************************)
(* One direction after the other.                                          *)
(***************************************************************************)

\* What a step can do to the legs of a direction that is not the one at hand.
LEMMA OtherLegs ==
    ASSUME Sound, Fresh, [Next]_vars, NEW d \in Directions, NEW k \in Legs,
           d # direction \/ pc = "done"
    PROVE  Placed(Leg(d, k))' <=> Placed(Leg(d, k))
<1> DEFINE t == Leg(d, k)
<1>1. t \in Slots /\ t.direction = d /\ t.role = "leg"
  BY LegSlots
<1>2. t # Revert(direction, Len(reverts))
  BY <1>1 DEF Revert
<1> HIDE DEF t
<1>3. ~Placed(t) => ~Placed(t)'
  BY <1>1, <1>2, NewOrders, ThisIsLeg DEF Sound
<1>4. Placed(t) => Placed(t)'
  BY <1>1, OldOrders
<1>5. QED
  BY <1>3, <1>4 DEF t

LEMMA FirstStaysOver ==
    ASSUME Sound, Fresh, [Next]_vars, FirstIsOver, direction = 2 \/ pc = "done"
    PROVE  FirstIsOver'
<1>1. 1 \in Directions /\ (1 # direction \/ pc = "done") /\ 3 \in Legs
  BY DEF Directions, Legs
<1>2. CASE \A k \in Legs : ~Placed(Leg(1, k))
  BY <1>1, <1>2, OtherLegs DEF FirstIsOver
<1>3. CASE Placed(Leg(1, 3)) /\ orders[Leg(1, 3)].status = "closed"
  <2>1. Leg(1, 3) \in Slots /\ ~IsOpen(Leg(1, 3))
    BY <1>1, <1>3, LegSlots DEF IsOpen
  <2>2. Placed(Leg(1, 3))' /\ orders'[Leg(1, 3)] = orders[Leg(1, 3)]
    BY <1>3, <2>1, OldOrders
  <2>3. QED
    BY <1>3, <2>2 DEF FirstIsOver
<1>4. QED
  BY <1>2, <1>3 DEF FirstIsOver

\* The second direction starts where the first has placed nothing, or has just
\* found its third leg closed.
LEMMA SecondStarts ==
    ASSUME Sound, Fresh, [Next]_vars, direction = 1, direction' = 2,
           pc # "done", pc' # "done",
           disturbed' \cap {"error", "rejected", "withdrawn"} = {}
    PROVE  FirstIsOver'
<1> USE DEF Sound
<1>1. ASSUME NEW s \in Slots, Fill(s) \/ Withdraw(s) PROVE FALSE
  BY <1>1, ExchangeEffect
<1>2. CASE Choose
  <2>1. orders' = orders /\ leg = 1 /\ pc = "choose"
    BY <1>2, ChooseEffect
  <2>2. \A k \in Legs : Ahead(Leg(1, k)) /\ Leg(1, k) \in Slots
    BY <2>1, LegSlots DEF Ahead, Legs, Directions
  <2>3. QED
    BY <2>1, <2>2 DEF Fresh, FirstIsOver, Placed
<1>3. CASE Fetch
  <2>1. orders' = orders /\ orders[This].status = "closed"
        /\ Placed(This) /\ Proceed(Net[orders[This].filled])
        /\ orders[This] \in Order
        /\ disturbed' \subseteq Disturbances
    BY <1>3, FetchEffect DEF Locals
  <2>2. Net[orders[This].filled] \in Volumes
    BY <2>1, NetTypes DEF Order
  <2>3. leg = 3
    BY <2>1, <2>2, ProceedEffect
  <2>4. This = Leg(1, 3)
    BY <2>3, ThisIsLeg
  <2>5. QED
    BY <2>1, <2>4 DEF FirstIsOver, Placed
<1>4. CASE Cancel
  <2>1. Cancelled /\ disturbed' \subseteq Disturbances /\ Net[filled] \in Volumes
    BY <1>4, NetTypes DEF Cancel, Noticed, Disturbances, Locals
  <2>2. CASE leg = 1
    <3>1. Return \/ Proceed(Net[filled])
      BY <2>1, <2>2, CancelledEffect
    <3>2. QED
      BY <2>1, <2>2, <3>1, ProceedEffect DEF Return
  <2>3. CASE leg # 1
    BY <2>1, <2>3, CancelledEffect
  <2>4. QED
    BY <2>2, <2>3
<1>5. CASE Place \/ TradeBack \/ TradedBack
  BY <1>5 DEF Place, TradeBack, TradedBack, Return, Where
<1>6. CASE Rejected \/ PlaceFails \/ FetchFails \/ CancelFails
  BY <1>6 DEF Rejected, PlaceFails, FetchFails, CancelFails, Raise
<1>7. CASE UNCHANGED vars
  BY <1>7 DEF vars
<1>8. QED
  BY <1>1, <1>2, <1>3, <1>4, <1>5, <1>6, <1>7, NextCases, LegSlots DEF Run

LEMMA InTurnStep ==
    ASSUME Sound, Fresh, InTurn, [Next]_vars
    PROVE  InTurn'
<1> SUFFICES ASSUME disturbed' \cap {"error", "rejected", "withdrawn"} = {}
             PROVE  InTurn'
  BY DEF InTurn
<1>0. /\ disturbed \cap {"error", "rejected", "withdrawn"} = {}
      /\ direction \in 1 .. 2 /\ direction' \in 1 .. 2
      /\ 2 \in Directions
  BY DisturbedGrows, LocalsStep DEF Sound, Locals, Directions
<1>1. /\ FirstIsOver \/ \A k \in Legs : ~Placed(Leg(2, k))
      /\ direction = 2 /\ pc # "done" => FirstIsOver
  BY <1>0 DEF InTurn
<1>2. CASE direction = 1 /\ pc # "done"
  <2>1. \A k \in Legs : Leg(2, k) \in Slots /\ Ahead(Leg(2, k))
    BY <1>0, <1>2, LegSlots DEF Ahead
  <2>2. \A k \in Legs : ~Placed(Leg(2, k))
    BY <1>2, <2>1 DEF Fresh
  <2>3. \A k \in Legs : ~Placed(Leg(2, k))'
    BY <1>0, <1>2, <2>2, OtherLegs
  <2>4. direction' = 2 /\ pc' # "done" => FirstIsOver'
    BY <1>2, SecondStarts
  <2>5. QED
    BY <2>3, <2>4 DEF InTurn
<1>3. CASE direction = 2 \/ pc = "done"
  <2>1. FirstIsOver => FirstIsOver'
    BY <1>3, FirstStaysOver
  <2>2. CASE pc = "done"
    <3>1. pc' = "done"
      <4>1. ~Run
        BY <2>2 DEF Run, Choose, Place, Fetch, Cancel, TradeBack, TradedBack,
           Rejected, PlaceFails, FetchFails, CancelFails, Placing
      <4>2. QED
        BY <2>2, <4>1, NextCases DEF Fill, Withdraw, vars
    <3>2. (\A k \in Legs : ~Placed(Leg(2, k))) => \A k \in Legs : ~Placed(Leg(2, k))'
      BY <1>0, <2>2, OtherLegs
    <3>3. QED
      BY <1>1, <2>1, <3>1, <3>2 DEF InTurn
  <2>3. CASE direction = 2 /\ pc # "done"
    BY <1>1, <2>1, <2>3 DEF InTurn
  <2>4. QED
    BY <1>3, <2>2, <2>3
<1>4. QED
  BY <1>0, <1>2, <1>3

\* SecondStakeAfterFirst: no volume and no partial fill makes the strategy stake
\* base_volume on the opposite direction while the first is half way or has been
\* traded back; only a call that raised, or a cancelled leg taken for filled, does.
THEOREM SecondComesAfterFirst == Spec => []SecondStakeAfterFirst
<1>1. Init => InTurn
  BY DEF Init, InTurn, FirstIsOver, Placed, Leg, Slots, Directions, Legs
<1>2. Sound /\ Fresh /\ InTurn /\ [Next]_vars => InTurn'
  BY InTurnStep
<1>3. InTurn => SecondStakeAfterFirst
  BY DEF InTurn, FirstIsOver, SecondStakeAfterFirst
<1>4. QED
  BY <1>1, <1>2, <1>3, SpecFresh, PTL DEF Spec

(***************************************************************************)
(* A run that nothing disturbs.                                            *)
(***************************************************************************)

\* Away from the leg that is being looked at, no leg changes.
LEMMA CalmLegs ==
    ASSUME Sound, Fresh, OnlyThisIsOpen, [Next]_vars, disturbed = {},
           NEW d \in Directions, NEW k \in Legs,
           d # direction \/ k # leg \/ pc \notin {"fetch", "cancel"},
           Placed(Leg(d, k))
    PROVE  orders'[Leg(d, k)] = orders[Leg(d, k)]
<1> DEFINE t == Leg(d, k)
<1>1. t \in Slots /\ t.role = "leg" /\ t.direction = d /\ t.leg = k
  BY LegSlots
<1>2. t # This \/ pc \notin {"fetch", "cancel"}
  BY <1>1, ThisIsLeg DEF Sound
<1>3. ~IsOpen(t)
  BY <1>1, <1>2 DEF OnlyThisIsOpen
<1> HIDE DEF t
<1>4. QED
  BY <1>1, <1>3, OldOrders DEF t

\* A direction that is over stays as it is.
LEMMA OverStays ==
    ASSUME Sound, Fresh, OnlyThisIsOpen, [Next]_vars, disturbed = {},
           NEW d \in Directions, Over(d), Square(d)
    PROVE  Square(d)'
<1>0. d # direction \/ pc = "done"
  BY DEF Over, Directions
<1>1. \A k \in Legs : /\ Placed(Leg(d, k))' <=> Placed(Leg(d, k))
                      /\ Placed(Leg(d, k)) => orders'[Leg(d, k)] = orders[Leg(d, k)]
  BY <1>0, OtherLegs, CalmLegs
<1>2. ASSUME NEW k \in Legs
      PROVE  /\ Placed(Revert(d, k))' <=> Placed(Revert(d, k))
             /\ Placed(Revert(d, k)) =>
                  orders'[Revert(d, k)].volume = orders[Revert(d, k)].volume
  <2> DEFINE r == Revert(d, k)
  <2>1. r \in Slots /\ r.role = "revert" /\ r.direction = d
    BY RevertSlots
  <2>2. direction \in Directions
    BY DEF Sound, Locals
  <2>3. r # This
    BY <2>1, ThisIsLeg DEF Sound
  <2>4. pc = "revert" /\ Len(reverts) \in Legs => r # Revert(direction, Len(reverts))
    BY <1>0, <2>1, <2>2, RevertSlots
  <2> HIDE DEF r
  <2>5. ~Placed(r) => ~Placed(r)'
    BY <2>1, <2>3, <2>4, NewOrders
  <2>6. Placed(r) => Placed(r)' /\ orders'[r].volume = orders[r].volume
    BY <2>1, OldOrders
  <2>7. QED
    BY <2>5, <2>6 DEF r
<1>3. ASSUME NEW k \in Legs, Placed(Leg(d, k)), TradedBackAsFilled(d, k)
      PROVE  TradedBackAsFilled(d, k)'
  BY <1>1, <1>2, <1>3 DEF TradedBackAsFilled
<1>4. CASE WentRound(d)
  <2>1. 3 \in Legs /\ Bought(d) \in Legs /\ Bought(d) + 1 \in Legs
    BY DEF Legs, Bought
  <2>2. /\ Placed(Leg(d, 3)) /\ orders[Leg(d, 3)].status = "closed"
        /\ Placed(Leg(d, Bought(d))) /\ Placed(Leg(d, Bought(d) + 1))
        /\ orders[Leg(d, Bought(d) + 1)].volume = Net[orders[Leg(d, Bought(d))].filled]
    BY <1>4 DEF WentRound, Bought
  <2>3. /\ Placed(Leg(d, 3))' /\ orders'[Leg(d, 3)] = orders[Leg(d, 3)]
        /\ Placed(Leg(d, Bought(d)))'
        /\ orders'[Leg(d, Bought(d))] = orders[Leg(d, Bought(d))]
        /\ Placed(Leg(d, Bought(d) + 1))'
        /\ orders'[Leg(d, Bought(d) + 1)] = orders[Leg(d, Bought(d) + 1)]
    BY <1>1, <2>1, <2>2
  <2>4. WentRound(d)'
    BY <2>2, <2>3 DEF WentRound, Bought
  <2>5. QED
    BY <2>4 DEF Square
<1>5. CASE \A k \in Legs : Placed(Leg(d, k)) => TradedBackAsFilled(d, k)
  BY <1>1, <1>3, <1>5 DEF Square
<1>6. QED
  BY <1>4, <1>5 DEF Square

\* What is left of the steps when nothing is disturbed.
LEMMA CalmSteps ==
    ASSUME Sound, [Next]_vars, disturbed' = {}
    PROVE  /\ disturbed = {}
           /\ \/ Choose \/ Place \/ Fetch \/ Cancel \/ TradeBack \/ TradedBack
              \/ \E d \in Directions, k \in Legs :
                   Fill(Leg(d, k)) \/ Withdraw(Leg(d, k))
              \/ UNCHANGED vars
<1>1. disturbed = {}
  BY DisturbedGrows
<1>2. ~(Rejected \/ PlaceFails \/ FetchFails \/ CancelFails)
  BY DEF Rejected, PlaceFails, FetchFails, CancelFails, Raise
<1>3. QED
  BY <1>1, <1>2, NextCases DEF Run

\* What was fetched is what the order is, and is a whole coin or nothing.
LEMMA CalmCancel ==
    ASSUME Sound, Cancel, disturbed' = {}
    PROVE  /\ pc = "cancel" /\ Cancelled /\ disturbed = {} /\ Placed(This)
           /\ filled = orders[This].filled /\ filled \in Volumes
           /\ Net[filled] \in Volumes
           /\ ~Counts => filled = 0
           /\ Counts => filled > 0
           /\ orders'[This] # NoOrder
           /\ orders'[This].filled = orders[This].filled
           /\ orders'[This].volume = orders[This].volume
           /\ \A t \in Slots : t # This => orders'[t] = orders[t]
<1> USE DEF Sound
<1>1. /\ pc = "cancel" /\ Cancelled /\ disturbed = {} /\ Placed(This)
      /\ Noticed = {} /\ filled \in Volumes
  BY DEF Cancel, Locals
<1>2. filled = orders[This].filled /\ ~(filled > 0 /\ ~Counts)
  <2>1. "raced" \notin Noticed /\ "dust" \notin Noticed
    BY <1>1
  <2>2. QED
    BY <2>1 DEF Noticed
<1>3. Net[filled] \in Volumes /\ Net[filled] <= filled
  BY <1>1, NetTypes
<1>4. Counts => filled > 0
  BY <1>1, <1>3, SanjiaoAssumption DEF Counts, Volumes
<1>5. /\ orders'[This] # NoOrder
      /\ orders'[This].filled = orders[This].filled
      /\ orders'[This].volume = orders[This].volume
      /\ \A t \in Slots : t # This => orders'[t] = orders[t]
  <2>1. CASE IsOpen(This)
    <3>1. Release(This)
      BY <2>1 DEF Cancel
    <3>2. /\ orders'[This] # NoOrder
          /\ orders'[This].volume = orders[This].volume
          /\ orders'[This].filled = orders[This].filled
          /\ \A t \in Slots : t # This => orders'[t] = orders[t]
      BY <2>1, <3>1, ReleaseEffect, ThisIsLeg
    <3>3. QED
      BY <3>2
  <2>2. CASE ~IsOpen(This)
    BY <1>1, <2>2 DEF Cancel, Placed
  <2>3. QED
    BY <2>1, <2>2
<1>6. QED
  BY <1>1, <1>2, <1>3, <1>4, <1>5 DEF Volumes

\* The same as Exact, of the orders after the step.
ExactAfter(k, v) ==
    /\ orders'[Leg(direction, k)] # NoOrder
    /\ orders'[Leg(direction, k)].filled > 0
    /\ v = Net[orders'[Leg(direction, k)].filled]

LEMMA ExactStays ==
    ASSUME NEW k, NEW v, Exact(k, v),
           orders'[Leg(direction, k)] # NoOrder,
           orders'[Leg(direction, k)].filled = orders[Leg(direction, k)].filled
    PROVE  ExactAfter(k, v)
BY DEF Exact, ExactAfter

LEMMA CalmExact ==
    ASSUME Sound, Fresh, OnlyThisIsOpen, [Next]_vars, disturbed = {},
           NEW k \in Legs, NEW v, Exact(k, v),
           k # leg \/ pc \notin {"fetch", "cancel"}
    PROVE  ExactAfter(k, v)
<1>1. PICK d \in Directions : d = direction
  BY DEF Sound, Locals
<1>2. Placed(Leg(d, k)) /\ Leg(d, k) \in Slots
  BY <1>1, LegSlots DEF Exact
<1>3. orders'[Leg(d, k)] = orders[Leg(d, k)]
  BY <1>1, <1>2, CalmLegs
<1>4. QED
  BY <1>1, <1>2, <1>3, ExactStays DEF Placed

\* At the start and at the end of a direction there is nothing half way.
LEMMA FreshStart ==
    ASSUME Sound', leg' = 1, pc' # "revert"
    PROVE  Halfway'
<1>1. \A k \in Legs : ~(k < leg')
  BY DEF Legs
<1>2. direction' \in 1 .. 2
  BY DEF Sound, Locals, Directions
<1>3. HandedOn'
  BY <1>2 DEF HandedOn, Bought
<1>4. QED
  BY <1>1, <1>3 DEF Halfway

LEMMA ProceedHalfway ==
    ASSUME Locals, Fresh, disturbed' \subseteq Disturbances, NEW v \in Volumes,
           Proceed(v), leg # 3, pc \in {"fetch", "cancel"}, HandedOn,
           ExactAfter(leg, v),
           \A k \in Legs : k < leg => ExactAfter(k, volume[k]),
           \A k \in Legs : k > leg => orders'[Leg(direction, k)] = NoOrder,
           \A k \in Legs : Placed(Leg(direction, k)) =>
             /\ orders'[Leg(direction, k)] # NoOrder
             /\ orders'[Leg(direction, k)].volume = orders[Leg(direction, k)].volume
    PROVE  Halfway'
<1>0. /\ leg \in 1 .. 2 /\ direction \in 1 .. 2
      /\ \A k \in Legs : k \in 1 .. 3
  BY DEF Locals, Legs, Directions
<1>1. /\ pc' \in {"place", "revert"} /\ direction' = direction
      /\ volume'[leg] = v
      /\ \A k \in Legs : k < leg => volume'[k] = volume[k]
      /\ (direction = 1 /\ leg = 1) \/ volume'[leg + 1] = v
      /\ pc' = "place" => leg' = leg + 1
      /\ pc' = "revert" => /\ leg' = leg /\ Len(reverts') = leg
                           /\ \A k \in 1 .. leg : Due(k)' = volume'[k]
  BY ProceedEffect
<1>2. \A k \in Legs : k <= leg => ExactAfter(k, volume'[k])
  <2>1. \A k \in Legs : k <= leg => k = leg \/ k < leg
    BY <1>0
  <2>2. QED
    BY <1>1, <2>1
<1>3. \A k \in Legs : k <= leg => Exact(k, volume[k])'
  BY <1>1, <1>2 DEF Exact, ExactAfter, Placed
<1>4. CASE pc' = "place"
  <2>1. \A k \in Legs : k < leg' => k <= leg
    BY <1>0, <1>1, <1>4
  <2>2. leg' = leg + 1 /\ pc' = "place"
    BY <1>1, <1>4
  <2>3. HandedOn'
    <3>1. CASE direction = 1
      <4>1. Bought(direction) = 2 /\ Bought(direction)' = 2
        BY <1>1, <3>1 DEF Bought
      <4>2. leg' = 3 => volume'[3] = volume'[2]
        BY <1>0, <1>1, <2>2
      <4>3. ~(leg' > 3)
        BY <1>0, <2>2
      <4>4. QED
        BY <2>2, <4>1, <4>2, <4>3 DEF HandedOn
    <3>2. CASE direction = 2
      <4>1. Bought(direction) = 1 /\ Bought(direction)' = 1
        BY <1>1, <3>2 DEF Bought
      <4>2. leg' = 2 => volume'[2] = volume'[1]
        BY <1>0, <1>1, <2>2, <3>2
      <4>3. ASSUME leg' > 2
            PROVE  /\ orders'[Leg(direction, 2)] # NoOrder
                   /\ orders'[Leg(direction, 2)].volume = volume'[1]
        <5>1. leg = 2 /\ 1 \in Legs /\ 2 \in Legs /\ 1 < 2
          BY <1>0, <2>2, <4>3 DEF Legs
        <5>2. /\ Placed(Leg(direction, 2))
              /\ orders[Leg(direction, 2)].volume = volume[1]
          BY <4>1, <5>1 DEF HandedOn
        <5>3. volume'[1] = volume[1]
          BY <1>1, <5>1
        <5>4. QED
          BY <5>1, <5>2, <5>3
      <4>4. QED
        BY <1>1, <2>2, <4>1, <4>2, <4>3 DEF HandedOn, Placed
    <3>3. QED
      BY <1>0, <3>1, <3>2
  <2>4. QED
    BY <1>3, <2>1, <2>2, <2>3 DEF Halfway
<1>5. CASE pc' = "revert"
  <2>1. leg' = leg /\ Len(reverts') = leg
    BY <1>1, <1>5
  <2>2. HandedOn'
    BY <1>5 DEF HandedOn
  <2>3. \A k \in Legs : k < leg' => Exact(k, volume[k])'
    BY <1>0, <1>3, <2>1
  <2>4. ASSUME NEW k \in Legs, k <= Len(reverts') PROVE Exact(k, Due(k))'
    <3>1. k \in 1 .. leg /\ k <= leg
      BY <1>0, <2>1, <2>4
    <3>2. Due(k)' = volume'[k] /\ Exact(k, volume[k])'
      BY <1>1, <1>3, <1>5, <3>1
    <3>3. QED
      BY <3>2 DEF Exact
  <2>5. ASSUME NEW k \in Legs, k > Len(reverts')
        PROVE  ~Placed(Leg(direction, k))'
    BY <1>1, <2>1, <2>5 DEF Placed
  <2>6. QED
    BY <1>5, <2>2, <2>3, <2>4, <2>5 DEF Halfway
<1>6. QED
  BY <1>1, <1>4, <1>5

\* What the leg at hand leads to.
LEMMA HalfwayFetch ==
    ASSUME Sound, Fresh, OnlyThisIsOpen, Halfway, [Next]_vars, disturbed = {},
           disturbed' = {}, Fetch
    PROVE  Halfway'
<1> USE DEF Sound
<1>0. /\ orders' = orders /\ pc = "fetch" /\ Placed(This) /\ orders[This] \in Order
      /\ Sound' /\ disturbed' \subseteq Disturbances
      /\ This = Leg(direction, leg) /\ This \in Slots
      /\ direction \in 1 .. 2 /\ leg \in 1 .. 3 /\ leg \in Legs
      /\ \A k \in Legs : k \in 1 .. 3
  BY FetchEffect, BooksStep, LocalsStep, ThisIsLeg DEF Locals, Directions, Legs
<1>1. CASE pc' = "cancel" /\ UNCHANGED <<direction, leg, volume, reverts>>
  <2>1. \A k \in Legs : k < leg => Exact(k, volume[k])'
    BY <1>0, <1>1 DEF Halfway, Exact, Placed
  <2>2. HandedOn'
    BY <1>0, <1>1 DEF Halfway, HandedOn, Bought, Placed
  <2>3. QED
    BY <1>1, <2>1, <2>2 DEF Halfway
<1>2. CASE /\ orders[This].status = "closed"
           /\ Proceed(Net[orders[This].filled])
  <2>1. Net[orders[This].filled] \in Volumes /\ orders[This].filled > 0
    BY <1>0, <1>2, NetTypes DEF Books, Order
  <2>2. CASE leg = 3
    <3>1. leg' = 1 /\ pc' # "revert"
      BY <1>2, <2>1, <2>2, ProceedEffect, <1>0 DEF NextDirection
    <3>2. QED
      BY <1>0, <3>1, FreshStart
  <2>3. CASE leg # 3
    <3>1. ExactAfter(leg, Net[orders[This].filled])
      BY <1>0, <2>1 DEF ExactAfter, Placed
    <3>2. \A k \in Legs : k < leg => ExactAfter(k, volume[k])
      BY <1>0 DEF Halfway, Exact, ExactAfter, Placed
    <3>3. \A k \in Legs : k > leg =>
             Leg(direction, k) \in Slots /\ Ahead(Leg(direction, k))
      BY <1>0, LegSlots DEF Ahead, Directions
    <3>4. \A k \in Legs : k > leg => orders'[Leg(direction, k)] = NoOrder
      BY <1>0, <3>3 DEF Fresh, Placed
    <3>5. \A k \in Legs : Placed(Leg(direction, k)) =>
             /\ orders'[Leg(direction, k)] # NoOrder
             /\ orders'[Leg(direction, k)].volume = orders[Leg(direction, k)].volume
      BY <1>0 DEF Placed
    <3>6. HandedOn /\ pc \in {"fetch", "cancel"}
      BY <1>0 DEF Halfway
    <3>7. QED
      BY <1>0, <1>2, <2>1, <2>3, <3>1, <3>2, <3>4, <3>5, <3>6, ProceedHalfway
  <2>4. QED
    BY <2>2, <2>3
<1>3. QED
  BY <1>1, <1>2, FetchEffect

LEMMA HalfwayCancel ==
    ASSUME Sound, Fresh, OnlyThisIsOpen, Halfway, [Next]_vars, disturbed' = {},
           Cancel
    PROVE  Halfway'
<1> USE DEF Sound
<1>0. /\ This = Leg(direction, leg) /\ This \in Slots /\ Sound'
      /\ disturbed' \subseteq Disturbances
      /\ direction \in 1 .. 2 /\ leg \in 1 .. 3 /\ leg \in Legs
      /\ \A k \in Legs : k \in 1 .. 3
  BY BooksStep, LocalsStep, ThisIsLeg DEF Locals, Directions, Legs
<1>1. /\ pc = "cancel" /\ Cancelled /\ disturbed = {} /\ Placed(This)
      /\ filled = orders[This].filled /\ filled \in Volumes
      /\ Net[filled] \in Volumes
      /\ ~Counts => filled = 0
      /\ Counts => filled > 0
      /\ orders'[This] # NoOrder
      /\ orders'[This].filled = orders[This].filled
      /\ orders'[This].volume = orders[This].volume
      /\ \A t \in Slots : t # This => orders'[t] = orders[t]
  BY CalmCancel
<1>2. \A k \in Legs : /\ Leg(direction, k) \in Slots
                      /\ Revert(direction, k) \in Slots
                      /\ Revert(direction, k) # This
                      /\ k # leg => Leg(direction, k) # This
  <2>1. direction \in Directions /\ This.role = "leg" /\ This.leg = leg
    BY ThisIsLeg DEF Locals
  <2>2. QED
    BY <2>1, LegSlots, RevertSlots
<1>3. \A k \in Legs : k < leg => ExactAfter(k, volume[k])
  BY <1>0, <1>1, <1>2 DEF Halfway, Exact, ExactAfter, Placed
<1>4. Counts => ExactAfter(leg, Net[filled])
  BY <1>0, <1>1 DEF ExactAfter
<1>5. \A k \in Legs : k > leg => orders'[Leg(direction, k)] = NoOrder
  <2>1. \A k \in Legs : k > leg => Ahead(Leg(direction, k))
    BY <1>0, LegSlots DEF Ahead, Directions
  <2>2. QED
    BY <1>0, <1>1, <1>2, <2>1 DEF Fresh, Placed
<1>6. CASE leg = 1
  <2>1. \/ ~Counts /\ Return
        \/ Counts /\ Proceed(Net[filled])
    BY <1>0, <1>1, <1>6, CancelledEffect
  <2>2. CASE ~Counts /\ Return
    BY <1>0, <2>2, FreshStart DEF Return
  <2>3. CASE Counts /\ Proceed(Net[filled])
    <3>1. \A k \in Legs : Placed(Leg(direction, k)) =>
             /\ orders'[Leg(direction, k)] # NoOrder
             /\ orders'[Leg(direction, k)].volume = orders[Leg(direction, k)].volume
      BY <1>0, <1>1, <1>2 DEF Placed
    <3>2. HandedOn /\ pc \in {"fetch", "cancel"} /\ leg # 3
      BY <1>1, <1>6 DEF Halfway
    <3>3. QED
      BY <1>0, <1>1, <1>3, <1>4, <1>5, <2>3, <3>1, <3>2, ProceedHalfway
  <2>4. QED
    BY <2>1, <2>2, <2>3
<1>7. CASE leg # 1
  <2>1. /\ pc' = "revert" /\ leg' = leg /\ direction' = direction
        /\ volume' = volume
        /\ Len(reverts') = (IF Counts THEN leg ELSE leg - 1)
        /\ \A k \in Legs : k < leg => Due(k)' = volume[k]
        /\ Counts => Due(leg)' = Net[filled]
    BY <1>0, <1>1, <1>7, CancelledEffect
  <2>2. HandedOn'
    BY <2>1 DEF HandedOn
  <2>3. \A k \in Legs : k < leg => Exact(k, volume[k])'
    BY <1>3, <2>1 DEF Exact, ExactAfter, Placed
  <2>4. ASSUME NEW k \in Legs, k <= Len(reverts') PROVE Exact(k, Due(k))'
    <3>1. k < leg \/ (k = leg /\ Counts)
      BY <1>0, <2>1, <2>4
    <3>2. CASE k < leg
      BY <2>1, <2>3, <3>2 DEF Exact
    <3>3. CASE k = leg /\ Counts
      BY <1>4, <2>1, <3>3 DEF Exact, ExactAfter, Placed
    <3>4. QED
      BY <3>1, <3>2, <3>3
  <2>5. ASSUME NEW k \in Legs, k > Len(reverts'), Placed(Leg(direction, k))'
        PROVE  TradedBackAsFilled(direction, k)'
    <3>1. k = leg /\ ~Counts
      <4>1. ~(k > leg)
        BY <1>5, <2>1, <2>5 DEF Placed
      <4>2. ~Counts
        BY <1>0, <2>1, <2>5, <4>1
      <4>3. k > leg - 1 /\ k \in 1 .. 3
        BY <1>0, <2>1, <2>5, <4>2
      <4>4. QED
        BY <1>0, <4>1, <4>2, <4>3
    <3>2. orders'[Leg(direction, k)].filled = 0
      BY <1>0, <1>1, <3>1
    <3>3. Ahead(Revert(direction, k))
      BY <1>1, RevertSlots DEF Ahead, Locals
    <3>4. orders'[Revert(direction, k)] = NoOrder
      BY <1>1, <1>2, <3>3 DEF Fresh, Placed
    <3>5. QED
      BY <2>1, <3>2, <3>4 DEF TradedBackAsFilled, Placed
  <2>6. QED
    BY <2>1, <2>2, <2>3, <2>4, <2>5 DEF Halfway
<1>8. QED
  BY <1>6, <1>7

LEMMA HalfwayTradeBack ==
    ASSUME Sound, Fresh, OnlyThisIsOpen, Halfway, [Next]_vars, disturbed = {},
           TradeBack
    PROVE  Halfway'
<1> USE DEF Sound
<1> DEFINE n == Len(reverts)
<1>1. /\ UNCHANGED <<direction, leg, pc, volume>> /\ pc = "revert"
      /\ reverts # << >> /\ Accept(Revert(direction, n), Due(n))
      /\ n \in Legs /\ Due(n) \in Volumes
  BY RevertsHead DEF TradeBack, Where, Accept
<1>2. /\ n \in 1 .. 3 /\ Len(reverts') = n - 1
      /\ \A k \in Legs : k <= Len(reverts') => Due(k)' = Due(k)
      /\ leg \in 1 .. 3 /\ \A k \in Legs : k \in 1 .. 3
  BY DueOfTail DEF Locals, Legs
<1> HIDE DEF n
<1>3. PICK d \in Directions : d = direction
  BY DEF Locals
<1>4. /\ orders'[Revert(d, n)] # NoOrder /\ orders'[Revert(d, n)].volume = Due(n)
      /\ \A t \in Slots : t # Revert(d, n) => orders'[t] = orders[t]
  BY <1>1, <1>3, AcceptEffect, RevertSlots
<1>5. \A k \in Legs : orders'[Leg(d, k)] = orders[Leg(d, k)]
  <2>1. \A k \in Legs : Leg(d, k) \in Slots /\ Leg(d, k) # Revert(d, n)
    BY <1>1, LegSlots, RevertSlots
  <2>2. QED
    BY <1>4, <2>1
<1>6. \A k \in Legs : k # n => orders'[Revert(d, k)] = orders[Revert(d, k)]
  <2>1. \A k \in Legs : k # n => Revert(d, k) \in Slots /\ Revert(d, k) # Revert(d, n)
    BY <1>1, RevertSlots
  <2>2. QED
    BY <1>4, <2>1
<1>7. \A k \in Legs : k < leg => Exact(k, volume[k])'
  BY <1>1, <1>3, <1>5 DEF Halfway, Exact, Placed
<1>8. ASSUME NEW k \in Legs, k <= Len(reverts') PROVE Exact(k, Due(k))'
  <2>1. k <= n
    BY <1>2, <1>8
  <2>2. Exact(k, Due(k)) /\ Due(k)' = Due(k)
    BY <1>1, <1>2, <1>8, <2>1 DEF Halfway, n
  <2>3. QED
    BY <1>1, <1>3, <1>5, <2>2 DEF Exact, Placed
<1>9. ASSUME NEW k \in Legs, k > Len(reverts'), Placed(Leg(direction, k))'
      PROVE  TradedBackAsFilled(direction, k)'
  <2>1. Placed(Leg(d, k)) /\ orders'[Leg(d, k)] = orders[Leg(d, k)]
    BY <1>1, <1>3, <1>5, <1>9 DEF Placed
  <2>2. CASE k = n
    <3>1. Exact(n, Due(n))
      <4>1. n <= Len(reverts)
        BY <1>2 DEF n
      <4>2. QED
        BY <1>1, <4>1 DEF Halfway
    <3>2. QED
      BY <1>1, <1>3, <1>4, <2>1, <2>2, <3>1 DEF Exact, TradedBackAsFilled, Placed
  <2>3. CASE k # n
    <3>1. k > n
      BY <1>2, <1>9, <2>3
    <3>2. TradedBackAsFilled(d, k)
      BY <1>1, <1>3, <2>1, <3>1 DEF Halfway, n
    <3>3. QED
      BY <1>1, <1>3, <1>6, <2>1, <2>3, <3>2 DEF TradedBackAsFilled, Placed
  <2>4. QED
    BY <2>2, <2>3
<1>10. HandedOn'
  BY <1>1 DEF HandedOn
<1>11. QED
  BY <1>1, <1>7, <1>8, <1>9, <1>10 DEF Halfway

LEMMA HalfwayStep ==
    ASSUME Sound, Fresh, OnlyThisIsOpen, Halfway, [Next]_vars, disturbed' = {}
    PROVE  Halfway'
<1> USE DEF Sound
<1>0. disturbed = {} /\ Sound' /\ direction \in Directions
  BY CalmSteps, BooksStep, LocalsStep DEF Locals
<1>1. CASE Fetch
  BY <1>0, <1>1, HalfwayFetch
<1>2. CASE Cancel
  BY <1>2, HalfwayCancel
<1>3. CASE TradeBack
  BY <1>0, <1>3, HalfwayTradeBack
<1>4. CASE TradedBack
  BY <1>0, <1>4, FreshStart DEF TradedBack, Return
<1>5. CASE Choose
  <2>1. leg' = 1 /\ pc' # "revert"
    BY <1>5, ChooseEffect DEF NextDirection, Return
  <2>2. QED
    BY <1>0, <2>1, FreshStart
<1>6. CASE Place
  <2>1. /\ UNCHANGED <<direction, leg, volume, reverts>>
        /\ pc = "place" /\ pc' = "fetch" /\ volume[leg] \in Volumes
        /\ Accept(This, volume[leg]) /\ This = Leg(direction, leg) /\ This \in Slots
    BY <1>6, ThisIsLeg DEF Place, Where, Book, Locals
  <2>2. orders'[This] # NoOrder /\ orders'[This].volume = volume[leg]
    BY <2>1, AcceptEffect
  <2>3. \A k \in Legs : k < leg => Exact(k, volume[k])'
    <3>1. ASSUME NEW k \in Legs, k < leg PROVE Exact(k, volume[k])'
      <4>1. Exact(k, volume[k])
        BY <2>1, <3>1 DEF Halfway
      <4>2. ExactAfter(k, volume[k])
        BY <1>0, <2>1, <4>1, CalmExact
      <4>3. QED
        BY <2>1, <4>2 DEF Exact, ExactAfter, Placed
    <3>2. QED
      BY <3>1
  <2>4. HandedOn'
    <3>1. PICK b \in 1 .. 2 : b = Bought(direction)
      BY DEF Bought
    <3>2. leg = b + 1 => volume[b + 1] = volume[b]
      BY <2>1, <3>1 DEF Halfway, HandedOn
    <3>3. ASSUME leg > b + 1
          PROVE  /\ orders'[Leg(direction, b + 1)] # NoOrder
                 /\ orders'[Leg(direction, b + 1)].volume = volume[b]
      <4>1. /\ Placed(Leg(direction, b + 1))
            /\ orders[Leg(direction, b + 1)].volume = volume[b]
        BY <2>1, <3>1, <3>3 DEF Halfway, HandedOn
      <4>2. PICK t \in Slots : t = Leg(direction, b + 1)
        BY <1>0, LegSlots, <3>1 DEF Legs
      <4>3. Placed(t)' /\ orders'[t].volume = orders[t].volume
        BY <4>1, <4>2, OldOrders
      <4>4. QED
        BY <4>1, <4>2, <4>3 DEF Placed
    <3>4. leg = b + 1 => /\ orders'[Leg(direction, b + 1)] # NoOrder
                         /\ orders'[Leg(direction, b + 1)].volume = volume[b]
      BY <2>1, <2>2, <3>2
    <3>5. Bought(direction)' = b
      BY <2>1, <3>1 DEF Bought
    <3>6. QED
      BY <2>1, <3>3, <3>4, <3>5 DEF HandedOn, Placed
  <2>5. QED
    BY <2>1, <2>3, <2>4 DEF Halfway
<1>7. ASSUME NEW s \in Slots, s.role = "leg", Fill(s) \/ Withdraw(s) PROVE Halfway'
  <2>1. /\ UNCHANGED <<direction, leg, pc, volume, filled, reverts, disturbed>>
        /\ IsOpen(s)
        /\ \A t \in Slots : Placed(t)' <=> Placed(t)
        /\ \A t \in Slots : Placed(t) => orders'[t].volume = orders[t].volume
        /\ \A t \in Slots : t # s => orders'[t] = orders[t]
    BY <1>7, ExchangeEffect
  <2>2. s = This /\ pc \in {"fetch", "cancel"}
    BY <1>0, <1>7, <2>1 DEF OnlyThisIsOpen
  <2>3. \A k \in Legs : k < leg => Exact(k, volume[k])'
    <3>1. ASSUME NEW k \in Legs, k < leg PROVE Exact(k, volume[k])'
      <4>1. Exact(k, volume[k])
        BY <2>2, <3>1 DEF Halfway
      <4>2. k # leg
        BY <3>1 DEF Locals, Legs
      <4>3. ExactAfter(k, volume[k])
        BY <1>0, <4>1, <4>2, CalmExact
      <4>4. QED
        BY <2>1, <4>3 DEF Exact, ExactAfter, Placed
    <3>2. QED
      BY <3>1
  <2>4. HandedOn'
    <3>1. PICK b \in 1 .. 2 : b = Bought(direction)
      BY DEF Bought
    <3>2. PICK t \in Slots : t = Leg(direction, b + 1)
      BY <1>0, LegSlots, <3>1 DEF Legs
    <3>3. leg = b + 1 \/ leg > b + 1 =>
            Placed(t)' /\ orders'[t].volume = volume[b]
      BY <2>1, <2>2, <3>1, <3>2 DEF Halfway, HandedOn
    <3>4. Bought(direction)' = b /\ t = Leg(direction', b + 1)
      BY <2>1, <3>1, <3>2 DEF Bought
    <3>5. QED
      BY <2>1, <2>2, <3>3, <3>4 DEF HandedOn, Placed
  <2>5. QED
    BY <2>1, <2>2, <2>3, <2>4 DEF Halfway
<1>8. CASE UNCHANGED vars
  BY <1>8 DEF vars, Halfway, Exact, HandedOn, Due, TradedBackAsFilled, Placed, Bought
<1>9. \A d \in Directions, k \in Legs : Leg(d, k) \in Slots /\ Leg(d, k).role = "leg"
  BY LegSlots
<1>10. QED
  BY <1>1, <1>2, <1>3, <1>4, <1>5, <1>6, <1>7, <1>8, <1>9, CalmSteps

\* A direction that ends does so in order.
LEMMA NewlyOver ==
    ASSUME Sound, Fresh, OnlyThisIsOpen, Halfway, [Next]_vars, disturbed' = {},
           NEW d \in Directions, ~Over(d), Over(d)'
    PROVE  Square(d)'
<1> USE DEF Sound
<1>0. /\ disturbed = {} /\ pc # "done" /\ ~(d < direction)
      /\ d \in 1 .. 2 /\ direction \in 1 .. 2 /\ leg \in 1 .. 3 /\ leg \in Legs
      /\ \A k \in Legs : k \in 1 .. 3
  BY CalmSteps DEF Over, Locals, Directions, Legs
<1>1. CASE d # direction
  <2>1. \A k \in Legs : Leg(d, k) \in Slots /\ Ahead(Leg(d, k))
    BY <1>0, <1>1, LegSlots DEF Ahead
  <2>2. \A k \in Legs : ~Placed(Leg(d, k))
    BY <1>0, <2>1 DEF Fresh
  <2>3. \A k \in Legs : ~Placed(Leg(d, k))'
    BY <1>1, <2>2, OtherLegs
  <2>4. QED
    BY <2>3 DEF Square
<1>2. CASE d = direction
  <2>1. pc' = "done" \/ direction # direction'
    BY <1>2 DEF Over, Locals, Directions
  <2>2. \A k \in Legs : k > leg \/ (k = leg /\ pc = "choose") =>
             Leg(d, k) \in Slots /\ ~Placed(Leg(d, k))
    <3>1. \A k \in Legs : k > leg \/ (k = leg /\ pc = "choose") =>
             Leg(d, k) \in Slots /\ Ahead(Leg(d, k))
      BY <1>2, LegSlots DEF Ahead
    <3>2. QED
      BY <1>0, <3>1 DEF Fresh
  <2>3. CASE Choose
    <3>1. orders' = orders /\ leg = 1 /\ pc = "choose"
      BY <2>3, ChooseEffect
    <3>2. \A k \in Legs : ~Placed(Leg(d, k))'
      BY <1>0, <2>2, <3>1 DEF Placed
    <3>3. QED
      BY <3>2 DEF Square
  <2>4. CASE Fetch
    <3>1. /\ orders' = orders /\ pc = "fetch" /\ Placed(This)
          /\ orders[This] \in Order /\ disturbed' \subseteq Disturbances
          /\ orders[This].status = "closed"
          /\ Proceed(Net[orders[This].filled])
      BY <2>1, <2>4, FetchEffect
    <3>2. leg = 3
      <4>1. Net[orders[This].filled] \in Volumes
        BY <3>1, NetTypes DEF Order
      <4>2. QED
        BY <2>1, <3>1, <4>1, ProceedEffect
    <3>3. This = Leg(d, 3)
      BY <1>2, <3>2, ThisIsLeg
    <3>4. PICK b \in 1 .. 2 : b = Bought(direction)
      BY DEF Bought
    <3>5. b \in Legs /\ b < leg /\ (leg = b + 1 \/ leg > b + 1)
      BY <3>2, <3>4 DEF Legs
    <3>6. Exact(b, volume[b])
      BY <3>1, <3>5 DEF Halfway
    <3>7. /\ Placed(Leg(d, b + 1)) /\ orders[Leg(d, b + 1)].volume = volume[b]
      BY <1>2, <3>1, <3>4, <3>5 DEF Halfway, HandedOn
    <3>8. /\ Placed(Leg(d, b)) /\ volume[b] = Net[orders[Leg(d, b)].filled]
      BY <1>2, <3>6 DEF Exact
    <3>9. WentRound(d)'
      BY <1>2, <3>1, <3>3, <3>4, <3>7, <3>8 DEF WentRound, Placed, Bought
    <3>10. QED
      BY <3>9 DEF Square
  <2>5. CASE Cancel
    <3>1. /\ pc = "cancel" /\ Cancelled /\ Placed(This)
          /\ filled = orders[This].filled /\ Net[filled] \in Volumes
          /\ ~Counts => filled = 0
          /\ orders'[This].filled = orders[This].filled
          /\ \A t \in Slots : t # This => orders'[t] = orders[t]
          /\ disturbed' \subseteq Disturbances
      BY <2>5, CalmCancel
    <3>2. leg = 1 /\ ~Counts
      <4>1. CASE leg = 1
        BY <2>1, <3>1, <4>1, CancelledEffect, ProceedEffect
      <4>2. CASE leg # 1
        BY <2>1, <3>1, <4>2, CancelledEffect
      <4>3. QED
        BY <4>1, <4>2
    <3>3. This = Leg(d, 1) /\ 1 \in Legs
      BY <1>2, <3>2, ThisIsLeg DEF Legs
    <3>4. \A k \in Legs : k # 1 => ~Placed(Leg(d, k))'
      BY <1>0, <2>2, <3>1, <3>2, <3>3, LegSlots DEF Placed
    <3>5. orders'[Leg(d, 1)].filled = 0
      BY <3>1, <3>2, <3>3
    <3>6. ~Placed(Revert(d, 1))'
      <4>1. /\ Revert(d, 1) \in Slots /\ Ahead(Revert(d, 1))
            /\ Revert(d, 1) # This
        BY <1>2, <3>1, <3>3, RevertSlots, ThisIsLeg DEF Ahead
      <4>2. QED
        BY <1>0, <3>1, <4>1 DEF Fresh, Placed
    <3>7. TradedBackAsFilled(d, 1)'
      BY <3>5, <3>6 DEF TradedBackAsFilled
    <3>8. QED
      BY <3>4, <3>7 DEF Square
  <2>6. CASE TradedBack
    <3>1. orders' = orders /\ pc = "revert" /\ reverts = << >>
      BY <2>6 DEF TradedBack
    <3>2. Len(reverts) = 0
      BY <3>1
    <3>3. \A k \in Legs : Placed(Leg(d, k)) => TradedBackAsFilled(d, k)
      BY <1>0, <1>2, <3>1, <3>2 DEF Halfway
    <3>4. \A k \in Legs : Placed(Leg(d, k))' => TradedBackAsFilled(d, k)'
      BY <3>1, <3>3 DEF TradedBackAsFilled, Placed
    <3>5. QED
      BY <3>4 DEF Square
  <2>7. ASSUME NEW s \in Slots, Fill(s) \/ Withdraw(s) PROVE FALSE
    BY <1>0, <2>1, <2>7, ExchangeEffect
  <2>8. ~(Place \/ TradeBack \/ UNCHANGED vars)
    BY <1>0, <2>1 DEF Place, TradeBack, Where, vars
  <2>9. QED
    BY <2>3, <2>4, <2>5, <2>6, <2>7, <2>8, CalmSteps, LegSlots
<1>3. QED
  BY <1>1, <1>2

LEMMA UndisturbedStep ==
    ASSUME Sound, Fresh, OnlyThisIsOpen, Undisturbed, [Next]_vars
    PROVE  Undisturbed'
<1> SUFFICES ASSUME disturbed' = {} PROVE Undisturbed'
  BY DEF Undisturbed
<1>1. disturbed = {} /\ Halfway /\ \A d \in Directions : Over(d) => Square(d)
  BY CalmSteps DEF Undisturbed
<1>2. Halfway'
  BY <1>1, HalfwayStep
<1>3. ASSUME NEW d \in Directions, Over(d)' PROVE Square(d)'
  BY <1>1, <1>3, NewlyOver, OverStays
<1>4. QED
  BY <1>2, <1>3 DEF Undisturbed

\* EndsSquare: whatever the volumes, the fee and the prices, however much of each
\* order is filled and wherever the run ends, an undisturbed run has traded back
\* each leg of a direction for just what it was filled, or gone all the way round
\* and sold the coin between symbol1 and symbol2 as it was bought.
THEOREM RunEndsSquare == Spec => []EndsSquare
<1>1. Init => Undisturbed
  <2> SUFFICES ASSUME Init PROVE Undisturbed
    OBVIOUS
  <2>1. \A k \in Legs : ~(k < leg)
    BY DEF Init, Legs
  <2>2. HandedOn
    BY DEF Init, HandedOn
  <2>3. \A d \in Directions : ~Over(d)
    BY DEF Init, Over, Directions
  <2>4. QED
    BY <2>1, <2>2, <2>3 DEF Init, Undisturbed, Halfway
<1>2. Sound /\ Fresh /\ OnlyThisIsOpen /\ Undisturbed /\ [Next]_vars => Undisturbed'
  BY UndisturbedStep
<1>3. Undisturbed => EndsSquare
  BY DEF Undisturbed, Over, Square, EndsSquare
<1>4. QED
  BY <1>1, <1>2, <1>3, SpecFresh, SpecOnlyThis, PTL DEF Spec

=============================================================================
