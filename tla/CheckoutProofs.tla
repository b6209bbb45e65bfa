--------------------------- MODULE CheckoutProofs ---------------------------
(***************************************************************************)
(* Theorems about Checkout, for any customer: any number of tabs, REST     *)
(* requests, products, accounts and quantities.                            *)
(***************************************************************************)
EXTENDS Checkout, SumProofs, WellFoundedInduction, TLAPS

\* The largest of some numbers that have a bound is one of them: there is a
\* least distance from the bound.
LEMMA LargestIsThere ==
    ASSUME NEW n \in Nat, NEW S \in SUBSET (0 .. n), S # {}
    PROVE  Max(S) \in S
<1> DEFINE D == {n - i : i \in S}
<1>1. D \subseteq Nat /\ D # {}
  <2>1. \A i \in S : n - i \in Nat
    OBVIOUS
  <2> QED
    BY <2>1
<1>2. PICK d \in D : \A e \in D : ~(<<e, d>> \in OpToRel(<, Nat))
  BY <1>1, NatLessThanWellFounded, WFMin
<1>3. PICK m \in S : d = n - m
  BY <1>2
<1>4. \A i \in S : m >= i
  <2> SUFFICES ASSUME NEW i \in S, i > m PROVE FALSE
    OBVIOUS
  <2>1. n - i \in D /\ n - i \in Nat /\ d \in Nat /\ n - i < d
    BY <1>1, <1>3
  <2>2. <<n - i, d>> \in OpToRel(<, Nat)
    BY <2>1 DEF OpToRel
  <2> QED
    BY <2>1, <2>2, <1>2
<1> QED
  BY <1>4 DEF Max

\* Merging open baskets gives lines again.
LEMMA MergedAreLines ==
    ASSUME MaxQuantity \in Nat,
           \A b \in BasketIds : basket[b].lines \in Lines,
           NEW B \in SUBSET BasketIds, B # {}
    PROVE  MergedLines(B) \in Lines
<1> SUFFICES ASSUME NEW p \in Products
             PROVE  Max({basket[b].lines[p] : b \in B}) \in 0 .. MaxQuantity
  BY DEF MergedLines, Lines
<1> DEFINE S == {basket[b].lines[p] : b \in B}
<1>1. S \in SUBSET (0 .. MaxQuantity) /\ S # {}
  BY DEF Lines
<1> HIDE DEF S
<1>2. Max(S) \in S
  BY <1>1, LargestIsThere
<1> QED
  BY <1>1, <1>2 DEF S

(***************************************************************************)
(* The shape of tables and requests.                                       *)
(***************************************************************************)

Early == {"idle", "asking", "creating"}
Browsing == {"holding", "rendering", "saving"}

\* The tables hold baskets with lines, and an order by REST is an order.
Tables ==
    /\ DOMAIN basket = BasketIds
    /\ \A b \in BasketIds : /\ DOMAIN basket[b] = {"status", "lines"}
                            /\ basket[b].lines \in Lines
    /\ DOMAIN order = BasketIds
    /\ viaApi \subseteq {b \in BasketIds : order[b] # NoOrder}

\* A request holds a basket just when it is past the middleware, and only those
\* that may order get further than the pages.
IsRequest(x) ==
    /\ DOMAIN x = {"kind", "stage", "basket", "lines", "allocations", "todo"}
    /\ x.lines \in Lines
    /\ x.basket \in IF x.stage \in Early THEN {0} ELSE BasketIds
    /\ x.kind \in Kind /\ x.stage \in Stage
    /\ x.kind \notin Ordering => x.stage \in Early \cup Browsing

Shape ==
    /\ Tables
    /\ DOMAIN req = Requests
    /\ \A r \in Requests : IsRequest(req[r])

LEMMA IdleIsRequest == IsRequest(Idle)
BY CheckoutAssumption
   DEF NoLines, Lines, Idle, IsRequest, Early, Kind, Stage, Ordering

LEMMA InitShape == Init => Shape
<1> SUFFICES ASSUME Init PROVE Shape
  OBVIOUS
<1>1. \A r \in Requests : req[r] = Idle
  BY DEF Init
<1>2. \A b \in BasketIds : basket[b] = [status |-> "None", lines |-> NoLines]
  BY DEF Init
<1>3. NoLines \in Lines
  BY CheckoutAssumption DEF NoLines, Lines
<1>4. Tables
  BY <1>2, <1>3 DEF Init, Tables
<1> QED
  BY <1>1, <1>4, IdleIsRequest DEF Init, Shape

\* Only request r moves.
Moves(r) ==
    /\ DOMAIN req' = Requests
    /\ \A q \in Requests \ {r} : req'[q] = req[q]

\* A request at work keeps its kind and its basket.
Keeps(r, stage) ==
    /\ Moves(r)
    /\ DOMAIN req'[r] = DOMAIN req[r]
    /\ req'[r].kind = req[r].kind /\ req'[r].basket = req[r].basket
    /\ req'[r].stage = stage

LEMMA MovesShape ==
    ASSUME Shape, Tables', NEW r \in Requests, Moves(r), IsRequest(req'[r])
    PROVE  Shape'
BY DEF Shape, Moves, IsRequest

LEMMA EndMoves ==
    ASSUME Shape, NEW r \in Requests, End(r)
    PROVE  Moves(r) /\ req'[r] = Idle
BY DEF Shape, End, Moves

LEMMA EndShape ==
    ASSUME Shape, Tables', NEW r \in Requests, End(r)
    PROVE  Shape'
BY EndMoves, IdleIsRequest, MovesShape

LEMMA KeepsShape ==
    ASSUME Shape, Tables', NEW r \in Requests, NEW stage, Keeps(r, stage),
           req'[r].lines \in Lines,
           stage \in Stage, stage \in Early <=> req[r].stage \in Early,
           req[r].kind \notin Ordering => stage \in Early \cup Browsing
    PROVE  Shape'
<1>1. IsRequest(req[r])
  BY DEF Shape
<1>2. IsRequest(req'[r])
  BY <1>1 DEF IsRequest, Keeps
<1> QED
  BY <1>2, MovesShape DEF Keeps

\* A status that changes leaves the tables tables.
LEMMA StatusTables ==
    ASSUME Tables, NEW b \in BasketIds, NEW status,
           basket' = [basket EXCEPT ![b].status = status],
           UNCHANGED <<order, viaApi>>
    PROVE  Tables'
BY DEF Tables

LEMMA OrderTables ==
    ASSUME Tables, NEW b \in BasketIds, NEW lines \in Lines,
           order' = [order EXCEPT ![b] = lines], UNCHANGED basket,
           viaApi' \in {viaApi, viaApi \cup {b}}
    PROVE  Tables'
BY CheckoutAssumption DEF Tables

LEMMA GotoKeeps ==
    ASSUME Shape, NEW r \in Requests, NEW stage, Goto(r, stage)
    PROVE  Keeps(r, stage) /\ req'[r].lines = req[r].lines
BY DEF Shape, IsRequest, Goto, Keeps, Moves

LEMMA LinesKeep ==
    ASSUME Shape, NEW r \in Requests, NEW stage, NEW lines,
           req' = [req EXCEPT ![r].lines = lines, ![r].stage = stage]
    PROVE  Keeps(r, stage) /\ req'[r].lines = lines
BY DEF Shape, IsRequest, Keeps, Moves

LEMMA AllocationsKeep ==
    ASSUME Shape, NEW r \in Requests, NEW stage, NEW allocations,
           \/ req' = [req EXCEPT ![r].allocations = allocations, ![r].stage = stage]
           \/ req' = [req EXCEPT ![r].stage = stage, ![r].allocations = allocations]
    PROVE  Keeps(r, stage) /\ req'[r].lines = req[r].lines
BY DEF Shape, IsRequest, Keeps, Moves

LEMMA TodoKeeps ==
    ASSUME Shape, NEW r \in Requests, NEW todo,
           req' = [req EXCEPT ![r].todo = todo]
    PROVE  Keeps(r, req[r].stage) /\ req'[r].lines = req[r].lines
BY DEF Shape, IsRequest, Keeps, Moves

LEMMA TodoAndStageKeep ==
    ASSUME Shape, NEW r \in Requests, NEW stage, NEW todo,
           req' = [req EXCEPT ![r].todo = todo, ![r].stage = stage]
    PROVE  Keeps(r, stage) /\ req'[r].lines = req[r].lines
BY DEF Shape, IsRequest, Keeps, Moves

LEMMA StageAndTodoKeep ==
    ASSUME Shape, NEW r \in Requests, NEW stage, NEW todo,
           req' = [req EXCEPT ![r].stage = stage, ![r].todo = todo]
    PROVE  Keeps(r, stage) /\ req'[r].lines = req[r].lines
BY DEF Shape, IsRequest, Keeps, Moves

\* The stages a submission can go to while it pays.
LEMMA CheckKeeps ==
    ASSUME Shape, NEW r \in Requests, CheckAllocations(r)
    PROVE  \E stage \in {"verifying", "refused"} :
             Keeps(r, stage) /\ req'[r].lines = req[r].lines
<1>1. CASE Goto(r, "refused")
  BY <1>1, GotoKeeps
<1>2. CASE req' = [req EXCEPT ![r].stage = "verifying",
                              ![r].todo = DOMAIN req[r].allocations]
  BY <1>2, StageAndTodoKeep
<1> QED
  BY <1>1, <1>2 DEF CheckAllocations

LEMMA VerifyKeeps ==
    ASSUME Shape, NEW r \in Requests, NEW a \in Accounts, Verify(r, a)
    PROVE  \E stage \in {"verifying", "refused", "debiting"} :
             Keeps(r, stage) /\ req'[r].lines = req[r].lines
<1>1. CASE Goto(r, "refused")
  BY <1>1, GotoKeeps
<1>2. CASE req' = [req EXCEPT ![r].stage = "debiting",
                              ![r].todo = DOMAIN req[r].allocations]
  BY <1>2, StageAndTodoKeep
<1>3. CASE req' = [req EXCEPT ![r].todo = req[r].todo \ {a}]
  BY <1>3, TodoKeeps DEF Verify
<1> QED
  BY <1>1, <1>2, <1>3 DEF Verify

LEMMA DebitKeeps ==
    ASSUME Shape, NEW r \in Requests, NEW a \in Accounts, Debit(r, a)
    PROVE  \E stage \in {"debiting", "paid"} :
             Keeps(r, stage) /\ req'[r].lines = req[r].lines
<1>1. PICK todo, stage :
        /\ todo = req[r].todo \ {a}
        /\ stage = IF req[r].todo = {a} THEN "paid" ELSE "debiting"
  OBVIOUS
<1>2. req' = [req EXCEPT ![r].todo = todo, ![r].stage = stage]
  BY <1>1 DEF Debit, Shape, IsRequest
<1> QED
  BY <1>1, <1>2, TodoAndStageKeep

LEMMA HoldMoves ==
    ASSUME Shape, NEW r \in Requests, NEW b \in BasketIds, Hold(r, b)
    PROVE  /\ Moves(r)
           /\ DOMAIN req'[r] = DOMAIN req[r]
           /\ req'[r].kind = req[r].kind /\ req'[r].lines = req[r].lines
           /\ req'[r].stage = "holding" /\ req'[r].basket = b
BY DEF Shape, IsRequest, Hold, Moves

LEMMA HoldShape ==
    ASSUME Shape, Tables', NEW r \in Requests, NEW b \in BasketIds, Hold(r, b)
    PROVE  Shape'
<1>1. IsRequest(req[r])
  BY DEF Shape
<1>2. IsRequest(req'[r])
  BY <1>1, HoldMoves DEF IsRequest, Early, Browsing, Stage
<1> QED
  BY <1>2, HoldMoves, MovesShape

\* The baskets after GetBasket: of the open ones, one has all the lines.
LEMMA GetBasketTables ==
    ASSUME Shape, NEW r \in Requests, GetBasket(r)
    PROVE  Tables'
<1>1. PICK b \in OpenBaskets :
        basket' = [c \in BasketIds |->
             IF c \notin OpenBaskets THEN basket[c]
             ELSE IF c = b
               THEN [basket[b] EXCEPT !.lines = MergedLines(OpenBaskets)]
               ELSE [status |-> "Merged", lines |-> NoLines]]
  BY DEF GetBasket
<1>2. MergedLines(OpenBaskets) \in Lines
  BY <1>1, MergedAreLines, CheckoutAssumption DEF Shape, Tables, OpenBaskets
<1>3. b \in BasketIds /\ NoLines \in Lines
  BY CheckoutAssumption DEF OpenBaskets, NoLines, Lines
<1> HIDE DEF OpenBaskets
<1> QED
  BY <1>1, <1>2, <1>3 DEF GetBasket, Shape, Tables

LEMMA AddProductTables ==
    ASSUME Shape, NEW r \in Requests, AddProduct(r)
    PROVE  Tables'
<1>1. PICK p \in Products :
        /\ basket[req[r].basket].lines[p] < MaxQuantity
        /\ basket' = [basket EXCEPT ![req[r].basket].lines[p] = @ + 1]
  BY DEF AddProduct
<1>2. PICK b : b = req[r].basket
  OBVIOUS
<1>3. b \in BasketIds /\ basket[b].lines \in Lines
  BY <1>2 DEF AddProduct, At, Shape, IsRequest, Tables, Early
<1>4. [basket[b].lines EXCEPT ![p] = @ + 1] \in Lines
  BY <1>1, <1>2, <1>3, CheckoutAssumption DEF Lines
<1>5. basket' = [basket EXCEPT ![b].lines = [basket[b].lines EXCEPT ![p] = @ + 1]]
  BY <1>1, <1>2
<1>6. UNCHANGED <<order, viaApi>>
  BY DEF AddProduct, Shop, History
<1> QED
  BY <1>3, <1>4, <1>5, <1>6 DEF Shape, Tables

\* Every step keeps the shape.
LEMMA ShapeStep ==
    ASSUME Shape, [Next]_vars
    PROVE  Shape'
<1> USE DEF Shop, History, Stage
<1>0. UNCHANGED <<basket, order, viaApi>> => Tables'
  BY DEF Shape, Tables
<1>a. ASSUME NEW r \in Requests PROVE IsRequest(req[r])
  BY DEF Shape
<1>1. ASSUME NEW r \in Requests, NEW kind \in Kind, Begin(r, kind) PROVE Shape'
  <2>1. IsRequest(req'[r]) /\ Moves(r)
    BY <1>1, IdleIsRequest DEF Begin, Shape, Idle, Early, Moves, IsRequest
  <2> QED
    BY <1>0, <1>1, <2>1, MovesShape DEF Begin
<1>2. ASSUME NEW r \in Requests, GetBasket(r) PROVE Shape'
  <2>1. PICK b \in BasketIds : Hold(r, b)
    BY <1>2 DEF GetBasket, OpenBaskets
  <2> QED
    BY <1>2, <2>1, GetBasketTables, HoldShape
<1>3. ASSUME NEW r \in Requests, NoBasket(r) PROVE Shape'
  BY <1>0, <1>a, <1>3, GotoKeeps, KeepsShape DEF NoBasket, At, Early, IsRequest
<1>4. ASSUME NEW r \in Requests, CreateBasket(r) PROVE Shape'
  <2>1. PICK b \in BasketIds :
          basket' = [basket EXCEPT ![b].status = "Open"] /\ Hold(r, b)
    BY <1>4 DEF CreateBasket
  <2> QED
    BY <1>4, <2>1, StatusTables, HoldShape DEF CreateBasket, Shape
<1>5. ASSUME NEW r \in Requests, AddProduct(r) PROVE Shape'
  BY <1>5, AddProductTables, EndShape DEF AddProduct
<1>6. ASSUME NEW r \in Requests, AddNothing(r) PROVE Shape'
  BY <1>0, <1>6, EndShape DEF AddNothing
<1>7. ASSUME NEW r \in Requests, ReadLines(r) PROVE Shape'
  <2>1. CASE End(r)
    BY <1>0, <1>7, <2>1, EndShape DEF ReadLines
  <2>2. CASE ~End(r)
    <3>1. PICK lines, stage :
            /\ lines = basket[req[r].basket].lines
            /\ stage = AfterLines[req[r].kind]
      OBVIOUS
    <3>2. req' = [req EXCEPT ![r].lines = lines, ![r].stage = stage]
      BY <1>7, <2>2, <3>1 DEF ReadLines
    <3>3. lines \in Lines /\ req[r].stage = "holding"
      BY <1>7, <1>a, <3>1 DEF ReadLines, At, Shape, IsRequest, Tables, Early
    <3>4. stage \in Stage \ Early /\ (req[r].kind \notin Ordering => stage \in Browsing)
      BY <1>7, <3>1 DEF ReadLines, At, AfterLines, Early, Browsing, Ordering
    <3> QED
      <4>1. Keeps(r, stage) /\ req'[r].lines \in Lines
        BY <3>2, <3>3, LinesKeep
      <4>2. Tables'
        BY <1>0, <1>7 DEF ReadLines
      <4> HIDE DEF Stage
      <4> QED
        BY <3>3, <3>4, <4>1, <4>2, KeepsShape DEF Early
  <2> QED
    BY <2>1, <2>2
<1>8. ASSUME NEW r \in Requests, Allocate(r) PROVE Shape'
  <2>1. Keeps(r, "saving") /\ req'[r].lines = req[r].lines
    BY <1>8, AllocationsKeep DEF Allocate
  <2> QED
    BY <1>0, <1>8, <1>a, <2>1, KeepsShape DEF Allocate, Early, Browsing, IsRequest
<1>9. ASSUME NEW r \in Requests, NothingToAllocate(r) PROVE Shape'
  BY <1>0, <1>9, EndShape DEF NothingToAllocate
<1>10. ASSUME NEW r \in Requests, SaveSession(r) PROVE Shape'
  BY <1>0, <1>10, EndShape DEF SaveSession
<1>b. ASSUME NEW r \in Requests, NEW stage, Keeps(r, stage), Tables',
             req'[r].lines = req[r].lines, req[r].stage \notin Early \cup Browsing,
             stage \in Stage \ Early
      PROVE  Shape'
  BY <1>a, <1>b, KeepsShape DEF IsRequest
<1>c. ASSUME NEW r \in Requests, req[r].stage \notin Early
      PROVE  req[r].basket \in BasketIds
  BY <1>a, <1>c DEF IsRequest
<1> USE DEF Early, Browsing
<1>11. ASSUME NEW r \in Requests, Freeze(r) PROVE Shape'
  BY <1>b, <1>c, <1>11, GotoKeeps, StatusTables DEF Freeze, Shape
<1>12. ASSUME NEW r \in Requests, CheckAllocations(r) PROVE Shape'
  BY <1>0, <1>b, <1>12, CheckKeeps DEF CheckAllocations
<1>13. ASSUME NEW r \in Requests, NEW a \in Accounts, Verify(r, a) PROVE Shape'
  BY <1>0, <1>b, <1>13, VerifyKeeps DEF Verify
<1>14. ASSUME NEW r \in Requests, NEW a \in Accounts, Debit(r, a) PROVE Shape'
  BY <1>0, <1>b, <1>14, DebitKeeps DEF Debit
<1>15. ASSUME NEW r \in Requests, PaymentFails(r) PROVE Shape'
  BY <1>0, <1>b, <1>15, GotoKeeps DEF PaymentFails
<1>16. ASSUME NEW r \in Requests, Thaw(r) PROVE Shape'
  BY <1>b, <1>c, <1>16, GotoKeeps, StatusTables DEF Thaw, Shape
<1>17. ASSUME NEW r \in Requests, PlaceOrder(r) PROVE Shape'
  <2>1. CASE End(r) /\ UNCHANGED order
    BY <1>0, <1>17, <2>1, EndShape DEF PlaceOrder
  <2>2. CASE /\ order' = [order EXCEPT ![req[r].basket] = req[r].lines]
             /\ Goto(r, "ordered")
    BY <1>a, <1>b, <1>c, <1>17, <2>2, GotoKeeps, OrderTables
       DEF PlaceOrder, Shape, IsRequest
  <2> QED
    BY <1>17, <2>1, <2>2 DEF PlaceOrder
<1>18. ASSUME NEW r \in Requests, MarkSubmitted(r) PROVE Shape'
  BY <1>b, <1>c, <1>18, AllocationsKeep, StatusTables DEF MarkSubmitted, Shape
<1>19. ASSUME NEW r \in Requests, ParseBasket(r) PROVE Shape'
  BY <1>0, <1>19, EndShape, HoldShape DEF ParseBasket
<1>20. ASSUME NEW r \in Requests, PlaceApiOrder(r) PROVE Shape'
  <2>1. CASE End(r) /\ UNCHANGED <<order, viaApi>>
    BY <1>0, <1>20, <2>1, EndShape DEF PlaceApiOrder
  <2>2. CASE /\ order' = [order EXCEPT ![req[r].basket] = req[r].lines]
             /\ viaApi' = viaApi \cup {req[r].basket}
             /\ Goto(r, "placed")
    BY <1>a, <1>b, <1>c, <1>20, <2>2, GotoKeeps, OrderTables
       DEF PlaceApiOrder, Shape, IsRequest
  <2> QED
    BY <1>20, <2>1, <2>2 DEF PlaceApiOrder
<1>21. ASSUME NEW r \in Requests, FreezeOrdered(r) PROVE Shape'
  BY <1>c, <1>21, EndShape, StatusTables DEF FreezeOrdered, Shape
<1>22. ASSUME NEW r \in Requests, Fail(r) PROVE Shape'
  BY <1>0, <1>22, EndShape DEF Fail
<1>23. ASSUME NEW a \in Accounts, AccountChanges(a) PROVE Shape'
  BY <1>0, <1>23 DEF AccountChanges, Shape
<1>24. ASSUME UNCHANGED vars PROVE Shape'
  BY <1>0, <1>24 DEF vars, Shape
<1> QED
  BY <1>1, <1>2, <1>3, <1>4, <1>5, <1>6, <1>7, <1>8, <1>9, <1>10, <1>11, <1>12,
     <1>13, <1>14, <1>15, <1>16, <1>17, <1>18, <1>19, <1>20, <1>21, <1>22,
     <1>23, <1>24 DEF Next, Step

(***************************************************************************)
(* Statuses and orders.                                                    *)
(***************************************************************************)

\* A submission in these stages has not frozen its basket, or has thawed or
\* submitted it; in those it has placed no order, and nobody else has.
Settled == {"holding", "loaded", "validated", "rendering", "saving"}
Unordered == {"holding", "loaded", "validated", "frozen", "verifying",
              "debiting", "refused", "paid"}

Matches(b) ==
    /\ basket[b].status = "Submitted" <=> order[b] # NoOrder /\ b \notin viaApi
    /\ basket[b].status = "Frozen" <=> order[b] # NoOrder /\ b \in viaApi

\* One submission at a time has a say in what becomes of a basket; what it has
\* done so far tells whether there is an order; and unless it is half-way, the
\* status agrees with that.
TruthOf(b) ==
    /\ \A q, r \in Requests : Submitting(q, b) /\ Submitting(r, b) => q = r
    /\ \A r \in Requests : Submitting(r, b) =>
         /\ req[r].stage \in Unordered => order[b] = NoOrder
         /\ req[r].stage = "ordered" => order[b] # NoOrder /\ b \notin viaApi
         /\ req[r].stage = "placed" => order[b] # NoOrder /\ b \in viaApi
    /\ (\A r \in Requests : Submitting(r, b) => req[r].stage \in Settled)
         => Matches(b)

Truth == \A b \in BasketIds : b \notin overlapped \cup interrupted => TruthOf(b)

TruthInv == Shape /\ Truth

\* A step that leaves b's order alone, and its status unless that is neither
\* of the two that say something about orders.
Spares(b) ==
    /\ \/ basket'[b].status = basket[b].status
       \/ /\ basket[b].status \notin {"Submitted", "Frozen"}
          /\ basket'[b].status \notin {"Submitted", "Frozen"}
    /\ order'[b] = order[b]
    /\ b \in viaApi' <=> b \in viaApi

\* A step of a request that has nothing to do with b.
LEMMA TruthElsewhere ==
    ASSUME NEW b \in BasketIds, NEW r \in Requests, Moves(r), Spares(b),
           TruthOf(b), ~Submitting(r, b), ~Submitting(r, b)'
    PROVE  TruthOf(b)'
<1>1. \A q \in Requests : /\ Submitting(q, b)' <=> Submitting(q, b)
                          /\ Submitting(q, b) => req'[q].stage = req[q].stage
  BY DEF Moves, Submitting
<1> QED
  BY <1>1 DEF TruthOf, Matches, Spares

\* A step of b's submission that leaves b alone.
LEMMA TruthOnward ==
    ASSUME NEW b \in BasketIds, NEW r \in Requests, NEW stage, Keeps(r, stage),
           Spares(b), TruthOf(b), Submitting(r, b),
           stage \notin {"idle", "ordered", "placed"},
           stage \in Settled <=> req[r].stage \in Settled,
           stage \in Unordered => req[r].stage \in Unordered
    PROVE  TruthOf(b)'
<1>1. \A q \in Requests : /\ Submitting(q, b)' <=> Submitting(q, b)
                          /\ q # r => req'[q].stage = req[q].stage
  BY DEF Keeps, Moves, Submitting
<1> QED
  BY <1>1 DEF TruthOf, Matches, Spares, Keeps

\* b's submission ends when it is not half-way.
LEMMA TruthAtTheEnd ==
    ASSUME Shape, NEW b \in BasketIds, NEW r \in Requests, End(r), Spares(b),
           TruthOf(b), Submitting(r, b), req[r].stage \in Settled
    PROVE  TruthOf(b)'
<1>1. \A q \in Requests : ~Submitting(q, b)'
  BY EndMoves DEF Moves, Submitting, TruthOf, Idle
<1>2. Matches(b)
  BY DEF TruthOf
<1> QED
  BY <1>1, <1>2 DEF TruthOf, Matches, Spares

\* A submission takes hold of b, which nobody else submits.
LEMMA TruthAtTheStart ==
    ASSUME Shape, NEW b \in BasketIds, NEW r \in Requests, Hold(r, b), Spares(b),
           req[r].stage \in Early, TruthOf(b), b \notin overlapped',
           basket[b].status \notin {"Submitted", "Frozen"}
    PROVE  TruthOf(b)'
<1>1. ~Submitting(r, b)
  BY DEF Shape, IsRequest, Submitting, BasketIds
<1>2. CASE req[r].kind \notin Ordering
  BY <1>1, <1>2, HoldMoves, TruthElsewhere DEF Submitting
<1>3. CASE req[r].kind \in Ordering
  <2>1. \A q \in Requests : ~Submitting(q, b)
    BY <1>3 DEF Hold
  <2>2. Matches(b) /\ order[b] = NoOrder
    BY <2>1 DEF TruthOf, Matches
  <2>3. \A q \in Requests : /\ Submitting(q, b)' <=> q = r
                            /\ req'[r].stage = "holding"
    BY <1>3, <2>1, HoldMoves DEF Moves, Submitting
  <2> QED
    BY <2>2, <2>3 DEF TruthOf, Matches, Spares, Settled, Unordered
<1> QED
  BY <1>2, <1>3

Quieter == overlapped \subseteq overlapped' /\ interrupted \subseteq interrupted'
Spared == \A b \in BasketIds : Spares(b)

\* What becomes of all baskets when the step of a request spares them.
LEMMA OnwardSteps ==
    ASSUME TruthInv, Quieter, Spared, NEW r \in Requests, NEW stage,
           Keeps(r, stage), req[r].stage # "idle",
           stage \notin {"idle", "ordered", "placed"},
           stage \in Settled <=> req[r].stage \in Settled,
           stage \in Unordered => req[r].stage \in Unordered
    PROVE  Truth'
<1> SUFFICES ASSUME NEW b \in BasketIds, b \notin overlapped' \cup interrupted'
             PROVE  TruthOf(b)'
  BY DEF Truth
<1>1. TruthOf(b) /\ Spares(b)
  BY DEF TruthInv, Truth, Quieter, Spared
<1>2. CASE Submitting(r, b)
  BY <1>1, <1>2, TruthOnward
<1>3. CASE ~Submitting(r, b)
  BY <1>1, <1>3, TruthElsewhere DEF Keeps, Submitting
<1> QED
  BY <1>2, <1>3

\* A request ends, unless its basket is half-way and that is on record.
LEMMA EndSteps ==
    ASSUME TruthInv, Quieter, Spared, NEW r \in Requests, End(r),
           \A b \in BasketIds :
             Submitting(r, b) /\ b \notin overlapped' \cup interrupted'
               => req[r].stage \in Settled
    PROVE  Truth'
<1> SUFFICES ASSUME NEW b \in BasketIds, b \notin overlapped' \cup interrupted'
             PROVE  TruthOf(b)'
  BY DEF Truth
<1>1. TruthOf(b) /\ Spares(b) /\ Shape
  BY DEF TruthInv, Truth, Quieter, Spared
<1>2. CASE Submitting(r, b)
  BY <1>1, <1>2, TruthAtTheEnd
<1>3. CASE ~Submitting(r, b)
  BY <1>1, <1>3, EndMoves, TruthElsewhere DEF Submitting, Idle
<1> QED
  BY <1>2, <1>3

LEMMA HoldSteps ==
    ASSUME TruthInv, Spared, UNCHANGED interrupted, NEW r \in Requests,
           NEW b \in BasketIds, Hold(r, b), req[r].stage \in Early,
           basket[b].status \notin {"Submitted", "Frozen"}
    PROVE  Truth'
<1> SUFFICES ASSUME NEW c \in BasketIds, c \notin overlapped' \cup interrupted'
             PROVE  TruthOf(c)'
  BY DEF Truth
<1>1. TruthOf(c) /\ Spares(c) /\ Shape
  BY DEF TruthInv, Truth, Spared, Hold
<1>2. CASE c = b
  BY <1>1, <1>2, TruthAtTheStart
<1>3. CASE c # b
  <2>1. ~Submitting(r, c) /\ ~Submitting(r, c)'
    BY <1>1, <1>3, HoldMoves DEF Shape, IsRequest, Submitting, BasketIds
  <2> QED
    BY <1>1, <2>1, HoldMoves, TruthElsewhere
<1> QED
  BY <1>2, <1>3

\* A step of a submission on its own basket: for the others, nothing changes.
LEMMA OwnSteps ==
    ASSUME TruthInv, Quieter, NEW r \in Requests, Moves(r),
           req'[r].basket \in {0, req[r].basket}, req[r].stage \notin Early,
           \A c \in BasketIds : c # req[r].basket => Spares(c),
           \A b \in BasketIds :
             b = req[r].basket /\ b \notin overlapped' \cup interrupted'
               => TruthOf(b)'
    PROVE  Truth'
<1> SUFFICES ASSUME NEW b \in BasketIds, b \notin overlapped' \cup interrupted',
                    b # req[r].basket
             PROVE  TruthOf(b)'
  BY DEF Truth
<1>1. TruthOf(b) /\ Spares(b)
  BY DEF TruthInv, Truth, Quieter
<1>2. ~Submitting(r, b) /\ ~Submitting(r, b)'
  BY DEF Submitting, BasketIds
<1> QED
  BY <1>1, <1>2, TruthElsewhere

\* The submission of a basket that is at work on it.
LEMMA AtWork ==
    ASSUME Shape, NEW r \in Requests, req[r].stage \notin Early \cup Browsing
    PROVE  req[r].basket \in BasketIds /\ Submitting(r, req[r].basket)
BY DEF Shape, IsRequest, Submitting, Early

\* A submission changes the status of its basket.
LEMMA StatusSteps ==
    ASSUME TruthInv, NEW r \in Requests, NEW stage, Keeps(r, stage), NEW status,
           req[r].stage \notin Early \cup Browsing,
           basket' = [basket EXCEPT ![req[r].basket].status = status],
           UNCHANGED <<order, History>>,
           \/ stage = "frozen" /\ req[r].stage = "loaded"
           \/ stage = "rendering" /\ req[r].stage = "refused" /\ status = "Open"
           \/ stage = "saving" /\ req[r].stage = "ordered" /\ status = "Submitted"
    PROVE  Truth'
<1>1. PICK b : b = req[r].basket
  OBVIOUS
<1>2. b \in BasketIds /\ Submitting(r, b)
  BY <1>1, AtWork DEF TruthInv
<1>3. \A c \in BasketIds : c # b => Spares(c)
  BY <1>1, <1>2 DEF TruthInv, Shape, Tables, Spares, History
<1>4. UNCHANGED <<order, viaApi, overlapped, interrupted>> /\ basket'[b].status = status
  BY <1>1, <1>2 DEF TruthInv, Shape, Tables, History
<1>5. ASSUME b \notin overlapped \cup interrupted PROVE TruthOf(b)'
  <2>1. TruthOf(b)
    BY <1>2, <1>5 DEF TruthInv, Truth
  <2>2. \A q \in Requests : /\ Submitting(q, b)' <=> q = r
                            /\ req'[r].stage = stage
    BY <1>1, <1>2, <2>1 DEF Keeps, Moves, Submitting, TruthOf
  <2>3. CASE stage = "frozen" /\ req[r].stage = "loaded"
    BY <1>2, <1>4, <2>1, <2>2, <2>3 DEF TruthOf, Settled, Unordered
  <2>4. CASE stage = "rendering" /\ req[r].stage = "refused" /\ status = "Open"
    BY <1>2, <1>4, <2>1, <2>2, <2>4 DEF TruthOf, Matches, Settled, Unordered
  <2>5. CASE stage = "saving" /\ req[r].stage = "ordered" /\ status = "Submitted"
    BY <1>2, <1>4, <2>1, <2>2, <2>5 DEF TruthOf, Matches, Settled, Unordered
  <2> QED
    BY <2>3, <2>4, <2>5
<1> QED
  BY <1>1, <1>3, <1>4, <1>5, OwnSteps DEF Keeps, Quieter, Early

LEMMA OrderSteps ==
    ASSUME TruthInv, NEW r \in Requests, PlaceOrder(r) \/ PlaceApiOrder(r)
    PROVE  Truth'
<1> USE DEF History
<1>1. PICK b : b = req[r].basket
  OBVIOUS
<1>2. b \in BasketIds /\ Submitting(r, b) /\ req[r].stage \in {"paid", "validated"}
  BY <1>1, AtWork DEF TruthInv, PlaceOrder, PlaceApiOrder, Early, Browsing
<1>3. ASSUME b \notin overlapped \cup interrupted PROVE TruthOf(b) /\ order[b] = NoOrder
  BY <1>2, <1>3 DEF TruthInv, Truth, TruthOf, Unordered
<1>4. UNCHANGED <<basket, overlapped, interrupted>>
  BY DEF PlaceOrder, PlaceApiOrder
<1>5. CASE End(r) /\ UNCHANGED <<order, viaApi>>
  <2>1. Spared /\ Quieter
    BY <1>4, <1>5 DEF Spared, Spares, Quieter
  <2>2. order[b] # NoOrder
    BY <1>1, <1>5, GotoKeeps, EndMoves, <1>2
       DEF PlaceOrder, PlaceApiOrder, TruthInv, Keeps, Idle
  <2> QED
    BY <1>1, <1>3, <1>4, <1>5, <2>1, <2>2, EndSteps DEF Submitting
<1>6. ASSUME NEW stage, Goto(r, stage), NEW lines \in Lines,
             order' = [order EXCEPT ![b] = lines],
             \/ stage = "ordered" /\ viaApi' = viaApi
             \/ stage = "placed" /\ viaApi' = viaApi \cup {b}
      PROVE  Truth'
  <2>1. \A c \in BasketIds : c # b => Spares(c)
    BY <1>4, <1>6 DEF TruthInv, Shape, Tables, Spares
  <2>2. order'[b] # NoOrder
    BY <1>2, <1>6, CheckoutAssumption DEF TruthInv, Shape, Tables
  <2>3. Keeps(r, stage)
    BY <1>6, GotoKeeps DEF TruthInv
  <2>4. ASSUME b \notin overlapped \cup interrupted PROVE TruthOf(b)'
    <3>1. TruthOf(b) /\ b \notin viaApi
      BY <1>2, <1>3, <2>4 DEF TruthInv, Shape, Tables
    <3>2. \A q \in Requests : /\ Submitting(q, b)' <=> q = r
                              /\ req'[r].stage = stage
      BY <1>1, <1>2, <1>6, <2>3, <3>1 DEF Keeps, Moves, Submitting, TruthOf
    <3> QED
      BY <1>6, <2>2, <3>1, <3>2 DEF TruthOf, Settled, Unordered
  <2> QED
    BY <1>1, <1>2, <1>4, <2>1, <2>3, <2>4, OwnSteps DEF Keeps, Quieter, Early
<1>7. req[r].lines \in Lines
  BY DEF TruthInv, Shape, IsRequest
<1> QED
  BY <1>1, <1>5, <1>6, <1>7 DEF PlaceOrder, PlaceApiOrder

LEMMA FreezeOrderedSteps ==
    ASSUME TruthInv, NEW r \in Requests, FreezeOrdered(r)
    PROVE  Truth'
<1>1. PICK b : b = req[r].basket
  OBVIOUS
<1>2. b \in BasketIds /\ Submitting(r, b)
  BY <1>1, AtWork DEF TruthInv, FreezeOrdered, Early, Browsing
<1>3. /\ UNCHANGED <<order, viaApi, overlapped, interrupted>>
      /\ basket'[b].status = "Frozen" /\ End(r)
      /\ \A c \in BasketIds : c # b => basket'[c].status = basket[c].status
  BY <1>1, <1>2 DEF FreezeOrdered, TruthInv, Shape, Tables, History
<1>4. ASSUME b \notin overlapped \cup interrupted PROVE TruthOf(b)'
  <2>1. TruthOf(b)
    BY <1>2, <1>4 DEF TruthInv, Truth
  <2>2. \A q \in Requests : ~Submitting(q, b)'
    BY <1>2, <1>3, <2>1, EndMoves DEF TruthInv, Moves, Submitting, TruthOf, Idle
  <2> QED
    BY <1>1, <1>2, <1>3, <2>1, <2>2 DEF TruthOf, Matches, FreezeOrdered
<1>5. Moves(r) /\ req'[r].basket = 0
  BY <1>3, EndMoves DEF TruthInv, Idle
<1> QED
  BY <1>1, <1>3, <1>4, <1>5, OwnSteps
     DEF Spares, Quieter, Early, FreezeOrdered

\* Every step keeps statuses and orders together.
LEMMA TruthStep ==
    ASSUME TruthInv, [Next]_vars
    PROVE  Truth'
<1> USE DEF Shop, History
<1>0. Shape /\ (UNCHANGED <<basket, order, viaApi>> => Spared)
  BY DEF TruthInv, Spared, Spares
<1>a. ASSUME UNCHANGED <<overlapped, interrupted>> PROVE Quieter
  BY <1>a DEF Quieter
<1>b. ASSUME NEW r \in Requests, req[r].kind \notin Ordering, NEW b
      PROVE  ~Submitting(r, b)
  BY <1>b DEF Submitting
<1>c. ASSUME NEW r \in Requests, req[r].stage \in Early, NEW b \in BasketIds
      PROVE  ~Submitting(r, b)
  BY <1>c DEF TruthInv, Shape, IsRequest, Submitting, BasketIds
<1>1. ASSUME NEW r \in Requests, NEW kind \in Kind, Begin(r, kind) PROVE Truth'
  <2>1. Spared /\ UNCHANGED <<overlapped, interrupted>>
    BY <1>0, <1>1 DEF Begin
  <2>2. Moves(r) /\ req'[r].basket = 0 /\ req[r].stage \in Early
    BY <1>0, <1>1 DEF Begin, Shape, Moves, Idle, Early
  <2>3. \A b \in BasketIds : ~Submitting(r, b) /\ ~Submitting(r, b)'
    BY <1>c, <2>2 DEF Submitting, BasketIds
  <2> QED
    BY <2>1, <2>2, <2>3, TruthElsewhere DEF TruthInv, Truth, Spared
<1>2. ASSUME NEW r \in Requests, GetBasket(r) PROVE Truth'
  <2>1. PICK b \in BasketIds :
          /\ basket[b].status = "Open" /\ Hold(r, b)
          /\ basket' = [c \in BasketIds |->
               IF c \notin OpenBaskets THEN basket[c]
               ELSE IF c = b
                 THEN [basket[b] EXCEPT !.lines = MergedLines(OpenBaskets)]
                 ELSE [status |-> "Merged", lines |-> NoLines]]
    BY <1>2 DEF GetBasket, OpenBaskets
  <2>2. \A c \in BasketIds :
          \/ basket'[c].status = basket[c].status
          \/ basket[c].status = "Open" /\ basket'[c].status = "Merged"
    <3> HIDE DEF MergedLines
    <3> QED
      BY <1>0, <2>1 DEF OpenBaskets, Shape, Tables
  <2>3. Spared
    BY <1>2, <2>2 DEF GetBasket, Spared, Spares
  <2> QED
    BY <1>2, <2>1, <2>3, HoldSteps DEF GetBasket, At, Early
<1>3. ASSUME NEW r \in Requests, NoBasket(r) PROVE Truth'
  BY <1>0, <1>a, <1>3, GotoKeeps, OnwardSteps DEF NoBasket, At, Settled, Unordered
<1>4. ASSUME NEW r \in Requests, CreateBasket(r) PROVE Truth'
  <2>1. PICK b \in BasketIds : /\ basket[b].status = "None" /\ Hold(r, b)
                               /\ basket' = [basket EXCEPT ![b].status = "Open"]
    BY <1>4 DEF CreateBasket
  <2>2. Spared
    BY <1>0, <1>4, <2>1 DEF CreateBasket, Spared, Spares, Shape, Tables
  <2> QED
    BY <1>4, <2>1, <2>2, HoldSteps DEF CreateBasket, Early
<1>5. ASSUME NEW r \in Requests, AddProduct(r) PROVE Truth'
  <2>1. PICK b, lines : /\ b = req[r].basket
                        /\ basket' = [basket EXCEPT ![b].lines = lines]
    BY <1>5 DEF AddProduct
  <2>2. \A c \in BasketIds : basket'[c].status = basket[c].status
    BY <1>0, <2>1 DEF Shape, Tables
  <2>3. Spared
    BY <1>5, <2>2 DEF AddProduct, Spared, Spares
  <2> QED
    BY <1>a, <1>b, <1>5, <2>3, EndSteps DEF AddProduct, At, Ordering
<1>6. ASSUME NEW r \in Requests, AddNothing(r) PROVE Truth'
  BY <1>0, <1>a, <1>b, <1>6, EndSteps DEF AddNothing, At, Ordering
<1>7. ASSUME NEW r \in Requests, ReadLines(r) PROVE Truth'
  <2>1. CASE End(r)
    BY <1>0, <1>a, <1>7, <2>1, EndSteps DEF ReadLines, At, Settled
  <2>2. CASE ~End(r)
    <3>1. PICK lines, stage : lines = basket[req[r].basket].lines
                              /\ stage = AfterLines[req[r].kind]
      OBVIOUS
    <3>2. req' = [req EXCEPT ![r].lines = lines, ![r].stage = stage]
      BY <1>7, <2>2, <3>1 DEF ReadLines
    <3>3. stage \in {"rendering", "loaded", "validated"}
      BY <1>7, <3>1 DEF ReadLines, At, AfterLines
    <3> QED
      BY <1>0, <1>a, <1>7, <3>2, <3>3, LinesKeep, OnwardSteps
         DEF ReadLines, At, Settled, Unordered
  <2> QED
    BY <2>1, <2>2
<1>8. ASSUME NEW r \in Requests, Allocate(r) PROVE Truth'
  <2>1. Keeps(r, "saving")
    BY <1>0, <1>8, AllocationsKeep DEF Allocate
  <2> QED
    BY <1>0, <1>a, <1>8, <2>1, OnwardSteps DEF Allocate, Settled, Unordered
<1>9. ASSUME NEW r \in Requests, NothingToAllocate(r) PROVE Truth'
  BY <1>0, <1>a, <1>9, EndSteps DEF NothingToAllocate, Settled
<1>10. ASSUME NEW r \in Requests, SaveSession(r) PROVE Truth'
  BY <1>0, <1>a, <1>10, EndSteps DEF SaveSession, Settled
<1>11. ASSUME NEW r \in Requests, Freeze(r) PROVE Truth'
  BY <1>0, <1>11, GotoKeeps, StatusSteps DEF Freeze, Early, Browsing
<1>12. ASSUME NEW r \in Requests, CheckAllocations(r) PROVE Truth'
  BY <1>0, <1>a, <1>12, CheckKeeps, OnwardSteps
     DEF CheckAllocations, Settled, Unordered
<1>13. ASSUME NEW r \in Requests, NEW a \in Accounts, Verify(r, a) PROVE Truth'
  BY <1>0, <1>a, <1>13, VerifyKeeps, OnwardSteps DEF Verify, Settled, Unordered
<1>14. ASSUME NEW r \in Requests, NEW a \in Accounts, Debit(r, a) PROVE Truth'
  BY <1>0, <1>a, <1>14, DebitKeeps, OnwardSteps DEF Debit, Settled, Unordered
<1>15. ASSUME NEW r \in Requests, PaymentFails(r) PROVE Truth'
  <2>1. Quieter
    BY <1>15 DEF PaymentFails, Quieter
  <2> QED
    BY <1>0, <1>15, <2>1, GotoKeeps, OnwardSteps DEF PaymentFails, Settled, Unordered
<1>16. ASSUME NEW r \in Requests, Thaw(r) PROVE Truth'
  BY <1>0, <1>16, GotoKeeps, StatusSteps DEF Thaw, Early, Browsing
<1>17. ASSUME NEW r \in Requests, MarkSubmitted(r) PROVE Truth'
  BY <1>0, <1>17, AllocationsKeep, StatusSteps DEF MarkSubmitted, Early, Browsing
<1>18. ASSUME NEW r \in Requests, ParseBasket(r) PROVE Truth'
  <2>1. PICK b \in BasketIds :
          IF basket[b].status = "Open" THEN Hold(r, b)
          ELSE End(r) /\ UNCHANGED overlapped
    BY <1>18 DEF ParseBasket
  <2>2. CASE basket[b].status = "Open"
    BY <1>0, <1>18, <2>1, <2>2, HoldSteps DEF ParseBasket, At, Early
  <2>3. CASE basket[b].status # "Open"
    <3>1. Quieter /\ Spared /\ End(r) /\ req[r].stage \in Early
      BY <1>0, <1>18, <2>1, <2>3 DEF ParseBasket, Quieter, At, Early
    <3> QED
      BY <1>c, <3>1, EndSteps
  <2> QED
    BY <2>2, <2>3
<1>19. ASSUME NEW r \in Requests, Fail(r) PROVE Truth'
  <2>1. Quieter /\ Spared /\ End(r)
    BY <1>0, <1>19 DEF Fail, Quieter
  <2>2. ASSUME NEW b \in BasketIds, Submitting(r, b), b \notin interrupted'
        PROVE  req[r].stage \in Settled
    <3>1. req[r].stage \notin Early
      BY <1>c, <2>2
    <3>2. req[r].stage \notin {"frozen", "verifying", "debiting", "refused",
                               "paid", "ordered", "placed"}
      BY <1>19, <2>2 DEF Fail, Submitting
    <3> QED
      BY <3>1, <3>2, <1>0 DEF Shape, IsRequest, Stage, Early, Settled
  <2> QED
    BY <2>1, <2>2, EndSteps
<1>20. ASSUME NEW a \in Accounts, AccountChanges(a) PROVE Truth'
  BY <1>20 DEF AccountChanges, TruthInv, Truth, TruthOf, Matches, Submitting
<1>21. ASSUME UNCHANGED vars PROVE Truth'
  BY <1>21 DEF vars, TruthInv, Truth, TruthOf, Matches, Submitting
<1> QED
  BY <1>1, <1>2, <1>3, <1>4, <1>5, <1>6, <1>7, <1>8, <1>9, <1>10, <1>11, <1>12,
     <1>13, <1>14, <1>15, <1>16, <1>17, <1>18, <1>19, <1>20, <1>21,
     OrderSteps, FreezeOrderedSteps DEF Next, Step

\* For any number of tabs and REST requests: a basket that is left alone by
\* overlapping and interrupted submissions is submitted just when the site
\* ordered it, and frozen just when the REST interface did.
THEOREM StatusTellsTheTruth == Spec => []StatusMatchesOrder
<1>1. Init => TruthInv
  <2> SUFFICES ASSUME Init PROVE Truth
    BY InitShape DEF TruthInv
  <2> QED
    BY DEF Init, Idle, Truth, TruthOf, Matches, Submitting, Ordering
<1>2. TruthInv /\ [Next]_vars => TruthInv'
  BY ShapeStep, TruthStep DEF TruthInv
<1>3. TruthInv => StatusMatchesOrder
  BY DEF TruthInv, Truth, TruthOf, Matches, StatusMatchesOrder, Undisturbed, Quiet
<1> QED
  BY <1>1, <1>2, <1>3, PTL DEF Spec

(***************************************************************************)
(* Sums of money.                                                          *)
(***************************************************************************)

\* Allocations are amounts of finitely many accounts.
LEMMA AllocationsAre ==
    ASSUME NEW f, AreAllocations(f)
    PROVE  /\ DOMAIN f \in SUBSET Accounts /\ IsFiniteSet(DOMAIN f)
           /\ \A a \in DOMAIN f : f[a] \in Int
           /\ \A P \in SUBSET DOMAIN f : IsFiniteSet(P)
<1>1. PICK S \in SUBSET Accounts : f \in [S -> Int]
  BY DEF AreAllocations
<1>2. DOMAIN f = S /\ IsFiniteSet(S)
  BY <1>1, FS_Subset, CheckoutAssumption
<1> QED
  BY <1>1, <1>2, FS_Subset

\* What lines cost is an amount, and nothing costs nothing.
LEMMA TotalIsNat ==
    ASSUME NEW lines \in Lines
    PROVE  Total(lines) \in Nat
<1> DEFINE costs == [p \in Products |-> Price[p] * lines[p]]
<1>1. \A m, n \in Nat : m * n \in Nat
  OBVIOUS
<1>2. \A p \in Products : Price[p] \in Nat /\ lines[p] \in Nat
  BY CheckoutAssumption DEF Lines
<1>3. \A p \in Products : costs[p] \in Nat
  BY <1>1, <1>2
<1> HIDE DEF costs
<1>4. SumFunctionOnSet(costs, Products) \in Nat
  BY <1>3, SumIsNat, CheckoutAssumption
<1> QED
  BY <1>4 DEF Total, costs

\* What a submission has debited so far.
Done(x) == SumFunctionOnSet(x.allocations, (DOMAIN x.allocations) \ x.todo)

LEMMA NothingDone ==
    ASSUME NEW x, x.todo = DOMAIN x.allocations
    PROVE  Done(x) = 0
BY SumOfNothing DEF Done

LEMMA AllDone ==
    ASSUME NEW x, x.todo = {}
    PROVE  Done(x) = Allocated(x.allocations)
<1>1. (DOMAIN x.allocations) \ x.todo = DOMAIN x.allocations
  OBVIOUS
<1> QED
  BY <1>1 DEF Done, Allocated

LEMMA DoneIsInt ==
    ASSUME NEW x, AreAllocations(x.allocations)
    PROVE  Done(x) \in Int
<1> DEFINE D == (DOMAIN x.allocations) \ x.todo
<1>1. D \in SUBSET DOMAIN x.allocations
  OBVIOUS
<1>2. IsFiniteSet(D) /\ \A a \in D : x.allocations[a] \in Int
  BY <1>1, AllocationsAre
<1> HIDE DEF D
<1>3. SumFunctionOnSet(x.allocations, D) \in Int
  BY <1>2, SumIsInt
<1> QED
  BY <1>3 DEF Done, D

\* One debit more.
LEMMA OneMoreDone ==
    ASSUME NEW x, NEW y, NEW a \in x.todo, AreAllocations(x.allocations),
           x.todo \in SUBSET DOMAIN x.allocations,
           y.allocations = x.allocations, y.todo = x.todo \ {a}
    PROVE  /\ Done(x) \in Int /\ x.allocations[a] \in Int
           /\ Done(y) = x.allocations[a] + Done(x)
<1> DEFINE f == x.allocations
           D == (DOMAIN f) \ x.todo
           E == (DOMAIN f) \ (x.todo \ {a})
<1>1. E = D \cup {a} /\ a \notin D /\ a \in DOMAIN f /\ D \in SUBSET DOMAIN f
  OBVIOUS
<1>2. IsFiniteSet(D) /\ (\A b \in D : f[b] \in Int) /\ f[a] \in Int
  BY <1>1, AllocationsAre
<1>3. Done(x) = SumFunctionOnSet(f, D) /\ Done(y) = SumFunctionOnSet(f, E)
  BY DEF Done
<1> HIDE DEF f, D, E
<1>4. /\ SumFunctionOnSet(f, D) \in Int
      /\ SumFunctionOnSet(f, D \cup {a}) = f[a] + SumFunctionOnSet(f, D)
  BY <1>1, <1>2, SumIsInt, SumWithMore
<1> QED
  BY <1>1, <1>2, <1>3, <1>4 DEF f

(***************************************************************************)
(* Types.                                                                  *)
(***************************************************************************)

\* The allocations of a request are amounts; once they are accepted they add up
\* to what is to be paid, those that are verified are positive, and nothing is
\* left to debit when the submission goes on.
IsPayment(x) ==
    /\ AreAllocations(x.allocations)
    /\ x.todo \in SUBSET DOMAIN x.allocations
    /\ x.stage \in {"verifying", "debiting"}
         => Allocated(x.allocations) = Total(x.lines)
    /\ x.stage = "verifying" =>
         \A a \in (DOMAIN x.allocations) \ x.todo : x.allocations[a] > 0
    /\ x.stage = "debiting" => \A a \in DOMAIN x.allocations : x.allocations[a] > 0
    /\ x.stage \in {"paid", "ordered"} => x.todo = {}

Payments == \A r \in Requests : IsPayment(req[r])

TypedShop ==
    /\ basket \in [BasketIds -> [status : Status, lines : Lines]]
    /\ order \in [BasketIds -> Lines \cup {NoOrder}]
    /\ overlapped \subseteq BasketIds /\ interrupted \subseteq BasketIds
TypedMoney == /\ paid \in [BasketIds -> Nat]
              /\ account \in [Accounts -> AccountRow]
TypedBounds == started \in 0 .. MaxRequests /\ events \in 0 .. MaxEvents

TypeInv ==
    /\ Shape /\ TypedShop /\ TypedMoney /\ TypedBounds
    /\ AreAllocations(session) /\ Payments

LEMMA NoAllocationsAre == AreAllocations(NoAllocations)
<1>1. {} \in SUBSET Accounts /\ NoAllocations \in [{} -> Int]
  BY DEF NoAllocations
<1> QED
  BY <1>1 DEF AreAllocations

LEMMA IdleIsPayment == IsPayment(Idle)
BY NoAllocationsAre DEF IsPayment, Idle

LEMMA MovesPayments ==
    ASSUME Payments, NEW r \in Requests, Moves(r), IsPayment(req'[r])
    PROVE  Payments'
BY DEF Payments, Moves

\* A request that neither verifies nor debits may keep its allocations.
LEMMA PaymentKept ==
    ASSUME NEW x, IsPayment(x), NEW y, y.allocations = x.allocations,
           y.todo = x.todo, y.stage \notin {"verifying", "debiting", "paid"},
           y.stage = "ordered" => x.stage = "paid"
    PROVE  IsPayment(y)
BY DEF IsPayment

LEMMA EndPayments ==
    ASSUME Shape, Payments, NEW r \in Requests, End(r)
    PROVE  Payments'
BY EndMoves, IdleIsPayment, MovesPayments

LEMMA GotoPayments ==
    ASSUME Shape, Payments, NEW r \in Requests, NEW stage, Goto(r, stage),
           stage \notin {"verifying", "debiting", "paid"},
           stage = "ordered" => req[r].stage = "paid"
    PROVE  Payments'
<1>1. /\ req'[r].allocations = req[r].allocations
      /\ req'[r].todo = req[r].todo /\ req'[r].stage = stage
  BY DEF Shape, IsRequest, Goto
<1>2. IsPayment(req[r])
  BY DEF Payments
<1>3. IsPayment(req'[r])
  BY <1>1, <1>2, PaymentKept
<1> QED
  BY <1>3, GotoKeeps, MovesPayments DEF Keeps

\* What the preview page allocates is an amount of an account.
LEMMA AllocatePayments ==
    ASSUME TypeInv, NEW r \in Requests, Allocate(r)
    PROVE  Payments'
<1>1. /\ req[r].lines \in Lines /\ IsPayment(req[r])
  BY DEF TypeInv, Shape, IsRequest, Payments
<1>2. PICK a \in Accounts :
        req' = [req EXCEPT
          ![r].allocations =
             [c \in DOMAIN req[r].allocations \cup {a} |->
                IF c = a THEN Min({account[a].balance, Total(req[r].lines)})
                ELSE req[r].allocations[c]],
          ![r].stage = "saving"]
  BY DEF Allocate
<1>3. PICK m \in Int : m = Min({account[a].balance, Total(req[r].lines)})
  <2>1. account[a].balance \in Int /\ Total(req[r].lines) \in Int
    BY <1>1, TotalIsNat DEF TypeInv, TypedMoney, AccountRow
  <2>2. ASSUME NEW i \in Int, NEW j \in Int PROVE Min({i, j}) \in Int
    <3>1. \E x \in {i, j} : \A y \in {i, j} : x <= y
      BY <2>2
    <3> QED
      BY <2>2, <3>1 DEF Min
  <2> QED
    BY <2>1, <2>2
<1>4. PICK f : f = [c \in DOMAIN req[r].allocations \cup {a} |->
                      IF c = a THEN m ELSE req[r].allocations[c]]
  OBVIOUS
<1>5. req' = [req EXCEPT ![r].allocations = f, ![r].stage = "saving"]
  BY <1>2, <1>3, <1>4
<1>6. AreAllocations(f)
  <2>1. DOMAIN req[r].allocations \cup {a} \in SUBSET Accounts
    BY <1>1, AllocationsAre DEF IsPayment
  <2>2. f \in [DOMAIN req[r].allocations \cup {a} -> Int]
    BY <1>1, <1>4, AllocationsAre DEF IsPayment
  <2> QED
    BY <2>1, <2>2 DEF AreAllocations
<1>7. /\ req'[r].allocations = f /\ req'[r].todo = req[r].todo
      /\ req'[r].stage = "saving"
  BY <1>5 DEF TypeInv, Shape, IsRequest
<1>8. IsPayment(req'[r])
  BY <1>1, <1>4, <1>6, <1>7 DEF IsPayment
<1> QED
  BY <1>5, <1>8, AllocationsKeep, MovesPayments DEF TypeInv, Keeps

\* The checks of a submission: the sum, then one account after the other.
LEMMA CheckPayments ==
    ASSUME TypeInv, NEW r \in Requests, CheckAllocations(r)
    PROVE  Payments'
<1>1. CASE Goto(r, "refused")
  BY <1>1, GotoPayments DEF TypeInv
<1>2. CASE /\ Covered(r)
           /\ req' = [req EXCEPT ![r].stage = "verifying",
                                 ![r].todo = DOMAIN req[r].allocations]
  <2>1. /\ req'[r].allocations = req[r].allocations
        /\ req'[r].lines = req[r].lines /\ req'[r].stage = "verifying"
        /\ req'[r].todo = DOMAIN req[r].allocations
    BY <1>2 DEF TypeInv, Shape, IsRequest
  <2>2. IsPayment(req'[r])
    BY <1>2, <2>1 DEF TypeInv, Payments, IsPayment, Covered
  <2> QED
    BY <1>2, <2>2, StageAndTodoKeep, MovesPayments DEF TypeInv, Keeps
<1> QED
  BY <1>1, <1>2 DEF CheckAllocations

LEMMA VerifyPayments ==
    ASSUME TypeInv, NEW r \in Requests, NEW a \in Accounts, Verify(r, a)
    PROVE  Payments'
<1>1. IsPayment(req[r]) /\ req[r].stage = "verifying" /\ a \in req[r].todo
  BY DEF TypeInv, Payments, Verify
<1>2. CASE Goto(r, "refused")
  BY <1>2, GotoPayments DEF TypeInv
<1>3. CASE /\ ~Goto(r, "refused") /\ req[r].todo \ {a} # {}
  <2>1. /\ req' = [req EXCEPT ![r].todo = req[r].todo \ {a}]
        /\ 0 < req[r].allocations[a]
    BY <1>3 DEF Verify
  <2>2. /\ req'[r].allocations = req[r].allocations
        /\ req'[r].lines = req[r].lines /\ req'[r].stage = "verifying"
        /\ req'[r].todo = req[r].todo \ {a}
    BY <1>1, <2>1 DEF TypeInv, Shape, IsRequest
  <2>3. IsPayment(req'[r])
    BY <1>1, <2>1, <2>2 DEF IsPayment
  <2> QED
    BY <2>1, <2>3, TodoKeeps, MovesPayments DEF TypeInv, Keeps
<1>4. CASE /\ ~Goto(r, "refused") /\ req[r].todo \ {a} = {}
  <2>1. /\ req' = [req EXCEPT ![r].stage = "debiting",
                              ![r].todo = DOMAIN req[r].allocations]
        /\ 0 < req[r].allocations[a]
    BY <1>4 DEF Verify
  <2>2. /\ req'[r].allocations = req[r].allocations
        /\ req'[r].lines = req[r].lines /\ req'[r].stage = "debiting"
        /\ req'[r].todo = DOMAIN req[r].allocations
    BY <1>1, <2>1 DEF TypeInv, Shape, IsRequest
  <2>3. IsPayment(req'[r])
    BY <1>1, <1>4, <2>1, <2>2 DEF IsPayment
  <2> QED
    BY <2>1, <2>3, StageAndTodoKeep, MovesPayments DEF TypeInv, Keeps
<1> QED
  BY <1>2, <1>3, <1>4

\* What a transfer does to the money and to the request that asks for it.
LEMMA DebitEffect ==
    ASSUME TypeInv, NEW r \in Requests, NEW a \in Accounts, Debit(r, a)
    PROVE  \E amount \in Nat, b \in BasketIds, stage \in {"debiting", "paid"} :
             /\ amount = req[r].allocations[a] /\ amount > 0 /\ b = req[r].basket
             /\ paid' = [paid EXCEPT ![b] = @ + amount]
             /\ account' = [account EXCEPT ![a].balance = @ - amount]
             /\ Keeps(r, stage) /\ req'[r].lines = req[r].lines
             /\ a \in req[r].todo /\ req'[r].todo = req[r].todo \ {a}
             /\ req'[r].allocations = req[r].allocations
             /\ stage = "paid" <=> req'[r].todo = {}
             /\ IsPayment(req[r]) /\ req[r].stage = "debiting"
<1>1. IsPayment(req[r]) /\ req[r].stage = "debiting" /\ a \in req[r].todo
  BY DEF TypeInv, Payments, Debit
<1>2. PICK amount \in Nat : amount = req[r].allocations[a] /\ amount > 0
  BY <1>1, AllocationsAre DEF IsPayment
<1>3. PICK b \in BasketIds : b = req[r].basket
  BY <1>1, AtWork DEF TypeInv, Early, Browsing
<1>4. PICK todo, stage : /\ todo = req[r].todo \ {a}
                         /\ stage = IF req[r].todo = {a} THEN "paid" ELSE "debiting"
  OBVIOUS
<1>5. stage \in {"debiting", "paid"} /\ (stage = "paid" <=> todo = {})
  BY <1>1, <1>4
<1>6. req' = [req EXCEPT ![r].todo = todo, ![r].stage = stage]
  BY <1>1, <1>4 DEF Debit, TypeInv, Shape, IsRequest
<1>7. Keeps(r, stage) /\ req'[r].lines = req[r].lines
  BY <1>6, TodoAndStageKeep DEF TypeInv
<1>8. req'[r].todo = todo /\ req'[r].allocations = req[r].allocations
  BY <1>6 DEF TypeInv, Shape, IsRequest
<1>9. /\ paid' = [paid EXCEPT ![b] = @ + amount]
      /\ account' = [account EXCEPT ![a].balance = @ - amount]
  BY <1>2, <1>3 DEF Debit
<1> QED
  BY <1>1, <1>2, <1>3, <1>4, <1>5, <1>7, <1>8, <1>9

LEMMA DebitPayments ==
    ASSUME TypeInv, NEW r \in Requests, NEW a \in Accounts, Debit(r, a)
    PROVE  Payments' /\ TypedMoney'
<1>1. PICK amount \in Nat, b \in BasketIds, stage \in {"debiting", "paid"} :
             /\ amount = req[r].allocations[a] /\ amount > 0 /\ b = req[r].basket
             /\ paid' = [paid EXCEPT ![b] = @ + amount]
             /\ account' = [account EXCEPT ![a].balance = @ - amount]
             /\ Keeps(r, stage) /\ req'[r].lines = req[r].lines
             /\ a \in req[r].todo /\ req'[r].todo = req[r].todo \ {a}
             /\ req'[r].allocations = req[r].allocations
             /\ stage = "paid" <=> req'[r].todo = {}
             /\ IsPayment(req[r]) /\ req[r].stage = "debiting"
  BY DebitEffect
<1>2. IsPayment(req'[r])
  BY <1>1 DEF IsPayment, Keeps
<1>3. TypedMoney'
  BY <1>1 DEF TypeInv, TypedMoney, AccountRow
<1> QED
  BY <1>1, <1>2, <1>3, MovesPayments DEF TypeInv, Keeps

\* Begin and Hold leave a request without a payment under way.
LEMMA BeginPayments ==
    ASSUME TypeInv, NEW r \in Requests, NEW kind \in Kind, Begin(r, kind)
    PROVE  Payments'
<1>1. /\ req'[r].allocations = session /\ req'[r].todo = {}
      /\ req'[r].stage = "asking" /\ Moves(r)
  BY DEF Begin, Idle, TypeInv, Shape, Moves
<1>2. IsPayment(req'[r])
  BY <1>1 DEF TypeInv, IsPayment
<1> QED
  BY <1>1, <1>2, MovesPayments DEF TypeInv

LEMMA HoldPayments ==
    ASSUME TypeInv, NEW r \in Requests, NEW b \in BasketIds, Hold(r, b)
    PROVE  Payments' /\ overlapped' \in {overlapped, overlapped \cup {b}}
<1>1. /\ req'[r].allocations = req[r].allocations
      /\ req'[r].todo = req[r].todo /\ req'[r].stage = "holding"
  BY DEF Hold, TypeInv, Shape, IsRequest
<1>2. IsPayment(req[r])
  BY DEF TypeInv, Payments
<1>3. IsPayment(req'[r])
  BY <1>1, <1>2, PaymentKept
<1> QED
  BY <1>3, HoldMoves, MovesPayments DEF TypeInv, Hold

LEMMA ReadLinesPayments ==
    ASSUME TypeInv, NEW r \in Requests, ReadLines(r)
    PROVE  Payments'
<1>1. CASE End(r)
  BY <1>1, EndPayments DEF TypeInv
<1>2. CASE ~End(r)
  <2>1. PICK lines, stage : /\ lines = basket[req[r].basket].lines
                            /\ stage = AfterLines[req[r].kind]
    OBVIOUS
  <2>2. req' = [req EXCEPT ![r].lines = lines, ![r].stage = stage]
    BY <1>2, <2>1 DEF ReadLines
  <2>3. stage \in {"rendering", "loaded", "validated"}
    BY <2>1 DEF ReadLines, At, AfterLines
  <2>4. /\ req'[r].allocations = req[r].allocations
        /\ req'[r].todo = req[r].todo /\ req'[r].stage = stage
    BY <2>2 DEF TypeInv, Shape, IsRequest
  <2>5. IsPayment(req[r])
    BY DEF TypeInv, Payments
  <2>6. IsPayment(req'[r])
    BY <2>3, <2>4, <2>5, PaymentKept
  <2> QED
    BY <2>2, <2>6, LinesKeep, MovesPayments DEF TypeInv, Keeps
<1> QED
  BY <1>1, <1>2

LEMMA MarkSubmittedPayments ==
    ASSUME TypeInv, NEW r \in Requests, MarkSubmitted(r)
    PROVE  Payments'
<1>1. /\ req'[r].allocations = NoAllocations
      /\ req'[r].todo = req[r].todo /\ req'[r].stage = "saving"
      /\ req[r].stage = "ordered"
  BY DEF MarkSubmitted, TypeInv, Shape, IsRequest
<1>2. IsPayment(req'[r])
  BY <1>1, NoAllocationsAre DEF TypeInv, Payments, IsPayment
<1> QED
  BY <1>2, AllocationsKeep, MovesPayments DEF MarkSubmitted, TypeInv, Keeps

LEMMA PaymentsStep ==
    ASSUME TypeInv, [Next]_vars
    PROVE  Payments'
<1> USE DEF TypeInv
<1>1. ASSUME NEW r \in Requests, NEW kind \in Kind, Begin(r, kind) PROVE Payments'
  BY <1>1, BeginPayments
<1>2. ASSUME NEW r \in Requests, GetBasket(r) PROVE Payments'
  BY <1>2, HoldPayments DEF GetBasket, OpenBaskets
<1>3. ASSUME NEW r \in Requests, NoBasket(r) PROVE Payments'
  BY <1>3, GotoPayments DEF NoBasket
<1>4. ASSUME NEW r \in Requests, CreateBasket(r) PROVE Payments'
  BY <1>4, HoldPayments DEF CreateBasket
<1>5. ASSUME NEW r \in Requests, NEW b \in BasketIds, Hold(r, b) PROVE Payments'
  BY <1>5, HoldPayments
<1>6. ASSUME NEW r \in Requests, End(r) PROVE Payments'
  BY <1>6, EndPayments
<1>7. ASSUME NEW r \in Requests, PlaceOrder(r) PROVE Payments'
  BY <1>6, <1>7, GotoPayments DEF PlaceOrder
<1>8. ASSUME NEW r \in Requests, PlaceApiOrder(r) PROVE Payments'
  BY <1>6, <1>8, GotoPayments DEF PlaceApiOrder
<1>9. ASSUME NEW r \in Requests, Freeze(r) \/ PaymentFails(r) \/ Thaw(r) PROVE Payments'
  BY <1>9, GotoPayments DEF Freeze, PaymentFails, Thaw
<1>10. ASSUME NEW r \in Requests, NEW a \in Accounts, Verify(r, a) \/ Debit(r, a)
       PROVE  Payments'
  BY <1>10, VerifyPayments, DebitPayments
<1>11. ASSUME UNCHANGED req PROVE Payments'
  BY <1>11 DEF Payments
<1> QED
  BY <1>1, <1>2, <1>3, <1>4, <1>5, <1>6, <1>7, <1>8, <1>9, <1>10, <1>11,
     ReadLinesPayments, AllocatePayments, CheckPayments, MarkSubmittedPayments
     DEF Next, Step, AddProduct, AddNothing, NothingToAllocate, SaveSession,
         ParseBasket, FreezeOrdered, Fail, AccountChanges, vars

LEMMA SessionStep ==
    ASSUME TypeInv, [Next]_vars
    PROVE  AreAllocations(session')
<1>1. \A r \in Requests : AreAllocations(req[r].allocations)
  BY DEF TypeInv, Payments, IsPayment
<1>2. session' = session \/ \E r \in Requests : session' = req[r].allocations
  BY DEF Next, Step, Begin, GetBasket, NoBasket, CreateBasket, AddProduct,
         AddNothing, ReadLines, Allocate, NothingToAllocate, SaveSession, Freeze,
         CheckAllocations, Verify, Debit, PaymentFails, Thaw, PlaceOrder,
         MarkSubmitted, ParseBasket, PlaceApiOrder, FreezeOrdered, Fail,
         AccountChanges, vars
<1> QED
  BY <1>1, <1>2 DEF TypeInv

LEMMA BoundsStep ==
    ASSUME TypeInv, [Next]_vars
    PROVE  TypedBounds'
<1>1. \A r \in Requests, kind \in Kind :
        Begin(r, kind) => /\ started < MaxRequests /\ started' = started + 1
                          /\ events' = events
  BY DEF Begin
<1>2. \A a \in Accounts :
        AccountChanges(a) => /\ events < MaxEvents /\ events' = events + 1
                             /\ started' = started
  BY DEF AccountChanges
<1>3. \A r \in Requests : Step(r) \/ Fail(r) => UNCHANGED Bounds
  BY DEF Step, GetBasket, NoBasket, CreateBasket, AddProduct,
         AddNothing, ReadLines, Allocate, NothingToAllocate, SaveSession, Freeze,
         CheckAllocations, Verify, Debit, PaymentFails, Thaw, PlaceOrder,
         MarkSubmitted, ParseBasket, PlaceApiOrder, FreezeOrdered, Fail
<1>4. UNCHANGED vars => UNCHANGED Bounds
  BY DEF vars, Bounds
<1>5. \/ UNCHANGED Bounds
      \/ \E r \in Requests, kind \in Kind : Begin(r, kind)
      \/ \E a \in Accounts : AccountChanges(a)
  BY <1>3, <1>4 DEF Next
<1> QED
  BY <1>1, <1>2, <1>5, CheckoutAssumption DEF TypeInv, TypedBounds, Bounds

LEMMA MoneyStep ==
    ASSUME TypeInv, [Next]_vars
    PROVE  TypedMoney'
<1>1. \/ UNCHANGED Money
      \/ \E r \in Requests, a \in Accounts : Debit(r, a)
      \/ \E a \in Accounts : AccountChanges(a)
  BY DEF Next, Step, Begin, GetBasket, NoBasket, CreateBasket, AddProduct,
         AddNothing, ReadLines, Allocate, NothingToAllocate, SaveSession, Freeze,
         CheckAllocations, Verify, PaymentFails, Thaw, PlaceOrder,
         MarkSubmitted, ParseBasket, PlaceApiOrder, FreezeOrdered, Fail, vars, Money
<1>2. ASSUME NEW a \in Accounts, AccountChanges(a) PROVE TypedMoney'
  <2>1. paid' = paid
    BY <1>2 DEF AccountChanges
  <2>2. CASE \/ account' = [account EXCEPT ![a].open = ~@]
             \/ account' = [account EXCEPT ![a].current = ~@]
    BY <2>1, <2>2 DEF TypeInv, TypedMoney, AccountRow
  <2>3. ASSUME NEW amount \in {-1, 1}, account' = [account EXCEPT ![a].balance = @ + amount]
        PROVE  TypedMoney'
    BY <2>1, <2>3 DEF TypeInv, TypedMoney, AccountRow
  <2> QED
    BY <1>2, <2>2, <2>3 DEF AccountChanges
<1>3. UNCHANGED Money => TypedMoney'
  BY DEF TypeInv, TypedMoney, Money
<1> QED
  BY <1>1, <1>2, <1>3, DebitPayments

\* A status that is written leaves the tables well typed.
LEMMA StatusTyped ==
    ASSUME TypeInv, NEW b \in BasketIds, NEW status \in Status,
           basket' = [basket EXCEPT ![b].status = status], UNCHANGED order
    PROVE  /\ basket' \in [BasketIds -> [status : Status, lines : Lines]]
           /\ order' \in [BasketIds -> Lines \cup {NoOrder}]
BY DEF TypeInv, TypedShop

LEMMA ShopStep ==
    ASSUME TypeInv, [Next]_vars
    PROVE  TypedShop'
<1> DEFINE Rows == /\ basket \in [BasketIds -> [status : Status, lines : Lines]]
                   /\ order \in [BasketIds -> Lines \cup {NoOrder}]
<1>a. ASSUME NEW r \in Requests, req[r].stage \notin Early
      PROVE  req[r].basket \in BasketIds /\ req[r].lines \in Lines
  BY <1>a DEF TypeInv, Shape, IsRequest
<1>b. ASSUME NEW r \in Requests, NEW status \in Status, req[r].stage \notin Early,
             basket' = [basket EXCEPT ![req[r].basket].status = status],
             UNCHANGED order
      PROVE  Rows'
  BY <1>a, <1>b, StatusTyped
<1>c. UNCHANGED Shop => Rows'
  BY DEF TypeInv, TypedShop, Shop
<1> USE DEF Status, Early
<1>1. ASSUME NEW r \in Requests, GetBasket(r) PROVE Rows'
  <2>1. PICK b \in BasketIds : /\ b \in OpenBaskets
          /\ basket' = [c \in BasketIds |->
               IF c \notin OpenBaskets THEN basket[c]
               ELSE IF c = b
                 THEN [basket[b] EXCEPT !.lines = MergedLines(OpenBaskets)]
                 ELSE [status |-> "Merged", lines |-> NoLines]]
    BY <1>1 DEF GetBasket, OpenBaskets
  <2>2. MergedLines(OpenBaskets) \in Lines
    BY <2>1, MergedAreLines, CheckoutAssumption DEF TypeInv, Shape, Tables, OpenBaskets
  <2>3. NoLines \in Lines
    BY CheckoutAssumption DEF NoLines, Lines
  <2> HIDE DEF OpenBaskets
  <2> QED
    BY <1>1, <2>1, <2>2, <2>3 DEF GetBasket, TypeInv, TypedShop
<1>2. ASSUME NEW r \in Requests, CreateBasket(r) PROVE Rows'
  BY <1>2, StatusTyped DEF CreateBasket
<1>3. ASSUME NEW r \in Requests, AddProduct(r) PROVE Rows'
  <2>1. PICK b, lines : basket' = [basket EXCEPT ![b].lines = lines]
    BY <1>3 DEF AddProduct
  <2>2. basket'[b].lines \in Lines \/ b \notin BasketIds
    BY <1>3, AddProductTables DEF TypeInv, Tables
  <2> QED
    BY <1>3, <2>1, <2>2 DEF AddProduct, TypeInv, TypedShop
<1>4. ASSUME NEW r \in Requests,
             Freeze(r) \/ Thaw(r) \/ MarkSubmitted(r) \/ FreezeOrdered(r)
      PROVE  Rows'
  BY <1>b, <1>4 DEF Freeze, Thaw, MarkSubmitted, FreezeOrdered
<1>5. ASSUME NEW r \in Requests, PlaceOrder(r) \/ PlaceApiOrder(r) PROVE Rows'
  <2>1. req[r].basket \in BasketIds /\ req[r].lines \in Lines
    BY <1>a, <1>5 DEF PlaceOrder, PlaceApiOrder
  <2>2. /\ UNCHANGED basket
        /\ \/ UNCHANGED order
           \/ order' = [order EXCEPT ![req[r].basket] = req[r].lines]
    BY <1>5 DEF PlaceOrder, PlaceApiOrder
  <2> QED
    BY <2>1, <2>2 DEF TypeInv, TypedShop, Shape, Tables
<1>6. Rows'
  BY <1>c, <1>1, <1>2, <1>3, <1>4, <1>5
     DEF Next, Step, Begin, NoBasket, AddNothing, ReadLines, Allocate,
         NothingToAllocate, SaveSession, CheckAllocations, Verify, Debit,
         PaymentFails, ParseBasket, Fail, AccountChanges, vars, Shop
<1>7. /\ overlapped' = overlapped \/ \E b \in BasketIds : overlapped' = overlapped \cup {b}
      /\ \/ interrupted' = interrupted
         \/ \E r \in Requests : /\ req[r].stage \notin Early
                                /\ interrupted' = interrupted \cup {req[r].basket}
  <2> HIDE DEF Early
  <2>1. \A r \in Requests, b \in BasketIds :
          Hold(r, b) => overlapped' \in {overlapped, overlapped \cup {b}}
    BY HoldPayments
  <2>2. ASSUME NEW r \in Requests,
               GetBasket(r) \/ CreateBasket(r) \/ ParseBasket(r)
        PROVE  /\ interrupted' = interrupted
               /\ \/ overlapped' = overlapped
                  \/ \E b \in BasketIds : overlapped' = overlapped \cup {b}
    BY <2>1, <2>2 DEF GetBasket, CreateBasket, ParseBasket, OpenBaskets
  <2>3. ASSUME NEW r \in Requests, PaymentFails(r) \/ Fail(r)
        PROVE  /\ overlapped' = overlapped
               /\ \/ interrupted' = interrupted
                  \/ /\ req[r].stage \notin Early
                     /\ interrupted' = interrupted \cup {req[r].basket}
    BY <2>3 DEF PaymentFails, Fail, Early
  <2> QED
    BY <2>2, <2>3
       DEF Next, Step, Begin, NoBasket, AddProduct, AddNothing, ReadLines, Allocate,
         NothingToAllocate, SaveSession, Freeze, CheckAllocations, Verify, Debit,
         Thaw, PlaceOrder, MarkSubmitted, PlaceApiOrder, FreezeOrdered,
         AccountChanges, vars, History
<1>8. overlapped' \subseteq BasketIds /\ interrupted' \subseteq BasketIds
  BY <1>a, <1>7 DEF TypeInv, TypedShop
<1> QED
  BY <1>6, <1>8 DEF TypedShop

LEMMA InitTypes == Init => TypeInv
<1> SUFFICES ASSUME Init PROVE TypeInv
  OBVIOUS
<1>1. Payments
  BY IdleIsPayment DEF Init, Payments
<1>2. TypedShop
  BY CheckoutAssumption DEF Init, TypedShop, Status, NoLines, Lines
<1>3. TypedMoney /\ TypedBounds
  BY CheckoutAssumption DEF Init, TypedMoney, TypedBounds
<1> QED
  BY <1>1, <1>2, <1>3, InitShape, NoAllocationsAre DEF Init, TypeInv

LEMMA TypeStep ==
    ASSUME TypeInv, [Next]_vars
    PROVE  TypeInv'
BY ShapeStep, PaymentsStep, SessionStep, BoundsStep, MoneyStep, ShopStep
   DEF TypeInv

\* Every table, request and history variable holds what the code can put there,
\* whatever is bought, in however many tabs.
THEOREM TypeCorrect == Spec => []TypeOK
<1>1. Init => TypeInv
  BY InitTypes
<1>2. TypeInv /\ [Next]_vars => TypeInv'
  BY TypeStep
<1>3. TypeInv => TypeOK
  <2> SUFFICES ASSUME TypeInv PROVE TypeOK
    OBVIOUS
  <2>1. \A r \in Requests :
         /\ DOMAIN req[r] = DOMAIN Idle
         /\ req[r].kind \in Kind /\ req[r].stage \in Stage
         /\ req[r].basket \in BasketIds \cup {0} /\ req[r].lines \in Lines
         /\ AreAllocations(req[r].allocations)
         /\ req[r].todo \in SUBSET DOMAIN req[r].allocations
    BY DEF TypeInv, Shape, IsRequest, Payments, IsPayment, Idle
  <2> QED
    BY <2>1
       DEF TypeInv, TypeOK, Shape, Tables, TypedShop, TypedMoney, TypedBounds
<1> QED
  BY <1>1, <1>2, <1>3, PTL DEF Spec

(***************************************************************************)
(* Orders are paid.                                                        *)
(***************************************************************************)

\* While a submission debits, and until it has ordered, what carries the number
\* of its basket is at least what it has taken.
Covering(x, sum) ==
    /\ x.stage = "debiting" => sum >= Done(x)
    /\ x.stage = "paid" => sum >= Total(x.lines)

Covers == \A r \in Requests : Covering(req[r], paid[req[r].basket])

PaidInv == TypeInv /\ Covers /\ OrdersArePaid

\* The stage of a request that moves, unless it is gateway.redeem that moves it.
LEMMA OnwardStages ==
    ASSUME TypeInv, [Next]_vars
    PROVE  \/ UNCHANGED req
           \/ \E r \in Requests :
                /\ Moves(r)
                /\ \/ req'[r].stage \notin {"debiting", "paid"}
                   \/ \E a \in Accounts : Verify(r, a) \/ Debit(r, a)
<1> DEFINE Onward(r) == Moves(r) /\ req'[r].stage \notin {"debiting", "paid"}
<1>s. Shape
  BY DEF TypeInv
<1>1. ASSUME NEW r \in Requests, NEW kind \in Kind, Begin(r, kind) PROVE Onward(r)
  BY <1>1, <1>s DEF Begin, Idle, Shape, Moves
<1>2. ASSUME NEW r \in Requests, NEW b \in BasketIds, Hold(r, b) PROVE Onward(r)
  BY <1>2, <1>s, HoldMoves
<1>3. ASSUME NEW r \in Requests, End(r) PROVE Onward(r)
  BY <1>3, <1>s, EndMoves DEF Idle
<1>4. ASSUME NEW r \in Requests, NEW stage, Keeps(r, stage),
             stage \notin {"debiting", "paid"}
      PROVE  Onward(r)
  BY <1>4 DEF Keeps
<1>5. ASSUME NEW r \in Requests, NEW stage, Goto(r, stage),
             stage \notin {"debiting", "paid"}
      PROVE  Onward(r)
  BY <1>4, <1>5, <1>s, GotoKeeps
<1>6. ASSUME NEW r \in Requests, ReadLines(r) PROVE Onward(r)
  <2>1. PICK lines, stage : /\ lines = basket[req[r].basket].lines
                            /\ stage = AfterLines[req[r].kind]
    OBVIOUS
  <2>2. \/ End(r)
        \/ req' = [req EXCEPT ![r].lines = lines, ![r].stage = stage]
    BY <1>6, <2>1 DEF ReadLines
  <2>3. stage \in {"rendering", "loaded", "validated"}
    BY <1>6, <2>1 DEF ReadLines, At, AfterLines
  <2> QED
    BY <1>3, <1>4, <1>s, <2>2, <2>3, LinesKeep
<1>7. ASSUME NEW r \in Requests, Allocate(r) \/ MarkSubmitted(r) PROVE Onward(r)
  <2>1. Keeps(r, "saving")
    BY <1>7, <1>s, AllocationsKeep DEF Allocate, MarkSubmitted
  <2> QED
    BY <1>4, <2>1
<1>8. ASSUME NEW r \in Requests, CheckAllocations(r) PROVE Onward(r)
  BY <1>4, <1>8, <1>s, CheckKeeps
<1>9. ASSUME NEW r \in Requests, GetBasket(r) \/ CreateBasket(r) \/ ParseBasket(r)
      PROVE  Onward(r)
  BY <1>2, <1>3, <1>9 DEF GetBasket, CreateBasket, ParseBasket, OpenBaskets
<1>10. ASSUME NEW r \in Requests,
              NoBasket(r) \/ Freeze(r) \/ PaymentFails(r) \/ Thaw(r)
       PROVE  Onward(r)
  BY <1>5, <1>10 DEF NoBasket, Freeze, PaymentFails, Thaw
<1>11. ASSUME NEW r \in Requests, PlaceOrder(r) \/ PlaceApiOrder(r) PROVE Onward(r)
  BY <1>3, <1>5, <1>11 DEF PlaceOrder, PlaceApiOrder
<1>12. ASSUME NEW r \in Requests,
              \/ AddProduct(r) \/ AddNothing(r) \/ NothingToAllocate(r)
              \/ SaveSession(r) \/ FreezeOrdered(r) \/ Fail(r)
       PROVE  Onward(r)
  BY <1>3, <1>12 DEF AddProduct, AddNothing, NothingToAllocate, SaveSession,
                     FreezeOrdered, Fail
<1>13. ASSUME NEW r \in Requests, NEW a \in Accounts, Verify(r, a) \/ Debit(r, a)
       PROVE  Moves(r)
  BY <1>13, <1>s, VerifyKeeps, DebitKeeps DEF Keeps
<1>14. (\E a \in Accounts : AccountChanges(a)) \/ UNCHANGED vars => UNCHANGED req
  BY DEF AccountChanges, vars
<1> HIDE DEF Onward
<1>15. ASSUME NEW r \in Requests, Step(r)
       PROVE  Onward(r) \/ \E a \in Accounts : Verify(r, a) \/ Debit(r, a)
  BY <1>6, <1>7, <1>8, <1>9, <1>10, <1>11, <1>12, <1>15 DEF Step
<1>16. \/ UNCHANGED req
       \/ \E r \in Requests :
            Onward(r) \/ \E a \in Accounts : Verify(r, a) \/ Debit(r, a)
  BY <1>1, <1>12, <1>14, <1>15 DEF Next
<1> QED
  BY <1>13, <1>16 DEF Onward

\* Transfers are never taken back.
LEMMA PaidGrows ==
    ASSUME TypeInv, [Next]_vars
    PROVE  \A b \in BasketIds : /\ paid[b] \in Nat /\ paid'[b] \in Nat
                                /\ paid'[b] >= paid[b]
<1>1. \/ UNCHANGED paid
      \/ \E r \in Requests, a \in Accounts : Debit(r, a)
  BY DEF Next, Step, Begin, GetBasket, NoBasket, CreateBasket, AddProduct,
         AddNothing, ReadLines, Allocate, NothingToAllocate, SaveSession, Freeze,
         CheckAllocations, Verify, PaymentFails, Thaw, PlaceOrder,
         MarkSubmitted, ParseBasket, PlaceApiOrder, FreezeOrdered, Fail,
         AccountChanges, vars, Money
<1>2. ASSUME NEW r \in Requests, NEW a \in Accounts, Debit(r, a)
      PROVE  \E amount \in Nat, b \in BasketIds : paid' = [paid EXCEPT ![b] = @ + amount]
  BY <1>2, DebitEffect
<1> QED
  BY <1>1, <1>2 DEF TypeInv, TypedMoney

LEMMA CoversOthers ==
    ASSUME PaidInv, [Next]_vars, NEW q \in Requests, req'[q] = req[q]
    PROVE  Covering(req'[q], paid'[req'[q].basket])
<1>1. CASE req[q].stage \in {"debiting", "paid"}
  <2>1. IsRequest(req[q]) /\ IsPayment(req[q])
    BY DEF PaidInv, TypeInv, Shape, Payments
  <2>2. req[q].basket \in BasketIds
    BY <1>1, <2>1 DEF IsRequest, Early
  <2>3. Done(req[q]) \in Int /\ Total(req[q].lines) \in Nat
    BY <2>1, DoneIsInt, TotalIsNat DEF IsRequest, IsPayment
  <2>4. Covering(req[q], paid[req[q].basket])
    BY DEF PaidInv, Covers
  <2>5. PICK old \in Nat, new \in Nat : /\ old = paid[req[q].basket]
                                        /\ new = paid'[req[q].basket]
                                        /\ new >= old
    BY <2>2, PaidGrows DEF PaidInv
  <2> QED
    BY <2>3, <2>4, <2>5 DEF Covering
<1>2. CASE req[q].stage \notin {"debiting", "paid"}
  BY <1>2 DEF Covering
<1> QED
  BY <1>1, <1>2

LEMMA CoversMoves ==
    ASSUME PaidInv, [Next]_vars, NEW r \in Requests, Moves(r),
           Covering(req'[r], paid'[req'[r].basket])
    PROVE  Covers'
BY CoversOthers DEF Covers, Moves

\* gateway.redeem, from the first transfer to the last.
LEMMA RedeemCovers ==
    ASSUME PaidInv, NEW r \in Requests, NEW a \in Accounts, [Next]_vars,
           Verify(r, a) \/ Debit(r, a)
    PROVE  Covers'
<1>1. CASE Verify(r, a)
  <2>1. PICK stage \in {"verifying", "refused", "debiting"} : Keeps(r, stage)
    BY <1>1, VerifyKeeps DEF PaidInv, TypeInv
  <2>2. CASE stage # "debiting"
    BY <2>1, <2>2, CoversMoves DEF Keeps, Covering
  <2>3. CASE stage = "debiting"
    <3>1. req[r].basket \in BasketIds /\ req[r].stage = "verifying"
      BY <1>1, AtWork DEF PaidInv, TypeInv, Verify, Early, Browsing
    <3>2. req' = [req EXCEPT ![r].stage = "debiting",
                             ![r].todo = DOMAIN req[r].allocations]
      <4>1. ~Goto(r, "refused")
        BY <2>1, <2>3, GotoKeeps DEF PaidInv, TypeInv, Keeps
      <4>2. req' # [req EXCEPT ![r].todo = req[r].todo \ {a}]
        BY <2>1, <2>3, <3>1 DEF PaidInv, TypeInv, Shape, IsRequest, Keeps
      <4> QED
        BY <1>1, <4>1, <4>2 DEF Verify
    <3>3. /\ req'[r].todo = DOMAIN req'[r].allocations
          /\ req'[r].stage = "debiting"
      BY <3>2 DEF PaidInv, TypeInv, Shape, IsRequest
    <3>4. Done(req'[r]) = 0
      BY <3>3, NothingDone
    <3>5. paid'[req'[r].basket] >= 0
      BY <2>1, <3>1, PaidGrows DEF Keeps, PaidInv
    <3>6. Covering(req'[r], paid'[req'[r].basket])
      BY <3>3, <3>4, <3>5 DEF Covering
    <3> QED
      BY <2>1, <3>6, CoversMoves DEF Keeps
  <2> QED
    BY <2>2, <2>3
<1>2. CASE Debit(r, a)
  <2>1. PICK amount \in Nat, b \in BasketIds, stage \in {"debiting", "paid"} :
             /\ amount = req[r].allocations[a] /\ amount > 0 /\ b = req[r].basket
             /\ paid' = [paid EXCEPT ![b] = @ + amount]
             /\ account' = [account EXCEPT ![a].balance = @ - amount]
             /\ Keeps(r, stage) /\ req'[r].lines = req[r].lines
             /\ a \in req[r].todo /\ req'[r].todo = req[r].todo \ {a}
             /\ req'[r].allocations = req[r].allocations
             /\ stage = "paid" <=> req'[r].todo = {}
             /\ IsPayment(req[r]) /\ req[r].stage = "debiting"
    BY <1>2, DebitEffect DEF PaidInv
  <2>2. /\ Done(req[r]) \in Int
        /\ Done(req'[r]) = amount + Done(req[r])
    BY <2>1, OneMoreDone DEF IsPayment
  <2>3. paid[b] \in Nat /\ paid'[b] = paid[b] + amount /\ paid[b] >= Done(req[r])
    BY <2>1 DEF PaidInv, TypeInv, TypedMoney, Covers, Covering
  <2>4. paid'[b] >= Done(req'[r])
    BY <2>2, <2>3
  <2>5. stage = "paid" => Done(req'[r]) = Total(req'[r].lines)
    BY <2>1, AllDone DEF IsPayment
  <2>6. Covering(req'[r], paid'[req'[r].basket])
    BY <2>1, <2>4, <2>5 DEF Covering, Keeps
  <2> QED
    BY <2>1, <2>6, CoversMoves DEF Keeps
<1> QED
  BY <1>1, <1>2

LEMMA CoversStep ==
    ASSUME PaidInv, [Next]_vars
    PROVE  Covers'
<1>1. CASE UNCHANGED req
  BY <1>1, CoversOthers DEF Covers
<1>2. ASSUME NEW r \in Requests, Moves(r), req'[r].stage \notin {"debiting", "paid"}
      PROVE  Covers'
  BY <1>2, CoversMoves DEF Covering
<1> QED
  BY <1>1, <1>2, OnwardStages, RedeemCovers DEF PaidInv

\* An order of the site is placed by a submission that has paid for it.
LEMMA OrdersPaidStep ==
    ASSUME PaidInv, [Next]_vars
    PROVE  OrdersArePaid'
<1> SUFFICES ASSUME NEW b \in BasketIds, order'[b] # NoOrder, b \notin viaApi'
             PROVE  paid'[b] >= Total(order'[b])
  BY DEF OrdersArePaid
<1>1. /\ paid[b] \in Nat /\ paid'[b] \in Nat /\ paid'[b] >= paid[b]
  BY PaidGrows DEF PaidInv
<1>2. CASE order'[b] = order[b] /\ b \notin viaApi
  <2>1. order[b] \in Lines /\ paid[b] >= Total(order[b])
    BY <1>2 DEF PaidInv, OrdersArePaid, TypeInv, TypedShop
  <2>2. Total(order[b]) \in Nat
    BY <2>1, TotalIsNat
  <2> QED
    BY <1>1, <1>2, <2>1, <2>2
<1>3. ASSUME NEW r \in Requests, PlaceOrder(r), order'[b] # order[b]
      PROVE  paid'[b] >= Total(order'[b])
  <2>1. /\ order'[b] = req[r].lines /\ b = req[r].basket /\ req[r].stage = "paid"
        /\ paid' = paid
    BY <1>3 DEF PlaceOrder, Money, PaidInv, TypeInv, TypedShop
  <2> QED
    BY <2>1 DEF PaidInv, Covers, Covering
<1>4. ASSUME NEW r \in Requests, PlaceApiOrder(r)
      PROVE  order'[b] = order[b] /\ b \notin viaApi
  BY <1>4 DEF PlaceApiOrder, PaidInv, TypeInv, TypedShop
<1>5. ASSUME UNCHANGED <<order, viaApi>> PROVE paid'[b] >= Total(order'[b])
  BY <1>2, <1>5
<1>6. \A r \in Requests : PlaceOrder(r) => UNCHANGED viaApi
  BY DEF PlaceOrder, History
<1>7. \A r \in Requests :
        Step(r) => \/ UNCHANGED <<order, viaApi>>
                   \/ PlaceOrder(r) \/ PlaceApiOrder(r)
  BY DEF Step, GetBasket, NoBasket, CreateBasket, AddProduct,
         AddNothing, ReadLines, Allocate, NothingToAllocate, SaveSession, Freeze,
         CheckAllocations, Verify, Debit, PaymentFails, Thaw,
         MarkSubmitted, ParseBasket, FreezeOrdered, Shop, History
<1>8. \/ UNCHANGED <<order, viaApi>>
      \/ \E r \in Requests : PlaceOrder(r) \/ PlaceApiOrder(r)
  BY <1>7 DEF Next, Begin, Fail, AccountChanges, vars, Shop, History
<1> QED
  BY <1>2, <1>3, <1>4, <1>5, <1>6, <1>8

\* No order of the site without its money, whatever overlaps, fails or is
\* stale: the transfers that carry the number of an order cover what it orders.
\* Orders of the REST interface are the only unpaid ones.
THEOREM NoOrderUnpaid == Spec => []OrdersArePaid
<1>1. Init => PaidInv
  <2> SUFFICES ASSUME Init PROVE PaidInv
    OBVIOUS
  <2>1. Covers /\ OrdersArePaid
    BY DEF Init, Idle, Covers, Covering, OrdersArePaid
  <2> QED
    BY <2>1, InitTypes DEF PaidInv
<1>2. PaidInv /\ [Next]_vars => PaidInv'
  BY TypeStep, CoversStep, OrdersPaidStep DEF PaidInv
<1>3. PaidInv => OrdersArePaid
  BY DEF PaidInv
<1> QED
  BY <1>1, <1>2, <1>3, PTL DEF Spec

(***************************************************************************)
(* The customer is charged exactly.                                        *)
(***************************************************************************)

\* What a basket that is left alone should have cost when nobody submits it,
\* and what it has cost while somebody does.
Due(b) == IF order[b] = NoOrder \/ b \in viaApi THEN 0 ELSE Total(order[b])
Taken(x, due) == IF x.stage = "debiting" THEN Done(x)
                 ELSE IF x.stage = "paid" THEN Total(x.lines) ELSE due

ChargedOf(b) ==
    /\ Quiet(b) => paid[b] = Due(b)
    /\ \A r \in Requests : Submitting(r, b) => paid[b] = Taken(req[r], Due(b))

Charged == \A b \in BasketIds : b \notin overlapped \cup interrupted => ChargedOf(b)

ChargedInv == TypeInv /\ Truth /\ Charged

\* No money and no order of b changes hands.
Keeping(b) == paid'[b] = paid[b] /\ Due(b)' = Due(b)

\* A step of a request that has nothing to do with b.
LEMMA ChargedElsewhere ==
    ASSUME NEW b \in BasketIds, NEW r \in Requests, Moves(r), Keeping(b),
           ChargedOf(b), ~Submitting(r, b), ~Submitting(r, b)'
    PROVE  ChargedOf(b)'
<1>1. \A q \in Requests : /\ Submitting(q, b)' <=> Submitting(q, b)
                          /\ Submitting(q, b) => req'[q] = req[q]
  BY DEF Moves, Submitting
<1> QED
  BY <1>1 DEF ChargedOf, Keeping, Quiet, Taken

\* A step of b's only submission that goes on with it.
LEMMA ChargedOnward ==
    ASSUME NEW b \in BasketIds, NEW r \in Requests, NEW stage, Keeps(r, stage),
           stage # "idle", TruthOf(b), Submitting(r, b),
           paid'[b] = Taken(req'[r], Due(b)')
    PROVE  ChargedOf(b)'
<1>1. \A q \in Requests : Submitting(q, b)' <=> q = r
  BY DEF Keeps, Moves, Submitting, TruthOf
<1> QED
  BY <1>1 DEF ChargedOf, Quiet

\* b's only submission ends.
LEMMA ChargedAtTheEnd ==
    ASSUME Shape, NEW b \in BasketIds, NEW r \in Requests, End(r), Keeping(b),
           TruthOf(b), ChargedOf(b), Submitting(r, b),
           req[r].stage \notin {"debiting", "paid"}
    PROVE  ChargedOf(b)'
<1>1. \A q \in Requests : ~Submitting(q, b)'
  BY EndMoves DEF Moves, Submitting, TruthOf, Idle
<1>2. paid[b] = Due(b)
  BY DEF ChargedOf, Taken
<1> QED
  BY <1>1, <1>2 DEF ChargedOf, Keeping

\* A submission takes hold of b, which nobody else submits.
LEMMA ChargedAtTheStart ==
    ASSUME Shape, NEW b \in BasketIds, NEW r \in Requests, Hold(r, b), Keeping(b),
           req[r].stage \in Early, ChargedOf(b), b \notin overlapped'
    PROVE  ChargedOf(b)'
<1>1. ~Submitting(r, b)
  BY DEF Shape, IsRequest, Submitting, BasketIds
<1>2. CASE req[r].kind \notin Ordering
  BY <1>1, <1>2, HoldMoves, ChargedElsewhere DEF Submitting
<1>3. CASE req[r].kind \in Ordering
  <2>1. \A q \in Requests : ~Submitting(q, b)
    BY <1>3 DEF Hold
  <2>2. paid[b] = Due(b)
    BY <2>1 DEF ChargedOf, Quiet
  <2>3. \A q \in Requests : /\ Submitting(q, b)' <=> q = r
                            /\ req'[r].stage = "holding"
    BY <1>3, <2>1, HoldMoves DEF Moves, Submitting
  <2> QED
    BY <2>2, <2>3 DEF ChargedOf, Quiet, Keeping, Taken
<1> QED
  BY <1>2, <1>3

Kept == \A b \in BasketIds : Keeping(b)

LEMMA NothingChangesHands == UNCHANGED <<paid, order, viaApi>> => Kept
BY DEF Kept, Keeping, Due

\* A step that leaves money and orders alone, of a request that is not just
\* taking money.
LEMMA ChargedGoesOn ==
    ASSUME ChargedInv, Quieter, Kept, NEW r \in Requests, NEW stage,
           Keeps(r, stage), req[r].stage \notin {"idle", "debiting", "paid"},
           stage \notin {"idle", "debiting", "paid"}
    PROVE  Charged'
<1> SUFFICES ASSUME NEW b \in BasketIds, b \notin overlapped' \cup interrupted'
             PROVE  ChargedOf(b)'
  BY DEF Charged
<1>1. TruthOf(b) /\ ChargedOf(b) /\ Keeping(b)
  BY DEF ChargedInv, Truth, Charged, Quieter, Kept
<1>2. CASE Submitting(r, b)
  <2>1. paid[b] = Due(b)
    BY <1>1, <1>2 DEF ChargedOf, Taken
  <2>2. paid'[b] = Taken(req'[r], Due(b)')
    BY <1>1, <2>1 DEF Keeping, Keeps, Taken
  <2> QED
    BY <1>1, <1>2, <2>2, ChargedOnward
<1>3. CASE ~Submitting(r, b)
  BY <1>1, <1>3, ChargedElsewhere DEF Keeps, Submitting
<1> QED
  BY <1>2, <1>3

LEMMA ChargedEnds ==
    ASSUME ChargedInv, Quieter, Kept, NEW r \in Requests, End(r),
           \A b \in BasketIds :
             Submitting(r, b) /\ b \notin overlapped' \cup interrupted'
               => req[r].stage \notin {"debiting", "paid"}
    PROVE  Charged'
<1> SUFFICES ASSUME NEW b \in BasketIds, b \notin overlapped' \cup interrupted'
             PROVE  ChargedOf(b)'
  BY DEF Charged
<1>1. TruthOf(b) /\ ChargedOf(b) /\ Keeping(b) /\ Shape
  BY DEF ChargedInv, TypeInv, Truth, Charged, Quieter, Kept
<1>2. CASE Submitting(r, b)
  BY <1>1, <1>2, ChargedAtTheEnd
<1>3. CASE ~Submitting(r, b)
  BY <1>1, <1>3, EndMoves, ChargedElsewhere DEF Submitting, Idle
<1> QED
  BY <1>2, <1>3

LEMMA ChargedHolds ==
    ASSUME ChargedInv, Kept, UNCHANGED interrupted, NEW r \in Requests,
           NEW b \in BasketIds, Hold(r, b), req[r].stage \in Early
    PROVE  Charged'
<1> SUFFICES ASSUME NEW c \in BasketIds, c \notin overlapped' \cup interrupted'
             PROVE  ChargedOf(c)'
  BY DEF Charged
<1>1. ChargedOf(c) /\ Keeping(c) /\ Shape
  BY DEF ChargedInv, TypeInv, Charged, Kept, Hold
<1>2. CASE c = b
  BY <1>1, <1>2, ChargedAtTheStart
<1>3. CASE c # b
  <2>1. ~Submitting(r, c) /\ ~Submitting(r, c)'
    BY <1>1, <1>3, HoldMoves DEF Shape, IsRequest, Submitting, BasketIds
  <2> QED
    BY <1>1, <2>1, HoldMoves, ChargedElsewhere
<1> QED
  BY <1>2, <1>3

\* A step of a submission with the money or the order of its own basket.
LEMMA ChargedAlone ==
    ASSUME ChargedInv, Quieter, NEW r \in Requests, NEW stage, Keeps(r, stage),
           stage # "idle", NEW b \in BasketIds, Submitting(r, b),
           \A c \in BasketIds : c # b => Keeping(c),
           TruthOf(b) /\ ChargedOf(b) /\ b \notin overlapped' \cup interrupted'
             => paid'[b] = Taken(req'[r], Due(b)')
    PROVE  Charged'
<1> SUFFICES ASSUME NEW c \in BasketIds, c \notin overlapped' \cup interrupted'
             PROVE  ChargedOf(c)'
  BY DEF Charged
<1>1. TruthOf(c) /\ ChargedOf(c)
  BY DEF ChargedInv, Truth, Charged, Quieter
<1>2. CASE c = b
  BY <1>1, <1>2, ChargedOnward
<1>3. CASE c # b
  <2>1. ~Submitting(r, c) /\ ~Submitting(r, c)'
    BY <1>3 DEF Submitting, Keeps
  <2> QED
    BY <1>1, <1>3, <2>1, ChargedElsewhere DEF Keeps
<1> QED
  BY <1>2, <1>3

\* Before a submission has ordered, its basket has cost nothing that is due.
LEMMA NothingDue ==
    ASSUME NEW r \in Requests, NEW b \in BasketIds, Submitting(r, b), TruthOf(b),
           req[r].stage \in Unordered
    PROVE  Due(b) = 0 /\ order[b] = NoOrder
BY DEF TruthOf, Due

LEMMA VerifyCharged ==
    ASSUME ChargedInv, NEW r \in Requests, NEW a \in Accounts, Verify(r, a)
    PROVE  Charged'
<1>1. Kept /\ Quieter
  BY NothingChangesHands DEF Verify, Shop, Money, History, Quieter
<1>2. PICK stage \in {"verifying", "refused", "debiting"} : Keeps(r, stage)
  BY VerifyKeeps DEF ChargedInv, TypeInv
<1>3. CASE stage # "debiting"
  BY <1>1, <1>2, <1>3, ChargedGoesOn DEF Verify
<1>4. CASE stage = "debiting"
  <2>1. PICK b \in BasketIds : b = req[r].basket /\ Submitting(r, b)
    BY AtWork DEF ChargedInv, TypeInv, Verify, Early, Browsing
  <2>2. req[r].stage = "verifying"
    BY DEF Verify
  <2>3. req' = [req EXCEPT ![r].stage = "debiting",
                           ![r].todo = DOMAIN req[r].allocations]
    <3>1. ~Goto(r, "refused")
      BY <1>2, <1>4, GotoKeeps DEF ChargedInv, TypeInv, Keeps
    <3>2. req' # [req EXCEPT ![r].todo = req[r].todo \ {a}]
      BY <1>2, <1>4, <2>2 DEF ChargedInv, TypeInv, Shape, IsRequest, Keeps
    <3> QED
      BY <3>1, <3>2 DEF Verify
  <2>4. /\ req'[r].todo = DOMAIN req'[r].allocations
        /\ req'[r].stage = "debiting"
    BY <2>3 DEF ChargedInv, TypeInv, Shape, IsRequest
  <2>5. Taken(req'[r], Due(b)') = 0
    BY <2>4, NothingDone DEF Taken
  <2>6. TruthOf(b) /\ ChargedOf(b) => paid'[b] = 0
    BY <1>1, <2>1, <2>2, NothingDue DEF ChargedOf, Taken, Kept, Keeping, Unordered
  <2> QED
    BY <1>1, <1>2, <1>4, <2>1, <2>5, <2>6, ChargedAlone DEF Kept
<1> QED
  BY <1>3, <1>4

LEMMA DebitCharged ==
    ASSUME ChargedInv, NEW r \in Requests, NEW a \in Accounts, Debit(r, a)
    PROVE  Charged'
<1>1. PICK amount \in Nat, b \in BasketIds, stage \in {"debiting", "paid"} :
             /\ amount = req[r].allocations[a] /\ amount > 0 /\ b = req[r].basket
             /\ paid' = [paid EXCEPT ![b] = @ + amount]
             /\ account' = [account EXCEPT ![a].balance = @ - amount]
             /\ Keeps(r, stage) /\ req'[r].lines = req[r].lines
             /\ a \in req[r].todo /\ req'[r].todo = req[r].todo \ {a}
             /\ req'[r].allocations = req[r].allocations
             /\ stage = "paid" <=> req'[r].todo = {}
             /\ IsPayment(req[r]) /\ req[r].stage = "debiting"
  BY DebitEffect DEF ChargedInv
<1>2. Submitting(r, b)
  BY <1>1, AtWork DEF ChargedInv, TypeInv, Early, Browsing
<1>3. UNCHANGED <<order, viaApi, overlapped, interrupted>>
  BY DEF Debit, Shop, History
<1>4. \A c \in BasketIds : c # b => Keeping(c)
  BY <1>1, <1>3 DEF ChargedInv, TypeInv, TypedMoney, Keeping, Due
<1>5. Done(req[r]) \in Int /\ Done(req'[r]) = amount + Done(req[r])
  BY <1>1, OneMoreDone DEF IsPayment
<1>6. stage = "paid" => Done(req'[r]) = Total(req'[r].lines)
  BY <1>1, AllDone DEF IsPayment
<1>7. paid[b] \in Nat /\ paid'[b] = paid[b] + amount
  BY <1>1 DEF ChargedInv, TypeInv, TypedMoney
<1>8. ASSUME ChargedOf(b) PROVE paid'[b] = Taken(req'[r], Due(b)')
  <2>1. paid[b] = Done(req[r])
    BY <1>1, <1>2, <1>8 DEF ChargedOf, Taken
  <2>2. paid'[b] = Done(req'[r])
    BY <1>5, <1>7, <2>1
  <2> QED
    BY <1>1, <1>6, <2>2 DEF Taken, Keeps
<1> QED
  BY <1>1, <1>2, <1>3, <1>4, <1>8, ChargedAlone DEF Quieter

\* A payment that fails: before the first transfer nothing is taken, after it the
\* basket is on record.
LEMMA PaymentFailsCharged ==
    ASSUME ChargedInv, NEW r \in Requests, PaymentFails(r)
    PROVE  Charged'
<1>1. PICK b \in BasketIds : b = req[r].basket /\ Submitting(r, b)
  BY AtWork DEF ChargedInv, TypeInv, PaymentFails, Early, Browsing
<1>2. Kept /\ Quieter
  BY NothingChangesHands DEF PaymentFails, Shop, Money, Quieter
<1>3. Keeps(r, "refused")
  BY GotoKeeps DEF ChargedInv, TypeInv, PaymentFails
<1>4. ASSUME TruthOf(b), ChargedOf(b), b \notin interrupted'
      PROVE  paid'[b] = Taken(req'[r], Due(b)')
  <2>1. /\ req[r].stage \in {"frozen", "verifying", "debiting"}
        /\ req[r].stage = "debiting" => req[r].todo = DOMAIN req[r].allocations
    <3>1. ~MoneyIsGone(r)
      BY <1>1, <1>4 DEF PaymentFails
    <3> QED
      BY <3>1 DEF PaymentFails, MoneyIsGone
  <2>2. Due(b) = 0
    BY <1>1, <1>4, <2>1, NothingDue DEF Unordered
  <2>3. paid[b] = Taken(req[r], Due(b))
    BY <1>1, <1>4 DEF ChargedOf
  <2>4. paid[b] = 0
    <3>1. CASE req[r].stage = "debiting"
      BY <2>1, <2>3, <3>1, NothingDone DEF Taken
    <3>2. CASE req[r].stage # "debiting"
      BY <2>1, <2>2, <2>3, <3>2 DEF Taken
    <3> QED
      BY <3>1, <3>2
  <2> QED
    BY <1>2, <1>3, <2>2, <2>4 DEF Kept, Keeping, Keeps, Taken
<1> QED
  BY <1>1, <1>2, <1>3, <1>4, ChargedAlone DEF Kept

LEMMA OrderCharged ==
    ASSUME ChargedInv, NEW r \in Requests, PlaceOrder(r) \/ PlaceApiOrder(r)
    PROVE  Charged'
<1> USE DEF History, Money
<1>1. PICK b \in BasketIds : b = req[r].basket /\ Submitting(r, b)
  BY AtWork DEF ChargedInv, TypeInv, PlaceOrder, PlaceApiOrder, Early, Browsing
<1>2. UNCHANGED <<paid, overlapped, interrupted>> /\ Quieter
  BY DEF PlaceOrder, PlaceApiOrder, Quieter
<1>3. req[r].stage \in {"paid", "validated"} /\ req[r].lines \in Lines
  BY DEF PlaceOrder, PlaceApiOrder, ChargedInv, TypeInv, Shape, IsRequest
<1>4. CASE End(r) /\ UNCHANGED <<order, viaApi>>
  <2>1. order[b] # NoOrder
    BY <1>1, <1>3, <1>4, GotoKeeps, EndMoves
       DEF PlaceOrder, PlaceApiOrder, ChargedInv, TypeInv, Keeps, Idle
  <2>2. b \in overlapped \cup interrupted
    BY <1>1, <1>3, <2>1 DEF ChargedInv, Truth, TruthOf, Unordered
  <2> QED
    BY <1>1, <1>2, <1>4, <2>2, NothingChangesHands, ChargedEnds DEF Submitting
<1>5. ASSUME NEW stage, Goto(r, stage),
             order' = [order EXCEPT ![b] = req[r].lines],
             \/ stage = "ordered" /\ req[r].stage = "paid" /\ viaApi' = viaApi
             \/ /\ stage = "placed" /\ req[r].stage = "validated"
                /\ viaApi' = viaApi \cup {b}
      PROVE  Charged'
  <2>1. Keeps(r, stage)
    BY <1>5, GotoKeeps DEF ChargedInv, TypeInv
  <2>2. \A c \in BasketIds : c # b => Keeping(c)
    BY <1>2, <1>5 DEF ChargedInv, TypeInv, TypedShop, Keeping, Due
  <2>3. order'[b] = req[r].lines /\ order'[b] # NoOrder
    BY <1>3, <1>5, CheckoutAssumption DEF ChargedInv, TypeInv, TypedShop
  <2>4. ASSUME TruthOf(b), ChargedOf(b)
        PROVE  paid'[b] = Taken(req'[r], Due(b)')
    <3>1. Due(b) = 0 /\ order[b] = NoOrder
      BY <1>1, <1>3, <2>4, NothingDue DEF Unordered
    <3>2. b \notin viaApi
      BY <3>1 DEF ChargedInv, TypeInv, Shape, Tables
    <3>3. paid[b] = Taken(req[r], Due(b))
      BY <1>1, <2>4 DEF ChargedOf
    <3>4. Taken(req'[r], Due(b)') = Due(b)'
      BY <1>5, <2>1 DEF Taken, Keeps
    <3>5. CASE stage = "ordered"
      <4>1. Due(b)' = Total(req[r].lines)
        BY <1>5, <2>3, <3>2, <3>5 DEF Due
      <4> QED
        BY <1>2, <1>5, <3>3, <3>4, <3>5, <4>1 DEF Taken
    <3>6. CASE stage = "placed"
      BY <1>2, <1>5, <3>1, <3>3, <3>4, <3>6 DEF Taken, Due
    <3> QED
      BY <1>5, <3>5, <3>6
  <2> QED
    BY <1>1, <1>2, <1>5, <2>1, <2>2, <2>4, ChargedAlone
<1> QED
  BY <1>1, <1>4, <1>5 DEF PlaceOrder, PlaceApiOrder

LEMMA ChargedStep ==
    ASSUME ChargedInv, [Next]_vars
    PROVE  Charged'
<1> USE DEF Shop, Money, History
<1>s. Shape
  BY DEF ChargedInv, TypeInv
<1>a. ASSUME UNCHANGED <<overlapped, interrupted>> PROVE Quieter
  BY <1>a DEF Quieter
<1>1. ASSUME NEW r \in Requests, NEW kind \in Kind, Begin(r, kind) PROVE Charged'
  <2>1. Moves(r) /\ req'[r].basket = 0 /\ req[r].basket = 0
    BY <1>1, <1>s DEF Begin, Shape, IsRequest, Moves, Idle, Early
  <2>2. \A b \in BasketIds : ~Submitting(r, b) /\ ~Submitting(r, b)'
    BY <2>1 DEF Submitting, BasketIds
  <2>3. Kept /\ UNCHANGED <<overlapped, interrupted>>
    BY <1>1, NothingChangesHands DEF Begin
  <2> QED
    BY <2>1, <2>2, <2>3, ChargedElsewhere DEF ChargedInv, Charged, Kept
<1>2. ASSUME NEW r \in Requests, GetBasket(r) \/ CreateBasket(r) PROVE Charged'
  <2>1. Kept /\ UNCHANGED interrupted /\ req[r].stage \in Early
    BY <1>2, NothingChangesHands DEF GetBasket, CreateBasket, At, Early
  <2>2. \E b \in BasketIds : Hold(r, b)
    BY <1>2 DEF GetBasket, CreateBasket, OpenBaskets
  <2> QED
    BY <2>1, <2>2, ChargedHolds
<1>3. ASSUME NEW r \in Requests, NoBasket(r) \/ Freeze(r) \/ Thaw(r) PROVE Charged'
  <2>1. Kept /\ Quieter
    BY <1>a, <1>3, NothingChangesHands DEF NoBasket, Freeze, Thaw
  <2>2. PICK stage \in {"creating", "frozen", "rendering"} : Keeps(r, stage)
    BY <1>3, <1>s, GotoKeeps DEF NoBasket, Freeze, Thaw
  <2> QED
    BY <1>3, <2>1, <2>2, ChargedGoesOn DEF NoBasket, Freeze, Thaw, At
<1>4. ASSUME NEW r \in Requests,
             \/ AddProduct(r) \/ AddNothing(r) \/ NothingToAllocate(r)
             \/ SaveSession(r) \/ FreezeOrdered(r)
      PROVE  Charged'
  <2>1. Kept /\ Quieter /\ End(r) /\ req[r].stage \notin {"debiting", "paid"}
    BY <1>a, <1>4, NothingChangesHands
       DEF AddProduct, AddNothing, NothingToAllocate, SaveSession, FreezeOrdered, At
  <2> QED
    BY <2>1, ChargedEnds
<1>5. ASSUME NEW r \in Requests, ReadLines(r) PROVE Charged'
  <2>1. Kept /\ Quieter /\ req[r].stage = "holding"
    BY <1>a, <1>5, NothingChangesHands DEF ReadLines, At
  <2>2. PICK lines, stage : /\ lines = basket[req[r].basket].lines
                            /\ stage = AfterLines[req[r].kind]
    OBVIOUS
  <2>3. \/ End(r)
        \/ req' = [req EXCEPT ![r].lines = lines, ![r].stage = stage]
    BY <1>5, <2>2 DEF ReadLines
  <2>4. stage \in {"rendering", "loaded", "validated"}
    BY <1>5, <2>2 DEF ReadLines, At, AfterLines
  <2> QED
    BY <1>s, <2>1, <2>3, <2>4, LinesKeep, ChargedGoesOn, ChargedEnds
<1>6. ASSUME NEW r \in Requests, Allocate(r) \/ MarkSubmitted(r) PROVE Charged'
  <2>1. Kept /\ Quieter /\ req[r].stage \in {"rendering", "ordered"}
    BY <1>a, <1>6, NothingChangesHands DEF Allocate, MarkSubmitted
  <2>2. Keeps(r, "saving")
    BY <1>6, <1>s, AllocationsKeep DEF Allocate, MarkSubmitted
  <2> QED
    BY <2>1, <2>2, ChargedGoesOn
<1>7. ASSUME NEW r \in Requests, CheckAllocations(r) PROVE Charged'
  <2>1. Kept /\ Quieter /\ req[r].stage = "frozen"
    BY <1>a, <1>7, NothingChangesHands DEF CheckAllocations
  <2> QED
    BY <1>7, <1>s, <2>1, CheckKeeps, ChargedGoesOn
<1>8. ASSUME NEW r \in Requests, ParseBasket(r) PROVE Charged'
  <2>1. PICK b \in BasketIds :
          IF basket[b].status = "Open" THEN Hold(r, b)
          ELSE End(r) /\ UNCHANGED overlapped
    BY <1>8 DEF ParseBasket
  <2>2. Kept /\ UNCHANGED interrupted /\ req[r].stage = "asking"
    BY <1>8, NothingChangesHands DEF ParseBasket, At
  <2>3. CASE basket[b].status = "Open"
    BY <2>1, <2>2, <2>3, ChargedHolds DEF Early
  <2>4. CASE basket[b].status # "Open"
    BY <1>a, <2>1, <2>2, <2>4, ChargedEnds
  <2> QED
    BY <2>3, <2>4
<1>9. ASSUME NEW r \in Requests, Fail(r) PROVE Charged'
  <2>1. Kept /\ Quieter /\ End(r)
    BY <1>9, NothingChangesHands DEF Fail, Quieter
  <2>2. ASSUME NEW b \in BasketIds, Submitting(r, b), b \notin interrupted'
        PROVE  req[r].stage \notin {"debiting", "paid"}
    BY <1>9, <2>2 DEF Fail, Submitting
  <2> QED
    BY <2>1, <2>2, ChargedEnds
<1>10. ASSUME UNCHANGED <<paid, order, viaApi, overlapped, interrupted, req>>
       PROVE  Charged'
  <2>1. /\ \A b \in BasketIds : Keeping(b)
        /\ \A b \in BasketIds : Quiet(b)' <=> Quiet(b)
        /\ \A r \in Requests, b \in BasketIds : Submitting(r, b)' <=> Submitting(r, b)
    BY <1>10, NothingChangesHands DEF Kept, Quiet, Submitting
  <2> QED
    BY <1>10, <2>1 DEF ChargedInv, Charged, ChargedOf, Keeping, Taken
<1>11. (\E a \in Accounts : AccountChanges(a)) \/ UNCHANGED vars
         => UNCHANGED <<paid, order, viaApi, overlapped, interrupted, req>>
  BY DEF AccountChanges, vars
<1> QED
  BY <1>1, <1>2, <1>3, <1>4, <1>5, <1>6, <1>7, <1>8, <1>9, <1>10, <1>11,
     VerifyCharged, DebitCharged, PaymentFailsCharged, OrderCharged DEF Next, Step

\* The customer is charged what was ordered, to the cent and once, whatever the
\* prices, the accounts and the number of tabs: unless two submissions of the
\* basket overlapped or one failed half-way, what carries its number is the
\* price of what the site ordered, and nothing when nothing was ordered, when
\* the payment was refused or when the REST interface ordered it.
THEOREM ChargedToTheCent == Spec => []ChargedExactly
<1>1. Init => ChargedInv
  <2> SUFFICES ASSUME Init PROVE Truth /\ Charged
    BY InitTypes DEF ChargedInv
  <2>1. \A r \in Requests, b \in BasketIds : ~Submitting(r, b)
    BY DEF Init, Idle, Submitting, Ordering
  <2>2. Truth
    BY <2>1 DEF Init, Truth, TruthOf, Matches
  <2>3. Charged
    BY <2>1 DEF Init, Charged, ChargedOf, Due
  <2> QED
    BY <2>2, <2>3
<1>2. ChargedInv /\ [Next]_vars => ChargedInv'
  <2>1. ChargedInv => TruthInv
    BY DEF ChargedInv, TypeInv, TruthInv
  <2> QED
    BY <2>1, TypeStep, TruthStep, ChargedStep DEF ChargedInv
<1>3. ChargedInv => ChargedExactly
  BY DEF ChargedInv, Charged, ChargedOf, Due, ChargedExactly, Undisturbed
<1> QED
  BY <1>1, <1>2, <1>3, PTL DEF Spec

(***************************************************************************)
(* The checkout implements Sales.                                          *)
(***************************************************************************)

\* From the moment the lines are read until the order they are not empty.
Buying == {"loaded", "validated", "frozen", "verifying", "debiting", "paid"}
Priced == \A r \in Requests :
            req[r].stage \in Buying => Total(req[r].lines) > 0

\* A request that begins to buy has read lines that cost something; after that
\* its lines stay as they are.
LEMMA BuysWhatItRead ==
    ASSUME TypeInv, [Next]_vars
    PROVE  \/ UNCHANGED req
           \/ \E r \in Requests :
                /\ Moves(r)
                /\ \/ req'[r].stage \notin Buying
                   \/ req[r].stage \in Buying /\ req'[r].lines = req[r].lines
                   \/ req'[r].lines \in Lines /\ Total(req'[r].lines) # 0
<1> DEFINE Buys(r) ==
             /\ Moves(r)
             /\ \/ req'[r].stage \notin Buying
                \/ req[r].stage \in Buying /\ req'[r].lines = req[r].lines
                \/ req'[r].lines \in Lines /\ Total(req'[r].lines) # 0
<1>s. Shape
  BY DEF TypeInv
<1>1. ASSUME NEW r \in Requests, NEW kind \in Kind, Begin(r, kind) PROVE Buys(r)
  BY <1>1, <1>s DEF Begin, Idle, Shape, Moves, Buying
<1>2. ASSUME NEW r \in Requests, NEW b \in BasketIds, Hold(r, b) PROVE Buys(r)
  BY <1>2, <1>s, HoldMoves DEF Buying
<1>3. ASSUME NEW r \in Requests, End(r) PROVE Buys(r)
  BY <1>3, <1>s, EndMoves DEF Idle, Buying
<1>4. ASSUME NEW r \in Requests, NEW stage, Keeps(r, stage),
             \/ stage \notin Buying
             \/ req[r].stage \in Buying /\ req'[r].lines = req[r].lines
      PROVE  Buys(r)
  BY <1>4 DEF Keeps
<1>5. ASSUME NEW r \in Requests, NEW stage, Goto(r, stage),
             stage \notin Buying \/ req[r].stage \in Buying
      PROVE  Buys(r)
  BY <1>4, <1>5, <1>s, GotoKeeps
<1>6. ASSUME NEW r \in Requests, ReadLines(r) PROVE Buys(r)
  <2>1. PICK lines, stage : /\ lines = basket[req[r].basket].lines
                            /\ stage = AfterLines[req[r].kind]
    OBVIOUS
  <2>2. \/ End(r)
        \/ /\ req' = [req EXCEPT ![r].lines = lines, ![r].stage = stage]
           /\ Total(lines) # 0
    BY <1>6, <2>1 DEF ReadLines
  <2>3. lines \in Lines
    <3>1. IsRequest(req[r]) /\ req[r].stage = "holding"
      BY <1>6, <1>s DEF ReadLines, At, Shape
    <3> QED
      BY <2>1, <3>1, <1>s DEF IsRequest, Early, Shape, Tables
  <2>4. ASSUME /\ req' = [req EXCEPT ![r].lines = lines, ![r].stage = stage]
               /\ Total(lines) # 0
        PROVE  Buys(r)
    <3>1. Keeps(r, stage) /\ req'[r].lines = lines
      BY <1>s, <2>4, LinesKeep
    <3> QED
      BY <2>3, <2>4, <3>1 DEF Keeps
  <2> HIDE DEF Buys
  <2> QED
    BY <1>3, <2>2, <2>4
<1>7. ASSUME NEW r \in Requests, Allocate(r) \/ MarkSubmitted(r) PROVE Buys(r)
  <2>1. Keeps(r, "saving")
    BY <1>7, <1>s, AllocationsKeep DEF Allocate, MarkSubmitted
  <2> QED
    BY <1>4, <2>1 DEF Buying
<1>8. ASSUME NEW r \in Requests, CheckAllocations(r) PROVE Buys(r)
  BY <1>4, <1>8, <1>s, CheckKeeps DEF CheckAllocations, Buying
<1>9. ASSUME NEW r \in Requests, GetBasket(r) \/ CreateBasket(r) \/ ParseBasket(r)
      PROVE  Buys(r)
  BY <1>2, <1>3, <1>9 DEF GetBasket, CreateBasket, ParseBasket, OpenBaskets
<1>10. ASSUME NEW r \in Requests,
              NoBasket(r) \/ Freeze(r) \/ PaymentFails(r) \/ Thaw(r)
       PROVE  Buys(r)
  BY <1>5, <1>10 DEF NoBasket, Freeze, PaymentFails, Thaw, Buying
<1>11. ASSUME NEW r \in Requests, PlaceOrder(r) \/ PlaceApiOrder(r) PROVE Buys(r)
  BY <1>3, <1>5, <1>11 DEF PlaceOrder, PlaceApiOrder, Buying
<1>12. ASSUME NEW r \in Requests,
              \/ AddProduct(r) \/ AddNothing(r) \/ NothingToAllocate(r)
              \/ SaveSession(r) \/ FreezeOrdered(r) \/ Fail(r)
       PROVE  Buys(r)
  BY <1>3, <1>12 DEF AddProduct, AddNothing, NothingToAllocate, SaveSession,
                     FreezeOrdered, Fail
<1>13. ASSUME NEW r \in Requests, NEW a \in Accounts, Verify(r, a) \/ Debit(r, a)
       PROVE  Buys(r)
  <2>1. req[r].stage \in Buying
    BY <1>13 DEF Verify, Debit, Buying
  <2> QED
    BY <1>4, <1>13, <1>s, <2>1, VerifyKeeps, DebitKeeps
<1>14. (\E a \in Accounts : AccountChanges(a)) \/ UNCHANGED vars => UNCHANGED req
  BY DEF AccountChanges, vars
<1> HIDE DEF Buys
<1>15. ASSUME NEW r \in Requests, Step(r) PROVE Buys(r)
  BY <1>6, <1>7, <1>8, <1>9, <1>10, <1>11, <1>12, <1>13, <1>15 DEF Step
<1>16. UNCHANGED req \/ \E r \in Requests : Buys(r)
  BY <1>1, <1>12, <1>14, <1>15 DEF Next
<1> QED
  BY <1>16 DEF Buys

LEMMA PricedStep ==
    ASSUME TypeInv, Priced, [Next]_vars
    PROVE  Priced'
<1>1. ASSUME NEW lines \in Lines, Total(lines) # 0 PROVE Total(lines) > 0
  <2>1. Total(lines) \in Nat
    BY TotalIsNat
  <2> QED
    BY <1>1, <2>1
<1> QED
  BY <1>1, BuysWhatItRead DEF Priced, Moves

\* Money moves by a transfer of the checkout or from outside.
LEMMA DebitIsPayment ==
    ASSUME TypeInv, NEW r \in Requests, NEW a \in Accounts, Debit(r, a)
    PROVE  \E b \in BasketIds : Sale!Pay(a, b)
<1>1. PICK amount \in Nat, b \in BasketIds :
        /\ amount > 0
        /\ paid' = [paid EXCEPT ![b] = @ + amount]
        /\ account' = [account EXCEPT ![a].balance = @ - amount]
  BY DebitEffect
<1>2. account \in [Accounts -> AccountRow]
  BY DEF TypeInv, TypedMoney
<1>3. /\ account'[a].balance = account[a].balance - amount
      /\ account[a].balance \in Int
      /\ \A c \in Accounts \ {a} : account'[c].balance = account[c].balance
  BY <1>1, <1>2 DEF AccountRow
<1>4. account[a].balance - account'[a].balance = amount
  BY <1>3
<1>5. UNCHANGED <<order, viaApi, events>>
  BY DEF Debit, Shop, Bounds, History
<1>6. [c \in Accounts |-> account'[c].balance]
        = [[c \in Accounts |-> account[c].balance] EXCEPT ![a] = @ - amount]
  BY <1>3
<1>7. /\ [c \in Accounts |-> account[c].balance][a] = account[a].balance
      /\ [c \in Accounts |-> account'[c].balance][a] = account'[a].balance
  OBVIOUS
<1> QED
  BY <1>1, <1>4, <1>5, <1>6, <1>7 DEF Sale!Pay

LEMMA ChangeIsAdjustment ==
    ASSUME TypeInv, NEW a \in Accounts, AccountChanges(a)
    PROVE  Sale!Adjust(a)
<1>1. account \in [Accounts -> AccountRow]
  BY DEF TypeInv, TypedMoney
<1>2. \A c \in Accounts \ {a} : account'[c].balance = account[c].balance
  <2>1. CASE \/ account' = [account EXCEPT ![a].open = ~@]
             \/ account' = [account EXCEPT ![a].current = ~@]
    BY <1>1, <2>1 DEF AccountRow
  <2>2. ASSUME NEW amount \in {-1, 1},
               account' = [account EXCEPT ![a].balance = @ + amount]
        PROVE  \A c \in Accounts \ {a} : account'[c].balance = account[c].balance
    BY <1>1, <2>2 DEF AccountRow
  <2> QED
    BY <2>1, <2>2 DEF AccountChanges
<1>3. [c \in Accounts |-> account'[c].balance]
        = [[c \in Accounts |-> account[c].balance] EXCEPT
             ![a] = [c \in Accounts |-> account'[c].balance][a]]
  BY <1>2
<1>4. events' = events + 1 /\ UNCHANGED <<paid, order, viaApi>>
  BY DEF AccountChanges, Shop, History
<1> QED
  BY <1>3, <1>4 DEF Sale!Adjust

\* An order of the site is a sale: it is paid for when it is placed.
LEMMA OrderIsSale ==
    ASSUME PaidInv, Priced, NEW r \in Requests, PlaceOrder(r),
           order[req[r].basket] = NoOrder
    PROVE  \E b \in BasketIds, lines \in Lines : Sale!Sell(b, lines)
<1>1. /\ req[r].stage = "paid" /\ IsRequest(req[r])
      /\ Covering(req[r], paid[req[r].basket])
  BY DEF PlaceOrder, PaidInv, TypeInv, Shape, Covers
<1>2. PICK b, lines : b = req[r].basket /\ lines = req[r].lines
  OBVIOUS
<1>3. /\ b \in BasketIds /\ lines \in Lines
      /\ paid[b] >= Total(lines) /\ Total(lines) > 0
  BY <1>1, <1>2 DEF IsRequest, Early, Covering, Priced, Buying
<1>4. /\ order[b] = NoOrder /\ order' = [order EXCEPT ![b] = lines]
      /\ UNCHANGED <<account, paid, viaApi, events>>
  BY <1>2 DEF PlaceOrder, Money, Bounds, History
<1> QED
  BY <1>3, <1>4 DEF Sale!Sell, Sale!Place

\* An order by REST is given away.
LEMMA ApiOrderIsGift ==
    ASSUME PaidInv, Priced, NEW r \in Requests, PlaceApiOrder(r),
           order[req[r].basket] = NoOrder
    PROVE  \E b \in BasketIds, lines \in Lines : Sale!Give(b, lines)
<1>1. req[r].stage = "validated" /\ IsRequest(req[r])
  BY DEF PlaceApiOrder, PaidInv, TypeInv, Shape
<1>2. PICK b, lines : b = req[r].basket /\ lines = req[r].lines
  OBVIOUS
<1>3. b \in BasketIds /\ lines \in Lines /\ Total(lines) > 0
  BY <1>1, <1>2 DEF IsRequest, Early, Priced, Buying
<1>4. /\ order[b] = NoOrder /\ order' = [order EXCEPT ![b] = lines]
      /\ viaApi' = viaApi \cup {b}
      /\ UNCHANGED <<account, paid, events>>
  BY <1>2 DEF PlaceApiOrder, Money, Bounds
<1> QED
  BY <1>3, <1>4 DEF Sale!Give, Sale!Place

\* Neither money nor orders.
Idles == UNCHANGED <<account, paid, order, viaApi, events>>

LEMMA IdlesStutters ==
    ASSUME Idles
    PROVE  UNCHANGED Sale!vars
BY DEF Idles, Sale!vars

LEMMA SaleStep ==
    ASSUME PaidInv, Priced, [Next]_vars
    PROVE  [Sale!Next]_(Sale!vars)
<1>1. ASSUME NEW r \in Requests, PlaceOrder(r) PROVE Sale!Next \/ Idles
  <2>1. CASE order[req[r].basket] = NoOrder
    BY <1>1, <2>1, OrderIsSale DEF Sale!Next
  <2>2. CASE order[req[r].basket] # NoOrder
    BY <1>1, <2>2 DEF PlaceOrder, Money, Bounds, History, Idles
  <2> QED
    BY <2>1, <2>2
<1>2. ASSUME NEW r \in Requests, PlaceApiOrder(r) PROVE Sale!Next \/ Idles
  <2>1. CASE order[req[r].basket] = NoOrder
    BY <1>2, <2>1, ApiOrderIsGift DEF Sale!Next
  <2>2. CASE order[req[r].basket] # NoOrder
    BY <1>2, <2>2 DEF PlaceApiOrder, Money, Bounds, Idles
  <2> QED
    BY <2>1, <2>2
<1>3. ASSUME NEW r \in Requests, NEW a \in Accounts, Debit(r, a) PROVE Sale!Next
  BY <1>3, DebitIsPayment DEF PaidInv, Sale!Next
<1>4. ASSUME NEW a \in Accounts, AccountChanges(a) PROVE Sale!Next
  BY <1>4, ChangeIsAdjustment DEF PaidInv, Sale!Next
<1>5. \A r \in Requests :
        Step(r) => \/ Idles
                   \/ \E a \in Accounts : Debit(r, a)
                   \/ PlaceOrder(r) \/ PlaceApiOrder(r)
  BY DEF Step, GetBasket, NoBasket, CreateBasket, AddProduct,
         AddNothing, ReadLines, Allocate, NothingToAllocate, SaveSession, Freeze,
         CheckAllocations, Verify, PaymentFails, Thaw, MarkSubmitted,
         ParseBasket, FreezeOrdered, Shop, Money, Bounds, History, Idles
<1>6. \A r \in Requests : /\ Fail(r) => Idles
                          /\ \A kind \in Kind : Begin(r, kind) => Idles
  <2>1. \A r \in Requests : Fail(r) => Idles
    BY DEF Fail, Shop, Money, Bounds, History, Idles
  <2>2. \A r \in Requests, kind \in Kind : Begin(r, kind) => Idles
    BY DEF Begin, Shop, Money, History, Idles
  <2> QED
    BY <2>1, <2>2
<1>7. UNCHANGED vars => Idles
  BY DEF vars, Idles
<1>8. Sale!Next \/ Idles
  BY <1>1, <1>2, <1>3, <1>4, <1>5, <1>6, <1>7 DEF Next
<1> QED
  BY <1>8, IdlesStutters

\* SalesSpec: whatever tabs, REST requests, stale sessions, retries and failures
\* do, every step of the checkout is a whole payment for a basket, a paid order
\* of the site, an order by REST, a change from outside, or moves nothing.
THEOREM CheckoutImplementsSales == Spec => SalesSpec
<1> DEFINE SaleInv == PaidInv /\ Priced
<1>1. Init => SaleInv
  <2> SUFFICES ASSUME Init PROVE SaleInv
    OBVIOUS
  <2>1. Covers /\ OrdersArePaid /\ Priced
    BY DEF Init, Idle, Covers, Covering, OrdersArePaid, Priced, Buying
  <2> QED
    BY <2>1, InitTypes DEF PaidInv
<1>2. SaleInv /\ [Next]_vars => SaleInv'
  BY TypeStep, CoversStep, OrdersPaidStep, PricedStep DEF PaidInv
<1>3. Init => Sale!Init
  BY DEF Init, Sale!Init
<1>4. SaleInv /\ [Next]_vars => [Sale!Next]_(Sale!vars)
  BY SaleStep
<1> QED
  BY <1>1, <1>2, <1>3, <1>4, PTL DEF Spec, SalesSpec, Sale!Spec

=============================================================================
