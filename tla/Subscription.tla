---------------------------- MODULE Subscription ----------------------------
(***************************************************************************)
(* From placed orders to the window in which a customer may run policies:  *)
(* the management command sync_orders, whose runs may overlap, beside the  *)
(* checkout that places orders, and the test of the policy create view.    *)
(*                                                                         *)
(* Each run looks at the orders of the last second and adds 30 days per    *)
(* unit to the customer's QuantPolicyOrder row, or inserts one.  Nothing   *)
(* is locked and no order is marked as seen.  A product stands here for a  *)
(* product as one customer buys it: rows are looked up by both.            *)
(***************************************************************************)
EXTENDS Integers, Functions

CONSTANTS
    Orders,      \* orders, numbers so that those of one instant have an order
    Products,
    Mapped,      \* products in policy_url_map
    Runs,        \* runs of sync_orders
    Rows,        \* primary keys of QuantPolicyOrder, given out in order
    Month,       \* 30 days
    LookBack,    \* one second
    Baskets,     \* what an order may consist of: the quantity of each product
    MaxTime,     \* bound on the clock
    NotYet,      \* no time
    NoWindow,    \* no row or instance
    NoLine       \* the run is at no order line

Time == 0..MaxTime
Lines == Orders \X Products
Window == [product : Products, start : Nat, end : Nat]

ASSUME NumbersAssumption ==
    /\ Orders \subseteq Nat /\ Rows \subseteq Nat
    /\ MaxTime \in Nat
    /\ LookBack \in Nat /\ Month \in Nat /\ LookBack < Month
ASSUME ProductsAssumption ==
    /\ Mapped \subseteq Products
    /\ Baskets \subseteq [Products -> Nat]
ASSUME NothingAssumption ==
    NotYet \notin Int /\ NoWindow \notin Window /\ NoLine \notin Lines

VARIABLES
    now,       \* timezone.now()
    quantity,  \* per order and product, the quantity of the line, 0 if none
    placed,    \* Order.date_placed
    committed, \* when the transaction of place_order ended
    window,    \* committed QuantPolicyOrder rows
    pc,        \* where each run is
    since,     \* the oldest date_placed it asks for
    todo,      \* lines it has not come to
    line,      \* the line it is at
    copy,      \* the rows it has read for that line and not saved
    counted,   \* history: <<run, order, product>>, lines added to a window
    clashed    \* history: products with a row written from outdated reads

orderVars == <<quantity, placed, committed>>
runVars == <<pc, since, todo, line, copy>>
historyVars == <<counted, clashed>>
vars == <<now, orderVars, window, runVars, historyVars>>

Nothing == [i \in Rows |-> NoWindow]

Init ==
    /\ now = 0
    /\ quantity \in [Orders -> Baskets]
    /\ placed = [o \in Orders |-> NotYet]
    /\ committed = [o \in Orders |-> NotYet]
    /\ window = Nothing
    /\ pc = [r \in Runs |-> "waiting"]
    /\ since = [r \in Runs |-> NotYet]
    /\ todo = [r \in Runs |-> {}]
    /\ line = [r \in Runs |-> NoLine]
    /\ copy = [r \in Runs |-> Nothing]
    /\ counted = {}
    /\ clashed = {}

Tick ==
    /\ now < MaxTime
    /\ now' = now + 1
    /\ UNCHANGED <<orderVars, window, runVars, historyVars>>

(***************************************************************************)
(* OrderCreator.place_order: the row gets its date inside the transaction, *)
(* and is seen by others with its lines when the transaction ends.         *)
(***************************************************************************)

CreateOrder(o) ==
    /\ placed[o] = NotYet
    /\ placed' = [placed EXCEPT ![o] = now]
    /\ UNCHANGED <<now, quantity, committed, window, runVars, historyVars>>

CommitOrder(o) ==
    /\ placed[o] # NotYet /\ committed[o] = NotYet
    /\ committed' = [committed EXCEPT ![o] = now]
    /\ UNCHANGED <<now, quantity, placed, window, runVars, historyVars>>

(***************************************************************************)
(* sync_orders.                                                            *)
(***************************************************************************)

Begin(r) ==
    /\ pc[r] = "waiting"
    /\ since' = [since EXCEPT ![r] = now - LookBack]
    /\ pc' = [pc EXCEPT ![r] = "begun"]
    /\ UNCHANGED <<now, orderVars, window, todo, line, copy, historyVars>>

\* Faulty variant: date_placed__gt.
ListNewer(r) ==
    /\ pc[r] = "begun"
    /\ todo' = [todo EXCEPT ![r] = {x \in Lines :
          /\ committed[x[1]] # NotYet
          /\ placed[x[1]] > since[r]
          /\ quantity[x[1]][x[2]] > 0}]
    /\ pc' = [pc EXCEPT ![r] = "looping"]
    /\ UNCHANGED <<now, orderVars, window, since, line, copy, historyVars>>

\* The SELECT of the orders.  Their lines do not change any more, so that it
\* does not matter that they are read later.
List(r) ==
    /\ pc[r] = "begun"
    /\ todo' = [todo EXCEPT ![r] = {x \in Lines :
          /\ committed[x[1]] # NotYet
          /\ placed[x[1]] >= since[r]
          /\ quantity[x[1]][x[2]] > 0}]
    /\ pc' = [pc EXCEPT ![r] = "looping"]
    /\ UNCHANGED <<now, orderVars, window, since, line, copy, historyVars>>

\* Faulty variant: ordered by date_placed.
After(o, n) == placed[o] > placed[n] \/ (placed[o] = placed[n] /\ o > n)

\* Order.Meta.ordering = ['-date_placed']
Before(o, n) == placed[o] < placed[n] \/ (placed[o] = placed[n] /\ o < n)

\* Faulty variant: the loop does not get on.
ReadRowsAgain(r, x) ==
    /\ pc[r] = "looping"
    /\ x \in todo[r]
    /\ \A y \in todo[r] : ~Before(x[1], y[1])
    /\ line' = [line EXCEPT ![r] = x]
    /\ copy' = [copy EXCEPT ![r] = [i \in Rows |->
          IF window[i] # NoWindow /\ window[i].product = x[2]
          THEN window[i] ELSE NoWindow]]
    /\ pc' = [pc EXCEPT ![r] = "saving"]
    /\ UNCHANGED <<now, orderVars, window, since, todo, historyVars>>

\* The SELECT of the customer's rows for the product of the next line.
ReadRows(r, x) ==
    /\ pc[r] = "looping"
    /\ x \in todo[r]
    /\ \A y \in todo[r] : ~Before(x[1], y[1])
    /\ todo' = [todo EXCEPT ![r] = @ \ {x}]
    /\ line' = [line EXCEPT ![r] = x]
    /\ copy' = [copy EXCEPT ![r] = [i \in Rows |->
          IF window[i] # NoWindow /\ window[i].product = x[2]
          THEN window[i] ELSE NoWindow]]
    /\ pc' = [pc EXCEPT ![r] = "saving"]
    /\ UNCHANGED <<now, orderVars, window, since, historyVars>>

\* Faulty variant: bought again, the window starts again at once.
RestartedBy(w, o, p) ==
    [w EXCEPT !.start = placed[o], !.end = placed[o] + Month * quantity[o][p]]

\* Faulty variant: a lapsed window is extended like any other.
ProlongedBy(w, o, p) == [w EXCEPT !.end = @ + Month * quantity[o][p]]

\* What a line of order o makes of a row.
ExtendedBy(w, o, p) ==
    IF w.end > placed[o]
    THEN [w EXCEPT !.end = @ + Month * quantity[o][p]]
    ELSE [w EXCEPT !.start = placed[o],
                   !.end = placed[o] + Month * quantity[o][p]]

Counts(r, o, p) == counted' = counted \cup {<<r, o, p>>}

Outdated(r, i) == copy[r][i] # NoWindow /\ copy[r][i] # window[i]

\* quantorder.save(): the whole row, from the instance read before.
SaveRow(r, i) ==
    LET o == line[r][1]
        p == line[r][2]
        left == [copy[r] EXCEPT ![i] = NoWindow]
    IN  /\ pc[r] = "saving"
        /\ copy[r][i] # NoWindow
        /\ p \in Mapped
        /\ window' = [window EXCEPT ![i] = ExtendedBy(copy[r][i], o, p)]
        /\ copy' = [copy EXCEPT ![r] = left]
        /\ pc' = [pc EXCEPT ![r] = IF left = Nothing THEN "looping" ELSE @]
        /\ Counts(r, o, p)
        /\ clashed' = IF Outdated(r, i) THEN clashed \cup {p} ELSE clashed
        /\ UNCHANGED <<now, orderVars, since, todo, line>>

\* Faulty variant: the row gets no end.
CreateOpenRow(r, i) ==
    LET o == line[r][1]
        p == line[r][2]
    IN  /\ pc[r] = "saving"
        /\ copy[r] = Nothing
        /\ p \in Mapped
        /\ window[i] = NoWindow
        /\ \A j \in Rows : j < i => window[j] # NoWindow
        /\ window' = [window EXCEPT ![i] =
              [product |-> p, start |-> placed[o], end |-> NotYet]]
        /\ pc' = [pc EXCEPT ![r] = "looping"]
        /\ Counts(r, o, p)
        /\ UNCHANGED <<now, orderVars, since, todo, line, copy, clashed>>

\* QuantPolicyOrder.objects.create: the SELECT has found no row.
CreateRow(r, i) ==
    LET o == line[r][1]
        p == line[r][2]
    IN  /\ pc[r] = "saving"
        /\ copy[r] = Nothing
        /\ p \in Mapped
        /\ window[i] = NoWindow
        /\ \A j \in Rows : j < i => window[j] # NoWindow
        /\ window' = [window EXCEPT ![i] =
              [product |-> p, start |-> placed[o],
               end |-> placed[o] + Month * quantity[o][p]]]
        /\ pc' = [pc EXCEPT ![r] = "looping"]
        /\ Counts(r, o, p)
        /\ clashed' =
              IF \E j \in Rows : window[j] # NoWindow /\ window[j].product = p
              THEN clashed \cup {p} ELSE clashed
        /\ UNCHANGED <<now, orderVars, since, todo, line, copy>>

\* policy_url_map has no such product: KeyError, before anything is written,
\* and nobody catches it.
RaiseKeyError(r) ==
    /\ pc[r] = "saving"
    /\ line[r][2] \notin Mapped
    /\ pc' = [pc EXCEPT ![r] = "raised"]
    /\ todo' = [todo EXCEPT ![r] = {}]
    /\ copy' = [copy EXCEPT ![r] = Nothing]
    /\ UNCHANGED <<now, orderVars, window, since, line, historyVars>>

Finish(r) ==
    /\ pc[r] = "looping"
    /\ todo[r] = {}
    /\ pc' = [pc EXCEPT ![r] = "done"]
    /\ line' = [line EXCEPT ![r] = NoLine]
    /\ UNCHANGED <<now, orderVars, window, since, todo, copy, historyVars>>

\* The process is killed (before List it would have done nothing).
Die(r) ==
    /\ pc[r] \in {"looping", "saving"}
    /\ pc' = [pc EXCEPT ![r] = "killed"]
    /\ todo' = [todo EXCEPT ![r] = {}]
    /\ line' = [line EXCEPT ![r] = NoLine]
    /\ copy' = [copy EXCEPT ![r] = Nothing]
    /\ UNCHANGED <<now, orderVars, window, since, historyVars>>

Run(r) ==
    \/ Begin(r) \/ List(r) \/ RaiseKeyError(r) \/ Finish(r) \/ Die(r)
    \/ \E x \in Lines : ReadRows(r, x)
    \/ \E i \in Rows : SaveRow(r, i) \/ CreateRow(r, i)

\* Nobody runs the command any more.
AllEnded ==
    /\ \A r \in Runs : pc[r] \in {"done", "raised", "killed"}
    /\ UNCHANGED vars

Next ==
    \/ Tick
    \/ \E o \in Orders : CreateOrder(o) \/ CommitOrder(o)
    \/ \E r \in Runs : Run(r)
    \/ AllEnded

Spec == Init /\ [][Next]_vars

(***************************************************************************)
(* form_valid of the policy create views: QuantPolicyOrder.objects.get     *)
(* raises unless there is one row, and the except clause then names a      *)
(* variable that has no value.                                             *)
(***************************************************************************)

RowsOf(p) == {i \in Rows : window[i] # NoWindow /\ window[i].product = p}

CreateVerdict(p, start, end) ==
    IF \E i \in Rows : RowsOf(p) = {i}
    THEN IF \A i \in RowsOf(p) : window[i].end >= end /\ window[i].start <= start
         THEN "accepted" ELSE "refused"
    ELSE "error"

(***************************************************************************)
(* Properties.                                                             *)
(***************************************************************************)

TypeOK ==
    /\ now \in Time
    /\ quantity \in [Orders -> Baskets]
    /\ placed \in [Orders -> Time \cup {NotYet}]
    /\ committed \in [Orders -> Time \cup {NotYet}]
    /\ window \in [Rows -> Window \cup {NoWindow}]
    /\ pc \in [Runs -> {"waiting", "begun", "looping", "saving", "done",
                        "raised", "killed"}]
    /\ since \in [Runs -> Int \cup {NotYet}]
    /\ todo \in [Runs -> SUBSET Lines]
    /\ line \in [Runs -> Lines \cup {NoLine}]
    /\ copy \in [Runs -> [Rows -> Window \cup {NoWindow}]]
    /\ counted \subseteq Runs \X Orders \X Products
    /\ clashed \subseteq Products

\* A window bought never gets shorter and never disappears, except by the save
\* of a run that had read it before another run changed it.
WindowsOnlyGrow ==
    [][\A i \in Rows : window[i] # NoWindow =>
          /\ window'[i] # NoWindow
          /\ \/ window'[i].end >= window[i].end
             \/ \E r \in Runs : Outdated(r, i)]_vars

CountedOf(p) == {c \in counted : c[3] = p}
Units == [c \in Runs \X Orders \X Products |-> quantity[c[2]][c[3]]]

\* Units of p that were added to its window for o and orders placed after it.
UnitsFrom(o, p) ==
    SumFunctionOnSet(Units, {c \in CountedOf(p) : placed[c[2]] >= placed[o]})

\* Unless two runs clashed, a customer one of whose orders was counted can
\* create a policy that starts now and lasts for everything bought since then.
BuyerCanTrade ==
    \A c \in counted :
        c[3] \notin clashed =>
            CreateVerdict(c[3], now, placed[c[2]] + Month * UnitsFrom(c[2], c[3]))
                = "accepted"

\* However runs overlap, no window is longer than what was counted for it: one
\* run grants one line once.
NeverMoreThanCounted ==
    \A i \in Rows : window[i] # NoWindow =>
        window[i].end - window[i].start <=
            Month * SumFunctionOnSet(Units, CountedOf(window[i].product))

\* The order could be seen, and was at most a second old, when r looked.
InTime(r, o) ==
    /\ committed[o] # NotYet
    /\ committed[o] < since[r] + LookBack
    /\ placed[o] >= since[r]

\* A run that ends normally counts the orders of the second before it began,
\* and no run counts an older one.  So runs more than a second apart never
\* count an order twice, and miss none if there is no more between them and the
\* orders are committed at once.
CountsTheLastSecond ==
    /\ \A c \in counted : committed[c[2]] # NotYet /\ placed[c[2]] >= since[c[1]]
    /\ \A r \in Runs : pc[r] = "done" =>
          \A x \in Lines :
              InTime(r, x[1]) /\ quantity[x[1]][x[2]] > 0
                  => <<r, x[1], x[2]>> \in counted

\* A product that is not in the map ends the run; as the newest orders come
\* first, those placed after the order that raised have got their time.  Other
\* lines of that order, orders of the same instant and older ones may have not.
RaiseSparesNewer ==
    \A r \in Runs : pc[r] = "raised" =>
        /\ line[r] \in Lines
        /\ \A x \in Lines :
              InTime(r, x[1]) /\ quantity[x[1]][x[2]] > 0
                  /\ placed[x[1]] > placed[line[r][1]]
                  => <<r, x[1], x[2]>> \in counted

=============================================================================
