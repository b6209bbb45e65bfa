------------------------- MODULE SubscriptionProofs -------------------------
(***************************************************************************)
(* Theorems about sync_orders, for any number of orders, products and      *)
(* runs, overlapping in any way.                                           *)
(***************************************************************************)
EXTENDS Subscription, SumProofs, TLAPS

-----------------------------------------------------------------------------
(***************************************************************************)
(* The inductive invariant.                                                *)
(***************************************************************************)

\* Orders are dated before they are committed, and not in the future.
Dated ==
    \A o \in Orders :
        /\ committed[o] # NotYet => placed[o] # NotYet
        /\ placed[o] # NotYet => placed[o] <= now

\* What a run works on was asked for.
Fresh(r, x) == committed[x[1]] # NotYet /\ placed[x[1]] >= since[r]

Sound(r) ==
    /\ pc[r] # "waiting" => since[r] \in Int /\ since[r] + LookBack <= now
    /\ pc[r] \in {"waiting", "begun"} => todo[r] = {}
    /\ pc[r] \in {"saving", "raised"} => line[r] \in Lines /\ Fresh(r, line[r])
    /\ \A x \in todo[r] : Fresh(r, x)

RunsAreSound == \A r \in Runs : Sound(r)

Typed == TypeOK /\ Dated /\ RunsAreSound

\* A line that could be seen in time is counted, being counted, or still to do.
Accounted(r, x) ==
    \/ <<r, x[1], x[2]>> \in counted
    \/ pc[r] \in {"looping", "saving"} /\ x \in todo[r]
    \/ pc[r] = "saving" /\ line[r] = x

Wanted(r, x) == InTime(r, x[1]) /\ quantity[x[1]][x[2]] > 0

NothingForgotten ==
    \A r \in Runs : pc[r] \in {"looping", "saving", "done"} =>
        \A x \in Lines : Wanted(r, x) => Accounted(r, x)

\* Newest first: what is left is not newer than the line at hand.
NewestFirst ==
    \A r \in Runs : pc[r] = "saving" =>
        \A y \in todo[r] : placed[y[1]] <= placed[line[r][1]]

CountedWereFresh ==
    \A r \in Runs, x \in Lines :
        <<r, x[1], x[2]>> \in counted => Fresh(r, x) /\ pc[r] # "waiting"

Inv == Typed /\ NothingForgotten /\ NewestFirst /\ CountedWereFresh /\ RaiseSparesNewer

-----------------------------------------------------------------------------

\* A line turns a row into a row of the same product that does not end earlier.
LEMMA Extension ==
    ASSUME TypeOK, NEW w \in Window, NEW o \in Orders, NEW p \in Products,
           placed[o] # NotYet
    PROVE  /\ ExtendedBy(w, o, p) \in Window
           /\ ExtendedBy(w, o, p).end >= w.end
           /\ placed[o] \in Nat
           /\ placed[o] + Month * quantity[o][p] \in Nat
  <1>1. placed[o] \in Nat
    BY NumbersAssumption DEF TypeOK, Time
  <1>2. quantity[o][p] \in Nat
    BY ProductsAssumption DEF TypeOK
  <1>3. PICK bought \in Nat : bought = Month * quantity[o][p]
    BY <1>2, NumbersAssumption
  <1>4. w.product \in Products /\ w.start \in Nat /\ w.end \in Nat
    BY DEF Window
  <1>5. CASE w.end > placed[o]
    <2>1. ExtendedBy(w, o, p) = [w EXCEPT !.end = w.end + bought]
      BY <1>3, <1>5 DEF ExtendedBy
    <2>2. w.end + bought \in Nat /\ w.end + bought >= w.end
      BY <1>3, <1>4
    <2>3. ExtendedBy(w, o, p) \in Window /\ ExtendedBy(w, o, p).end = w.end + bought
      BY <2>1, <2>2 DEF Window
    <2> QED
      BY <1>1, <1>3, <2>2, <2>3
  <1>6. CASE ~(w.end > placed[o])
    <2>1. ExtendedBy(w, o, p) =
              [w EXCEPT !.start = placed[o], !.end = placed[o] + bought]
      BY <1>3, <1>6 DEF ExtendedBy
    <2>2. placed[o] + bought \in Nat /\ placed[o] + bought >= w.end
      BY <1>1, <1>3, <1>4, <1>6
    <2>3. ExtendedBy(w, o, p) \in Window
          /\ ExtendedBy(w, o, p).end = placed[o] + bought
      BY <1>1, <2>1, <2>2 DEF Window
    <2> QED
      BY <1>1, <1>3, <2>2, <2>3
  <1> QED
    BY <1>5, <1>6

LEMMA DateIsNumber ==
    ASSUME TypeOK, NEW o \in Orders, placed[o] # NotYet
    PROVE  placed[o] \in Int
  <1>1. placed \in [Orders -> Time \cup {NotYet}]
    BY DEF TypeOK
  <1>2. Time \subseteq Int
    BY NumbersAssumption DEF Time
  <1> QED
    BY <1>1, <1>2

\* The line a run is saving.
LEMMA AtALine ==
    ASSUME Typed, NEW r \in Runs, pc[r] = "saving"
    PROVE  /\ line[r] \in Lines
           /\ line[r][1] \in Orders /\ line[r][2] \in Products
           /\ line[r] = <<line[r][1], line[r][2]>>
           /\ Fresh(r, line[r])
           /\ placed[line[r][1]] # NotYet
  <1>1. line[r] \in Lines /\ Fresh(r, line[r])
    BY DEF Typed, RunsAreSound, Sound
  <1>2. line[r][1] \in Orders /\ line[r][2] \in Products
        /\ line[r] = <<line[r][1], line[r][2]>>
    BY <1>1 DEF Lines
  <1> QED
    BY <1>1, <1>2 DEF Typed, Dated, Fresh

-----------------------------------------------------------------------------
(***************************************************************************)
(* Types.                                                                  *)
(***************************************************************************)

LEMMA InitTyped == Init => Typed
  <1> SUFFICES ASSUME Init PROVE Typed
    OBVIOUS
  <1>1. TypeOK
    BY NumbersAssumption DEF Init, TypeOK, Nothing, Time
  <1> QED
    BY <1>1 DEF Init, Typed, Dated, RunsAreSound, Sound

LEMMA NextTypeOK == Typed /\ [Next]_vars => TypeOK'
  <1> SUFFICES ASSUME Typed, [Next]_vars PROVE TypeOK'
    OBVIOUS
  <1> USE DEF TypeOK
  <1>0. TypeOK
    BY DEF Typed
  <1>1. CASE Tick
    BY <1>0, <1>1, NumbersAssumption
       DEF Tick, Time, orderVars, runVars, historyVars
  <1>2. ASSUME NEW o \in Orders, CreateOrder(o) \/ CommitOrder(o) PROVE TypeOK'
    BY <1>0, <1>2 DEF CreateOrder, CommitOrder, runVars, historyVars
  <1>3. ASSUME NEW r \in Runs, Begin(r) PROVE TypeOK'
    <2>1. now - LookBack \in Int
      BY <1>0, NumbersAssumption DEF Time
    <2> QED
      BY <1>0, <1>3, <2>1 DEF Begin, orderVars, historyVars
  <1>4. ASSUME NEW r \in Runs, List(r) PROVE TypeOK'
    BY <1>0, <1>4 DEF List, orderVars, historyVars
  <1>5. ASSUME NEW r \in Runs, NEW x \in Lines, ReadRows(r, x) PROVE TypeOK'
    BY <1>0, <1>5 DEF ReadRows, orderVars, historyVars
  <1>6. ASSUME NEW r \in Runs, NEW i \in Rows, SaveRow(r, i) PROVE TypeOK'
    <2>1. pc[r] = "saving" /\ copy[r][i] # NoWindow
      BY <1>6 DEF SaveRow
    <2>2. PICK x \in Lines : x = line[r] /\ placed[x[1]] # NotYet
                             /\ x[1] \in Orders /\ x[2] \in Products
      BY <2>1, AtALine
    <2>3. copy[r][i] \in Window
      BY <1>0, <2>1
    <2>4. ExtendedBy(copy[r][i], x[1], x[2]) \in Window
      BY <1>0, <2>2, <2>3, Extension
    <2>5. window' \in [Rows -> Window \cup {NoWindow}]
      BY <1>0, <1>6, <2>2, <2>4 DEF SaveRow
    <2>6. copy' \in [Runs -> [Rows -> Window \cup {NoWindow}]]
      BY <1>0, <1>6 DEF SaveRow
    <2>7. counted' \subseteq Runs \X Orders \X Products
      BY <1>0, <1>6, <2>2 DEF SaveRow, Counts
    <2>8. clashed' \subseteq Products
      BY <1>0, <1>6, <2>2 DEF SaveRow
    <2>9. pc' \in [Runs -> {"waiting", "begun", "looping", "saving", "done",
                            "raised", "killed"}]
      BY <1>0, <1>6 DEF SaveRow
    <2> QED
      BY <1>0, <1>6, <2>5, <2>6, <2>7, <2>8, <2>9 DEF SaveRow, orderVars
  <1>7. ASSUME NEW r \in Runs, NEW i \in Rows, CreateRow(r, i) PROVE TypeOK'
    <2>1. pc[r] = "saving"
      BY <1>7 DEF CreateRow
    <2>2. PICK x \in Lines : x = line[r] /\ placed[x[1]] # NotYet
                             /\ x[1] \in Orders /\ x[2] \in Products
      BY <2>1, AtALine
    <2>3. PICK w \in Window : w = [product |-> x[2], start |-> placed[x[1]],
              end |-> placed[x[1]] + Month * quantity[x[1]][x[2]]]
      <3>1. placed[x[1]] \in Nat
        BY <1>0, <2>2, NumbersAssumption DEF Time
      <3>2. quantity[x[1]][x[2]] \in Nat
        BY <1>0, <2>2, ProductsAssumption
      <3>3. PICK b \in Nat : b = Month * quantity[x[1]][x[2]]
        BY <3>2, NumbersAssumption
      <3>4. [product |-> x[2], start |-> placed[x[1]], end |-> placed[x[1]] + b]
                \in Window
        BY <2>2, <3>1 DEF Window
      <3> QED
        BY <3>3, <3>4
    <2>4. window' \in [Rows -> Window \cup {NoWindow}]
      <3> DEFINE new == [product |-> line[r][2], start |-> placed[line[r][1]],
                 end |-> placed[line[r][1]]
                            + Month * quantity[line[r][1]][line[r][2]]]
      <3>1. window' = [window EXCEPT ![i] = new]
        BY <1>7, Zenon DEF CreateRow
      <3>2. new = w
        BY <2>2, <2>3, Zenon
      <3> HIDE DEF new
      <3> QED
        BY <1>0, <3>1, <3>2
    <2>5. counted' \subseteq Runs \X Orders \X Products /\ clashed' \subseteq Products
      BY <1>0, <1>7, <2>2 DEF CreateRow, Counts
    <2>6. pc' \in [Runs -> {"waiting", "begun", "looping", "saving", "done",
                            "raised", "killed"}]
      BY <1>0, <1>7 DEF CreateRow
    <2> QED
      BY <1>0, <1>7, <2>4, <2>5, <2>6 DEF CreateRow, orderVars
  <1>8. ASSUME NEW r \in Runs, RaiseKeyError(r) \/ Finish(r) \/ Die(r) PROVE TypeOK'
    <2>1. Nothing \in [Rows -> Window \cup {NoWindow}]
      BY DEF Nothing
    <2>2. CASE RaiseKeyError(r)
      BY <1>0, <2>1, <2>2 DEF RaiseKeyError, orderVars, historyVars
    <2>3. CASE Finish(r)
      BY <1>0, <2>3 DEF Finish, orderVars, historyVars
    <2>4. CASE Die(r)
      BY <1>0, <2>1, <2>4 DEF Die, orderVars, historyVars
    <2> QED
      BY <1>8, <2>2, <2>3, <2>4
  <1>9. CASE AllEnded \/ UNCHANGED vars
    BY <1>0, <1>9 DEF AllEnded, vars, orderVars, runVars, historyVars
  <1> QED
    BY <1>1, <1>2, <1>3, <1>4, <1>5, <1>6, <1>7, <1>8, <1>9 DEF Next, Run

-----------------------------------------------------------------------------
(***************************************************************************)
(* Orders and runs.                                                        *)
(***************************************************************************)

\* An order keeps its lines and its times, and the clock goes forward.
LEMMA OrdersStay ==
    ASSUME Typed, [Next]_vars
    PROVE  /\ quantity' = quantity
           /\ now' \in Int /\ now \in Int /\ now <= now'
           /\ \A o \in Orders :
                 /\ placed[o] # NotYet => placed'[o] = placed[o]
                 /\ committed[o] # NotYet => committed'[o] = committed[o]
                 /\ committed'[o] # committed[o] => committed'[o] = now
  <1> DEFINE Stay ==
        /\ quantity' = quantity
        /\ now' \in Int /\ now \in Int /\ now <= now'
        /\ \A o \in Orders :
              /\ placed[o] # NotYet => placed'[o] = placed[o]
              /\ committed[o] # NotYet => committed'[o] = committed[o]
              /\ committed'[o] # committed[o] => committed'[o] = now
  <1>0. TypeOK /\ now \in Int
    BY DEF Typed, TypeOK, Time
  <1>1. CASE Tick
    BY <1>0, <1>1 DEF Tick, orderVars
  <1>2. ASSUME NEW o \in Orders, CreateOrder(o) \/ CommitOrder(o) PROVE Stay
    BY <1>0, <1>2 DEF CreateOrder, CommitOrder, TypeOK
  <1>3. ASSUME NEW r \in Runs, Run(r) PROVE Stay
    <2>1. UNCHANGED <<now, orderVars>>
      BY <1>3 DEF Run, Begin, List, ReadRows, SaveRow, CreateRow, RaiseKeyError,
                  Finish, Die
    <2> QED
      BY <1>0, <2>1 DEF orderVars
  <1>4. CASE AllEnded \/ UNCHANGED vars
    BY <1>0, <1>4 DEF AllEnded, vars, orderVars
  <1> QED
    BY <1>1, <1>2, <1>3, <1>4 DEF Next

LEMMA DatedStep == Typed /\ [Next]_vars => Dated'
  <1> SUFFICES ASSUME Typed, [Next]_vars PROVE Dated'
    OBVIOUS
  <1>0. TypeOK /\ Dated /\ now \in Int /\ now' \in Int /\ now <= now'
    BY OrdersStay DEF Typed
  <1>1. ASSUME UNCHANGED orderVars PROVE Dated'
    BY <1>0, <1>1, NumbersAssumption DEF Dated, orderVars, TypeOK, Time
  <1>2. ASSUME NEW o \in Orders, CreateOrder(o) PROVE Dated'
    BY <1>0, <1>2, NumbersAssumption DEF CreateOrder, Dated, TypeOK, Time
  <1>3. ASSUME NEW o \in Orders, CommitOrder(o) PROVE Dated'
    BY <1>0, <1>3, NumbersAssumption DEF CommitOrder, Dated, TypeOK, Time
  <1>4. ASSUME NEW r \in Runs, Run(r) PROVE UNCHANGED orderVars
    BY <1>4 DEF Run, Begin, List, ReadRows, SaveRow, CreateRow, RaiseKeyError,
                Finish, Die
  <1> QED
    BY <1>1, <1>2, <1>3, <1>4 DEF Next, Tick, AllEnded, vars

\* An order in a run's list stays one that it asked for.
LEMMA FreshStays ==
    ASSUME Typed, [Next]_vars, NEW r \in Runs, NEW x \in Lines,
           Fresh(r, x), since'[r] = since[r]
    PROVE  Fresh(r, x)' /\ placed'[x[1]] = placed[x[1]]
  <1>1. x[1] \in Orders
    BY DEF Lines
  <1>2. placed[x[1]] # NotYet /\ committed[x[1]] # NotYet
    BY <1>1 DEF Fresh, Typed, Dated
  <1> QED
    BY <1>1, <1>2, OrdersStay DEF Fresh

\* A step that leaves a run alone keeps what is known of it.
LEMMA OtherRun ==
    ASSUME Typed, [Next]_vars, NEW r \in Runs,
           pc'[r] = pc[r], since'[r] = since[r], todo'[r] = todo[r],
           line'[r] = line[r]
    PROVE  Sound(r)'
  <1>0. Sound(r)
    BY DEF Typed, RunsAreSound
  <1>1. pc[r] # "waiting" => since[r] \in Int /\ since[r] + LookBack <= now'
    BY <1>0, OrdersStay, NumbersAssumption DEF Sound
  <1>2. ASSUME pc[r] \in {"saving", "raised"}
        PROVE  line[r] \in Lines /\ Fresh(r, line[r])'
    <2>1. PICK x \in Lines : x = line[r] /\ Fresh(r, x)
      BY <1>0, <1>2 DEF Sound
    <2>2. Fresh(r, x)'
      BY <2>1, FreshStays
    <2> QED
      BY <2>1, <2>2 DEF Fresh
  <1>3. \A x \in todo[r] : Fresh(r, x)'
    BY <1>0, FreshStays DEF Typed, TypeOK, Sound
  <1> QED
    BY <1>0, <1>1, <1>2, <1>3 DEF Sound

\* Every step is one of time, orders or a single run, and that run leaves the
\* others alone.
LEMMA StepCases ==
    ASSUME TypeOK, [Next]_vars
    PROVE  \/ UNCHANGED <<runVars, historyVars, window>>
           \/ \E r \in Runs :
                 /\ Run(r)
                 /\ UNCHANGED <<now, orderVars>>
                 /\ \A q \in Runs \ {r} :
                       /\ pc'[q] = pc[q] /\ since'[q] = since[q]
                       /\ todo'[q] = todo[q] /\ line'[q] = line[q]
                       /\ copy'[q] = copy[q]
  <1>1. CASE Tick \/ AllEnded \/ UNCHANGED vars
    BY <1>1 DEF Tick, AllEnded, vars
  <1>2. ASSUME NEW o \in Orders, CreateOrder(o) \/ CommitOrder(o)
        PROVE  UNCHANGED <<runVars, historyVars, window>>
    BY <1>2 DEF CreateOrder, CommitOrder
  <1>3. ASSUME NEW r \in Runs, Run(r)
        PROVE  /\ UNCHANGED <<now, orderVars>>
               /\ \A q \in Runs \ {r} :
                       /\ pc'[q] = pc[q] /\ since'[q] = since[q]
                       /\ todo'[q] = todo[q] /\ line'[q] = line[q]
                       /\ copy'[q] = copy[q]
    BY <1>3 DEF Run, Begin, List, ReadRows, SaveRow, CreateRow, RaiseKeyError,
                Finish, Die, TypeOK
  <1> QED
    BY <1>1, <1>2, <1>3 DEF Next

LEMMA SoundStep == Typed /\ [Next]_vars => RunsAreSound'
  <1> SUFFICES ASSUME Typed, [Next]_vars, NEW q \in Runs PROVE Sound(q)'
    BY DEF RunsAreSound
  <1>0. TypeOK /\ Sound(q) /\ now \in Int
    BY DEF Typed, RunsAreSound, TypeOK, Time
  <1>1. CASE UNCHANGED <<runVars, historyVars, window>>
    BY <1>1, OtherRun DEF runVars
  <1>2. ASSUME NEW r \in Runs, r # q,
               \A p \in Runs \ {r} :
                   /\ pc'[p] = pc[p] /\ since'[p] = since[p]
                   /\ todo'[p] = todo[p] /\ line'[p] = line[p]
        PROVE  Sound(q)'
    BY <1>2, OtherRun
  <1>3. ASSUME Run(q), UNCHANGED <<now, orderVars>> PROVE Sound(q)'
    <2> USE <1>0, <1>3 DEF orderVars
    <2>1. CASE Begin(q)
      BY <2>1, NumbersAssumption DEF Begin, Sound, TypeOK
    <2>2. CASE List(q)
      BY <2>2 DEF List, Sound, TypeOK, Fresh
    <2>3. ASSUME NEW x \in Lines, ReadRows(q, x) PROVE Sound(q)'
      BY <2>3 DEF ReadRows, Sound, TypeOK, Fresh
    <2>4. ASSUME NEW i \in Rows, SaveRow(q, i) \/ CreateRow(q, i) PROVE Sound(q)'
      BY <2>4 DEF SaveRow, CreateRow, Sound, TypeOK, Fresh
    <2>5. CASE RaiseKeyError(q)
      BY <2>5 DEF RaiseKeyError, Sound, TypeOK, Fresh
    <2>6. CASE Finish(q) \/ Die(q)
      BY <2>6 DEF Finish, Die, Sound, TypeOK, Fresh
    <2> QED
      BY <2>1, <2>2, <2>3, <2>4, <2>5, <2>6 DEF Run
  <1> QED
    BY <1>0, <1>1, <1>2, <1>3, StepCases

THEOREM SpecTyped == Spec => []Typed
  <1>1. Typed /\ [Next]_vars => Typed'
    BY NextTypeOK, DatedStep, SoundStep DEF Typed
  <1> QED
    BY <1>1, InitTyped, PTL DEF Spec

\* Every variable keeps its type, however orders and runs interleave.
THEOREM TypeCorrect == Spec => []TypeOK
  <1>1. Typed => TypeOK
    BY DEF Typed
  <1> QED
    BY <1>1, SpecTyped, PTL

-----------------------------------------------------------------------------
(***************************************************************************)
(* What a run counts.                                                      *)
(***************************************************************************)

\* A line that is in time for a run after a step was so before.
LEMMA WantedBefore ==
    ASSUME Typed, [Next]_vars, NEW r \in Runs, NEW x \in Lines,
           pc[r] # "waiting", since'[r] = since[r], Wanted(r, x)'
    PROVE  Wanted(r, x) /\ placed'[x[1]] = placed[x[1]]
  <1>1. x[1] \in Orders
    BY DEF Lines
  <1>2. since[r] \in Int /\ since[r] + LookBack <= now
    BY DEF Typed, RunsAreSound, Sound
  <1>3. committed'[x[1]] = committed[x[1]]
    <2>0. PICK o \in Orders : o = x[1]
      BY <1>1
    <2>1. /\ now \in Int
          /\ committed'[o] # committed[o] => committed'[o] = now
      BY OrdersStay
    <2>2. committed'[x[1]] < since[r] + LookBack
      BY DEF Wanted, InTime
    <2> QED
      BY <1>2, <2>0, <2>1, <2>2, NumbersAssumption
  <1>4. placed'[x[1]] = placed[x[1]]
    BY <1>1, <1>3, OrdersStay DEF Wanted, InTime, Typed, Dated
  <1> QED
    BY <1>3, <1>4, OrdersStay DEF Wanted, InTime

LEMMA CountedGrows == ASSUME [Next]_vars PROVE counted \subseteq counted'
  BY DEF Next, Tick, CreateOrder, CommitOrder, Run, Begin, List, ReadRows, SaveRow,
         CreateRow, RaiseKeyError, Finish, Die, AllEnded, Counts, vars, historyVars

LEMMA CountedFreshStep ==
    ASSUME Typed, CountedWereFresh, [Next]_vars
    PROVE  CountedWereFresh'
  <1> SUFFICES ASSUME NEW r \in Runs, NEW x \in Lines, <<r, x[1], x[2]>> \in counted'
               PROVE  Fresh(r, x)' /\ pc'[r] # "waiting"
    BY DEF CountedWereFresh
  <1>0. TypeOK /\ x[1] \in Orders /\ x[2] \in Products /\ x = <<x[1], x[2]>>
    BY DEF Typed, Lines
  <1>1. ASSUME <<r, x[1], x[2]>> \in counted
        PROVE  Fresh(r, x)' /\ pc'[r] # "waiting"
    <2>1. Fresh(r, x) /\ pc[r] # "waiting"
      BY <1>1 DEF CountedWereFresh
    <2>2. since'[r] = since[r] /\ pc'[r] # "waiting"
      BY <1>0, <2>1 DEF Next, Tick, CreateOrder, CommitOrder, Run, Begin, List, ReadRows,
         SaveRow, CreateRow, RaiseKeyError, Finish, Die, AllEnded, vars, runVars, TypeOK
    <2> QED
      BY <2>1, <2>2, FreshStays
  <1>2. ASSUME <<r, x[1], x[2]>> \notin counted
        PROVE  Fresh(r, x)' /\ pc'[r] # "waiting"
    <2>1. PICK q \in Runs, i \in Rows :
              /\ SaveRow(q, i) \/ CreateRow(q, i)
              /\ pc[q] = "saving" /\ pc'[q] # "waiting"
              /\ since' = since
              /\ <<r, x[1], x[2]>> = <<q, line[q][1], line[q][2]>>
      <3>1. ~UNCHANGED counted
        BY <1>2
      <3>2. PICK q \in Runs, i \in Rows : SaveRow(q, i) \/ CreateRow(q, i)
        BY <3>1 DEF Next, Tick, CreateOrder, CommitOrder, Run, Begin, List, ReadRows,
           RaiseKeyError, Finish, Die, AllEnded, vars, historyVars
      <3>3. /\ pc[q] = "saving" /\ pc'[q] # "waiting" /\ since' = since
            /\ counted' = counted \cup {<<q, line[q][1], line[q][2]>>}
        BY <1>0, <3>2 DEF SaveRow, CreateRow, Counts, TypeOK
      <3> QED
        BY <1>2, <3>2, <3>3
    <2>2. q = r /\ line[r] = x /\ Fresh(r, line[r])
      BY <1>0, <2>1, AtALine
    <2> QED
      BY <2>1, <2>2, FreshStays
  <1> QED
    BY <1>1, <1>2

LEMMA NewestFirstStep ==
    ASSUME Typed, NewestFirst, [Next]_vars
    PROVE  NewestFirst'
  <1> SUFFICES ASSUME NEW q \in Runs, pc'[q] = "saving", NEW y \in todo'[q]
               PROVE  placed'[y[1]] <= placed'[line'[q][1]]
    BY DEF NewestFirst
  <1>0. TypeOK
    BY DEF Typed
  <1>1. ASSUME pc[q] = "saving", since'[q] = since[q], todo'[q] = todo[q],
               line'[q] = line[q]
        PROVE  placed'[y[1]] <= placed'[line'[q][1]]
    <2>1. y \in Lines /\ Fresh(q, y)
      BY <1>0, <1>1 DEF Typed, TypeOK, RunsAreSound, Sound
    <2>2. placed'[y[1]] = placed[y[1]]
      BY <1>1, <2>1, FreshStays
    <2>3. line[q] \in Lines /\ placed'[line[q][1]] = placed[line[q][1]]
      BY <1>1, AtALine, FreshStays
    <2> QED
      BY <1>1, <2>2, <2>3 DEF NewestFirst
  <1>2. CASE UNCHANGED <<runVars, historyVars, window>>
    BY <1>1, <1>2 DEF runVars
  <1>3. ASSUME Run(q), UNCHANGED <<now, orderVars>>
        PROVE  placed'[y[1]] <= placed'[line'[q][1]]
    <2>1. ASSUME NEW x \in Lines, ReadRows(q, x)
          PROVE  placed'[y[1]] <= placed'[line'[q][1]]
      <3>1. x \in todo[q] /\ y \in todo[q] /\ line'[q] = x /\ ~Before(x[1], y[1])
        BY <1>0, <2>1 DEF ReadRows, TypeOK
      <3>2. y \in Lines /\ Fresh(q, x) /\ Fresh(q, y) /\ x[1] \in Orders /\ y[1] \in Orders
        BY <1>0, <3>1 DEF Typed, TypeOK, RunsAreSound, Sound, Lines
      <3>3. placed[x[1]] \in Int /\ placed[y[1]] \in Int
        <4>1. placed[x[1]] # NotYet /\ placed[y[1]] # NotYet
          BY <3>2 DEF Typed, Dated, Fresh
        <4> QED
          BY <1>0, <3>2, <4>1, DateIsNumber
      <3> QED
        BY <1>3, <3>1, <3>3 DEF Before, orderVars
    <2>2. ASSUME NEW i \in Rows, SaveRow(q, i) \/ CreateRow(q, i)
          PROVE  placed'[y[1]] <= placed'[line'[q][1]]
      BY <1>1, <2>2 DEF SaveRow, CreateRow
    <2>3. ~Begin(q) /\ ~List(q) /\ ~RaiseKeyError(q) /\ ~Finish(q) /\ ~Die(q)
      BY <1>0 DEF Begin, List, RaiseKeyError, Finish, Die, TypeOK
    <2> QED
      BY <1>3, <2>1, <2>2, <2>3 DEF Run
  <1> QED
    BY <1>0, <1>1, <1>2, <1>3, StepCases

LEMMA NothingForgottenStep ==
    ASSUME Typed, NothingForgotten, [Next]_vars
    PROVE  NothingForgotten'
  <1> SUFFICES ASSUME NEW q \in Runs, pc'[q] \in {"looping", "saving", "done"},
                      NEW x \in Lines, Wanted(q, x)'
               PROVE  Accounted(q, x)'
    BY DEF NothingForgotten
  <1>0. TypeOK /\ counted \subseteq counted'
    BY CountedGrows DEF Typed
  <1>1. ASSUME pc'[q] = pc[q], since'[q] = since[q], todo'[q] = todo[q],
               line'[q] = line[q]
        PROVE  Accounted(q, x)'
    <2>1. Wanted(q, x)
      BY <1>1, WantedBefore
    <2> QED
      BY <1>0, <1>1, <2>1 DEF NothingForgotten, Accounted
  <1>2. CASE UNCHANGED <<runVars, historyVars, window>>
    BY <1>1, <1>2 DEF runVars
  <1>3. ASSUME Run(q), UNCHANGED <<now, orderVars>> PROVE Accounted(q, x)'
    <2>1. CASE List(q)
      BY <1>0, <1>3, <2>1 DEF List, Accounted, Wanted, InTime, orderVars, TypeOK
    <2>2. ASSUME pc[q] \in {"looping", "saving"}, since'[q] = since[q]
          PROVE  Accounted(q, x)
      BY <2>2, WantedBefore DEF NothingForgotten
    <2>3. ASSUME NEW y \in Lines, ReadRows(q, y) PROVE Accounted(q, x)'
      <3>1. Accounted(q, x) /\ pc[q] = "looping"
        BY <2>2, <2>3 DEF ReadRows
      <3>2. /\ pc'[q] = "saving" /\ line'[q] = y
            /\ \A z \in todo[q] : z = y \/ z \in todo'[q]
        BY <1>0, <2>3 DEF ReadRows, TypeOK
      <3> QED
        BY <1>0, <3>1, <3>2 DEF Accounted
    <2>4. ASSUME NEW i \in Rows, SaveRow(q, i) \/ CreateRow(q, i)
          PROVE  Accounted(q, x)'
      <3>1. Accounted(q, x) /\ pc[q] = "saving"
        BY <2>2, <2>4 DEF SaveRow, CreateRow
      <3>2. /\ pc'[q] \in {"looping", "saving"} /\ todo' = todo
            /\ <<q, line[q][1], line[q][2]>> \in counted'
        BY <1>0, <2>4 DEF SaveRow, CreateRow, Counts, TypeOK
      <3> QED
        BY <1>0, <3>1, <3>2 DEF Accounted
    <2>5. CASE Finish(q)
      <3>1. Accounted(q, x) /\ pc[q] = "looping" /\ todo[q] = {}
        BY <2>2, <2>5 DEF Finish
      <3> QED
        BY <1>0, <3>1 DEF Accounted
    <2>6. ~Begin(q) /\ ~RaiseKeyError(q) /\ ~Die(q)
      BY <1>0 DEF Begin, RaiseKeyError, Die, TypeOK
    <2> QED
      BY <1>3, <2>1, <2>3, <2>4, <2>5, <2>6 DEF Run
  <1> QED
    BY <1>0, <1>1, <1>2, <1>3, StepCases

LEMMA RaiseStep ==
    ASSUME Inv, [Next]_vars
    PROVE  RaiseSparesNewer'
  <1>0. Typed /\ TypeOK /\ counted \subseteq counted'
    BY CountedGrows DEF Inv, Typed
  <1> SUFFICES ASSUME NEW q \in Runs, pc'[q] = "raised"
               PROVE  /\ line'[q] \in Lines
                      /\ \A x \in Lines :
                            Wanted(q, x)' /\ placed'[x[1]] > placed'[line'[q][1]]
                                => <<q, x[1], x[2]>> \in counted'
    BY DEF RaiseSparesNewer, Wanted
  <1>1. ASSUME pc[q] = "raised", since'[q] = since[q], line'[q] = line[q]
        PROVE  /\ line'[q] \in Lines
               /\ \A x \in Lines :
                     Wanted(q, x)' /\ placed'[x[1]] > placed'[line'[q][1]]
                         => <<q, x[1], x[2]>> \in counted'
    <2>1. line[q] \in Lines /\ Fresh(q, line[q])
      BY <1>0, <1>1 DEF Typed, RunsAreSound, Sound
    <2>2. placed'[line[q][1]] = placed[line[q][1]]
      BY <1>0, <1>1, <2>1, FreshStays
    <2>3. ASSUME NEW x \in Lines, Wanted(q, x)', placed'[x[1]] > placed'[line'[q][1]]
          PROVE  <<q, x[1], x[2]>> \in counted
      <3>1. Wanted(q, x) /\ placed'[x[1]] = placed[x[1]]
        BY <1>0, <1>1, <2>3, WantedBefore
      <3> QED
        BY <1>1, <2>2, <2>3, <3>1 DEF Inv, RaiseSparesNewer, Wanted
    <2> QED
      BY <1>0, <1>1, <2>1, <2>3
  <1>2. CASE UNCHANGED <<runVars, historyVars, window>>
    BY <1>1, <1>2 DEF runVars
  <1>3. ASSUME Run(q), UNCHANGED <<now, orderVars>>
        PROVE  /\ line'[q] \in Lines
               /\ \A x \in Lines :
                     Wanted(q, x)' /\ placed'[x[1]] > placed'[line'[q][1]]
                         => <<q, x[1], x[2]>> \in counted'
    <2>1. RaiseKeyError(q)
      BY <1>0, <1>3 DEF Run, Begin, List, ReadRows, SaveRow, CreateRow, Finish, Die, TypeOK
    <2>2. pc[q] = "saving" /\ since' = since /\ line' = line
      BY <2>1 DEF RaiseKeyError
    <2>3. line[q] \in Lines /\ Fresh(q, line[q]) /\ placed[line[q][1]] \in Int
      <3>1. line[q] \in Lines /\ Fresh(q, line[q]) /\ line[q][1] \in Orders
            /\ placed[line[q][1]] # NotYet
        BY <1>0, <2>2, AtALine
      <3> QED
        BY <1>0, <3>1, DateIsNumber
    <2>4. ASSUME NEW x \in Lines, Wanted(q, x)', placed'[x[1]] > placed'[line'[q][1]]
          PROVE  <<q, x[1], x[2]>> \in counted
      <3>1. Wanted(q, x) /\ placed[x[1]] > placed[line[q][1]]
        BY <1>0, <1>3, <2>2, <2>4, WantedBefore DEF orderVars
      <3>2. Accounted(q, x)
        BY <2>2, <3>1 DEF Inv, NothingForgotten
      <3>3. x \notin todo[q]
        <4>1. x[1] \in Orders /\ placed[x[1]] # NotYet
          BY <1>0, <3>1 DEF Typed, Dated, Wanted, InTime, Lines
        <4>2. placed[x[1]] \in Int
          BY <1>0, <4>1, DateIsNumber
        <4> QED
          BY <2>2, <2>3, <3>1, <4>2 DEF Inv, NewestFirst
      <3>4. x # line[q]
        BY <2>3, <3>1
      <3> QED
        BY <3>2, <3>3, <3>4 DEF Accounted
    <2> QED
      BY <1>0, <2>2, <2>3, <2>4
  <1> QED
    BY <1>0, <1>1, <1>2, <1>3, StepCases

THEOREM SpecInv == Spec => []Inv
  <1>1. Init => Inv
    BY InitTyped
       DEF Init, Inv, NothingForgotten, NewestFirst, CountedWereFresh, RaiseSparesNewer
  <1>2. Inv /\ [Next]_vars => Inv'
    BY NextTypeOK, DatedStep, SoundStep, NothingForgottenStep, NewestFirstStep,
       CountedFreshStep, RaiseStep DEF Inv, Typed
  <1> QED
    BY <1>1, <1>2, PTL DEF Spec

\* A run that ends normally counts every order of the second before it began,
\* and no run counts an older one, however many runs overlap.
THEOREM LastSecondCounted == Spec => []CountsTheLastSecond
  <1>1. Inv => CountsTheLastSecond
    <2> SUFFICES ASSUME Inv PROVE CountsTheLastSecond
      OBVIOUS
    <2>1. ASSUME NEW c \in counted
          PROVE  committed[c[2]] # NotYet /\ placed[c[2]] >= since[c[1]]
      <3>1. PICK r \in Runs, o \in Orders, p \in Products : c = <<r, o, p>>
        BY DEF Inv, Typed, TypeOK
      <3>2. <<o, p>> \in Lines
        BY DEF Lines
      <3> QED
        BY <3>1, <3>2 DEF Inv, CountedWereFresh, Fresh
    <2>2. ASSUME NEW r \in Runs, pc[r] = "done", NEW x \in Lines, Wanted(r, x)
          PROVE  <<r, x[1], x[2]>> \in counted
      BY <2>2 DEF Inv, NothingForgotten, Accounted
    <2> QED
      BY <2>1, <2>2 DEF CountsTheLastSecond, Wanted
  <1> QED
    BY <1>1, SpecInv, PTL

\* RaiseSparesNewer: when a product that is not in the map has ended a run, the
\* orders in time that are newer than the one that raised have been counted.
THEOREM NewerOrdersSpared == Spec => []RaiseSparesNewer
  <1>1. Inv => RaiseSparesNewer
    BY DEF Inv
  <1> QED
    BY <1>1, SpecInv, PTL

-----------------------------------------------------------------------------
(***************************************************************************)
(* What a run does to windows.                                             *)
(***************************************************************************)

\* A step that shortens a window is the save of a run that had read the row
\* before it was changed.
LEMMA WindowStep ==
    ASSUME Typed, [Next]_vars, NEW i \in Rows, window[i] # NoWindow
    PROVE  /\ window'[i] # NoWindow
           /\ \/ window'[i].end >= window[i].end
              \/ \E r \in Runs : Outdated(r, i)
  <1>0. TypeOK /\ window[i] \in Window /\ NoWindow \notin Window
    BY NothingAssumption DEF Typed, TypeOK
  <1>1. CASE window'[i] = window[i]
    <2>1. window[i].end \in Int
      BY <1>0 DEF Window
    <2> QED
      BY <1>1, <2>1
  <1>2. ASSUME NEW r \in Runs, SaveRow(r, i)
        PROVE  /\ window'[i] # NoWindow
               /\ \/ window'[i].end >= window[i].end
                  \/ \E q \in Runs : Outdated(q, i)
    <2>1. copy[r][i] \in Window /\ pc[r] = "saving"
      BY <1>0, <1>2 DEF SaveRow, TypeOK
    <2>2. PICK w \in Window : w = copy[r][i]
      BY <2>1
    <2>3. line[r][1] \in Orders /\ line[r][2] \in Products
          /\ placed[line[r][1]] # NotYet
      BY <2>1, AtALine
    <2>4. PICK o \in Orders, p \in Products :
              o = line[r][1] /\ p = line[r][2] /\ placed[o] # NotYet
      BY <2>3
    <2>5. window'[i] = ExtendedBy(w, o, p)
      BY <1>0, <1>2, <2>2, <2>4 DEF SaveRow, TypeOK
    <2>6. ExtendedBy(w, o, p) \in Window /\ ExtendedBy(w, o, p).end >= w.end
      BY <1>0, <2>4, Extension
    <2>7. w = window[i] \/ Outdated(r, i)
      BY <1>0, <2>2 DEF Outdated
    <2> QED
      BY <1>0, <2>5, <2>6, <2>7
  <1>3. ASSUME window'[i] # window[i] PROVE \E r \in Runs : SaveRow(r, i)
    <2>1. ~UNCHANGED window
      BY <1>3
    <2>2. PICK r \in Runs, j \in Rows : SaveRow(r, j) \/ CreateRow(r, j)
      BY <2>1 DEF Next, Tick, CreateOrder, CommitOrder, Run, Begin, List, ReadRows,
         RaiseKeyError, Finish, Die, AllEnded, vars
    <2>3. i = j /\ SaveRow(r, j)
      BY <1>0, <1>3, <2>2 DEF SaveRow, CreateRow, TypeOK
    <2> QED
      BY <2>2, <2>3
  <1> QED
    BY <1>1, <1>2, <1>3

\* A window bought never disappears or gets shorter, unless two runs clash.
THEOREM WindowsGrow == Spec => WindowsOnlyGrow
  <1>1. Typed /\ [Next]_vars =>
            [\A i \in Rows : window[i] # NoWindow =>
                /\ window'[i] # NoWindow
                /\ \/ window'[i].end >= window[i].end
                   \/ \E r \in Runs : Outdated(r, i)]_vars
    BY WindowStep
  <1> QED
    BY <1>1, SpecTyped, PTL DEF Spec, WindowsOnlyGrow

-----------------------------------------------------------------------------
(***************************************************************************)
(* What is counted, and once.                                              *)
(***************************************************************************)

\* A run has not counted what it has still to do.
LinesOnce ==
    \A r \in Runs :
        /\ pc[r] = "begun" => \A x \in Lines : <<r, x[1], x[2]>> \notin counted
        /\ \A x \in todo[r] : /\ <<r, x[1], x[2]>> \notin counted
                              /\ pc[r] = "saving" => x # line[r]

\* What a run has read are rows of the product at hand, and still there.
CopiesAreOfTheLine ==
    \A r \in Runs :
        /\ pc[r] # "saving" => copy[r] = Nothing
        /\ \A i \in Rows : copy[r][i] # NoWindow =>
              /\ copy[r][i].product = line[r][2]
              /\ window[i] # NoWindow /\ window[i].product = line[r][2]

\* Only the line at hand is counted, when a row is saved.
LEMMA CountedByRun ==
    ASSUME TypeOK, NEW r \in Runs, Run(r)
    PROVE  \/ counted' = counted
           \/ /\ pc[r] = "saving" /\ todo' = todo /\ line' = line
              /\ counted' = counted \cup {<<r, line[r][1], line[r][2]>>}
  <1>1. ASSUME NEW i \in Rows, SaveRow(r, i) \/ CreateRow(r, i)
        PROVE  /\ pc[r] = "saving" /\ todo' = todo /\ line' = line
               /\ counted' = counted \cup {<<r, line[r][1], line[r][2]>>}
    BY <1>1 DEF SaveRow, CreateRow, Counts
  <1>2. ASSUME Begin(r) \/ List(r) \/ RaiseKeyError(r) \/ Finish(r) \/ Die(r)
               \/ \E x \in Lines : ReadRows(r, x)
        PROVE  counted' = counted
    BY <1>2 DEF Begin, List, RaiseKeyError, Finish, Die, ReadRows, historyVars
  <1> QED
    BY <1>1, <1>2 DEF Run

LEMMA LinesOnceStep ==
    ASSUME Inv, LinesOnce, [Next]_vars
    PROVE  LinesOnce'
  <1>0. Typed /\ TypeOK
    BY DEF Inv, Typed
  <1>1. CASE UNCHANGED <<runVars, historyVars, window>>
    BY <1>1 DEF runVars, historyVars, LinesOnce
  <1>2. ASSUME NEW r \in Runs, Run(r), NEW q \in Runs \ {r}, pc'[q] = pc[q],
               todo'[q] = todo[q], line'[q] = line[q]
        PROVE  /\ pc'[q] = "begun" => \A x \in Lines : <<q, x[1], x[2]>> \notin counted'
               /\ \A x \in todo'[q] : /\ <<q, x[1], x[2]>> \notin counted'
                                      /\ pc'[q] = "saving" => x # line'[q]
    <2>1. \A o, p : <<q, o, p>> \in counted' => <<q, o, p>> \in counted
      BY <1>0, <1>2, CountedByRun
    <2> QED
      BY <1>2, <2>1 DEF LinesOnce
  <1>3. ASSUME NEW r \in Runs, Run(r)
        PROVE  /\ pc'[r] = "begun" => \A x \in Lines : <<r, x[1], x[2]>> \notin counted'
               /\ \A x \in todo'[r] : /\ <<r, x[1], x[2]>> \notin counted'
                                      /\ pc'[r] = "saving" => x # line'[r]
    <2>1. CASE Begin(r)
      <3>1. /\ counted' = counted /\ todo'[r] = {}
            /\ \A x \in Lines : <<r, x[1], x[2]>> \notin counted
        BY <1>0, <2>1
           DEF Begin, historyVars, Typed, RunsAreSound, Sound, Inv, CountedWereFresh
      <3> QED
        BY <3>1
    <2>2. CASE List(r)
      <3>1. /\ counted' = counted /\ todo'[r] \subseteq Lines /\ pc'[r] = "looping"
            /\ \A x \in Lines : <<r, x[1], x[2]>> \notin counted
        BY <1>0, <2>2 DEF List, historyVars, LinesOnce, TypeOK
      <3> QED
        BY <3>1
    <2>3. ASSUME NEW x \in Lines, ReadRows(r, x)
          PROVE  /\ counted' = counted /\ pc'[r] = "saving" /\ line'[r] = x
                 /\ todo'[r] = todo[r] \ {x}
      BY <1>0, <2>3 DEF ReadRows, historyVars, TypeOK
    <2>4. CASE \E x \in Lines : ReadRows(r, x)
      BY <2>3, <2>4 DEF LinesOnce
    <2>5. CASE RaiseKeyError(r) \/ Finish(r) \/ Die(r)
      <3>1. /\ counted' = counted /\ todo'[r] \subseteq todo[r]
            /\ pc'[r] \in {"raised", "done", "killed"}
        BY <1>0, <2>5 DEF RaiseKeyError, Finish, Die, historyVars, TypeOK
      <3> QED
        BY <3>1 DEF LinesOnce
    <2>6. CASE \E i \in Rows : SaveRow(r, i) \/ CreateRow(r, i)
      <3>1. /\ pc[r] = "saving" /\ pc'[r] \in {"looping", "saving"}
            /\ todo' = todo /\ line' = line
            /\ counted' = counted \cup {<<r, line[r][1], line[r][2]>>}
        BY <1>0, <2>6 DEF SaveRow, CreateRow, Counts, TypeOK
      <3>2. line[r] = <<line[r][1], line[r][2]>>
        BY <1>0, <3>1, AtALine
      <3>3. ASSUME NEW x \in todo[r]
            PROVE  <<r, x[1], x[2]>> \notin counted' /\ x # line[r]
        <4>1. x = <<x[1], x[2]>>
          BY <1>0 DEF TypeOK, Lines
        <4>2. <<r, x[1], x[2]>> \notin counted /\ x # line[r]
          BY <3>1 DEF LinesOnce
        <4> QED
          BY <3>1, <3>2, <4>1, <4>2
      <3> QED
        BY <3>1, <3>3
    <2> QED
      BY <1>3, <2>1, <2>2, <2>4, <2>5, <2>6 DEF Run
  <1> QED
    BY <1>0, <1>1, <1>2, <1>3, StepCases DEF LinesOnce

\* Rows are never deleted and keep their product.
LEMMA ProductsStay ==
    ASSUME Typed, CopiesAreOfTheLine, [Next]_vars, NEW i \in Rows,
           window[i] # NoWindow
    PROVE  window'[i] # NoWindow /\ window'[i].product = window[i].product
  <1>0. TypeOK
    BY DEF Typed
  <1>1. ASSUME NEW r \in Runs, SaveRow(r, i)
        PROVE  window'[i] # NoWindow /\ window'[i].product = window[i].product
    <2>1. copy[r][i] \in Window /\ pc[r] = "saving"
      BY <1>0, <1>1 DEF SaveRow, TypeOK
    <2>2. PICK w \in Window : w = copy[r][i]
      BY <2>1
    <2>3. PICK o \in Orders, p \in Products :
              o = line[r][1] /\ p = line[r][2] /\ placed[o] # NotYet
      BY <2>1, AtALine
    <2>4. window'[i] = ExtendedBy(w, o, p)
      BY <1>0, <1>1, <2>2, <2>3 DEF SaveRow, TypeOK
    <2>5. ExtendedBy(w, o, p) \in Window
      BY <1>0, <2>3, Extension
    <2>6. ExtendedBy(w, o, p).product = w.product
      BY DEF ExtendedBy, Window
    <2>7. w.product = p /\ window[i].product = p
      BY <1>1, <2>2, <2>3 DEF CopiesAreOfTheLine, SaveRow
    <2> QED
      BY <2>4, <2>5, <2>6, <2>7, NothingAssumption
  <1>2. ASSUME window'[i] # window[i] PROVE \E r \in Runs : SaveRow(r, i)
    <2>1. ~UNCHANGED window
      BY <1>2
    <2>2. PICK r \in Runs, j \in Rows : SaveRow(r, j) \/ CreateRow(r, j)
      BY <2>1 DEF Next, Tick, CreateOrder, CommitOrder, Run, Begin, List, ReadRows,
         RaiseKeyError, Finish, Die, AllEnded, vars
    <2>3. i = j /\ SaveRow(r, j)
      BY <1>0, <1>2, <2>2 DEF SaveRow, CreateRow, TypeOK
    <2> QED
      BY <2>2, <2>3
  <1> QED
    BY <1>1, <1>2

LEMMA CopiesStep ==
    ASSUME Typed, CopiesAreOfTheLine, [Next]_vars
    PROVE  CopiesAreOfTheLine'
  <1>0. TypeOK
    BY DEF Typed
  <1> DEFINE Good(r) ==
        /\ pc'[r] # "saving" => copy'[r] = Nothing
        /\ \A i \in Rows : copy'[r][i] # NoWindow =>
              /\ copy'[r][i].product = line'[r][2]
              /\ window'[i] # NoWindow /\ window'[i].product = line'[r][2]
  <1>1. ASSUME NEW q \in Runs, line'[q] = line[q],
               \A i \in Rows : copy'[q][i] # NoWindow => copy'[q][i] = copy[q][i],
               pc'[q] # "saving" => copy'[q] = Nothing
        PROVE  Good(q)
    <2>1. ASSUME NEW i \in Rows, copy'[q][i] # NoWindow
          PROVE  /\ copy'[q][i].product = line'[q][2]
                 /\ window'[i] # NoWindow /\ window'[i].product = line'[q][2]
      <3>1. /\ copy'[q][i] = copy[q][i] /\ copy[q][i].product = line[q][2]
            /\ window[i] # NoWindow /\ window[i].product = line[q][2]
        BY <1>1, <2>1 DEF CopiesAreOfTheLine
      <3>2. window'[i] # NoWindow /\ window'[i].product = window[i].product
        BY <3>1, ProductsStay
      <3> QED
        BY <1>1, <3>1, <3>2
    <2> QED
      BY <1>1, <2>1
  <1>2. ASSUME NEW q \in Runs, pc'[q] = pc[q], line'[q] = line[q], copy'[q] = copy[q]
        PROVE  Good(q)
    <2>1. pc'[q] # "saving" => copy'[q] = Nothing
      BY <1>2 DEF CopiesAreOfTheLine
    <2> QED
      BY <1>1, <1>2, <2>1
  <1>3. ASSUME NEW r \in Runs, Run(r) PROVE Good(r)
    <2>1. CASE Begin(r) \/ List(r)
      <3>1. pc[r] # "saving" /\ line' = line /\ copy' = copy
        BY <2>1 DEF Begin, List
      <3> QED
        BY <1>1, <3>1 DEF CopiesAreOfTheLine
    <2>2. ASSUME NEW x \in Lines, ReadRows(r, x) PROVE Good(r)
      <3>1. /\ pc'[r] = "saving" /\ line'[r] = x /\ window' = window
            /\ \A i \in Rows : copy'[r][i] # NoWindow =>
                  /\ copy'[r][i] = window[i]
                  /\ window[i] # NoWindow /\ window[i].product = x[2]
        BY <1>0, <2>2 DEF ReadRows, TypeOK
      <3> QED
        BY <3>1
    <2>3. ASSUME NEW i \in Rows, SaveRow(r, i) PROVE Good(r)
      <3>1. /\ line' = line
            /\ \A j \in Rows : copy'[r][j] # NoWindow => copy'[r][j] = copy[r][j]
            /\ pc'[r] # "saving" => copy'[r] = Nothing
        BY <1>0, <2>3 DEF SaveRow, TypeOK
      <3> QED
        BY <1>1, <3>1
    <2>4. ASSUME NEW i \in Rows, CreateRow(r, i) PROVE Good(r)
      <3>1. line' = line /\ copy' = copy /\ copy[r] = Nothing
        BY <2>4 DEF CreateRow
      <3> QED
        BY <1>1, <3>1
    <2>5. CASE RaiseKeyError(r) \/ Finish(r) \/ Die(r)
      <3>1. copy'[r] = Nothing
        BY <1>0, <2>5 DEF RaiseKeyError, Finish, Die, TypeOK, CopiesAreOfTheLine
      <3> QED
        BY <3>1 DEF Nothing
    <2> QED
      BY <1>3, <2>1, <2>2, <2>3, <2>4, <2>5 DEF Run
  <1>4. CASE UNCHANGED <<runVars, historyVars, window>>
    BY <1>2, <1>4 DEF runVars, CopiesAreOfTheLine
  <1>5. \A q \in Runs : Good(q)
    BY <1>0, <1>2, <1>3, <1>4, StepCases DEF runVars
  <1> QED
    BY <1>5 DEF CopiesAreOfTheLine

-----------------------------------------------------------------------------
(***************************************************************************)
(* What is granted.                                                        *)
(***************************************************************************)

\* A run counts a line at a time, so that there is a sum.
Granted == LinesOnce /\ CopiesAreOfTheLine /\ IsFiniteSet(counted)

LEMMA UnitsAreNat ==
    ASSUME TypeOK, NEW r \in Runs, NEW o \in Orders, NEW p \in Products
    PROVE  Units[<<r, o, p>>] = quantity[o][p] /\ quantity[o][p] \in Nat
  BY ProductsAssumption DEF Units, TypeOK

\* What a line makes of a row, in numbers.
LEMMA ExtensionInNumbers ==
    ASSUME TypeOK, NEW w \in Window, NEW o \in Orders, NEW p \in Products,
           placed[o] # NotYet, NEW x, x = ExtendedBy(w, o, p)
    PROVE  /\ x \in Window /\ x.product = w.product
           /\ placed[o] \in Nat /\ Month * quantity[o][p] \in Nat
           /\ x.start \in {w.start, placed[o]}
           /\ x.end >= w.end + Month * quantity[o][p]
           /\ x.end >= placed[o] + Month * quantity[o][p]
           /\ \/ x.end - x.start <= (w.end - w.start) + Month * quantity[o][p]
              \/ x.end - x.start <= Month * quantity[o][p]
  <1>1. placed[o] \in Nat /\ x \in Window
    BY Extension
  <1>2. quantity[o][p] \in Nat
    BY ProductsAssumption DEF TypeOK
  <1>3. PICK b \in Nat : b = Month * quantity[o][p]
    BY <1>2, NumbersAssumption
  <1>4. w.product \in Products /\ w.start \in Nat /\ w.end \in Nat
    BY DEF Window
  <1>5. CASE w.end > placed[o]
    <2>1. x = [w EXCEPT !.end = w.end + b]
      BY <1>3, <1>5 DEF ExtendedBy
    <2>2. x.end = w.end + b /\ x.start = w.start /\ x.product = w.product
      BY <2>1 DEF Window
    <2> QED
      BY <1>1, <1>3, <1>4, <1>5, <2>2
  <1>6. CASE ~(w.end > placed[o])
    <2>1. x = [w EXCEPT !.start = placed[o], !.end = placed[o] + b]
      BY <1>3, <1>6 DEF ExtendedBy
    <2>2. x.end = placed[o] + b /\ x.start = placed[o] /\ x.product = w.product
      BY <2>1 DEF Window
    <2> QED
      BY <1>1, <1>3, <1>4, <1>6, <2>2
  <1> QED
    BY <1>5, <1>6

\* The save of a row, and what it counts.
LEMMA SaveEffect ==
    ASSUME Typed, CopiesAreOfTheLine, NEW r \in Runs, NEW i \in Rows, SaveRow(r, i)
    PROVE  \E o \in Orders, p \in Products, w \in Window, x \in Window :
              /\ line[r] = <<o, p>> /\ line' = line
              /\ placed[o] # NotYet /\ placed' = placed /\ committed[o] # NotYet
              /\ w = copy[r][i] /\ w.product = p /\ window[i] # NoWindow
              /\ window[i].product = p
              /\ x = ExtendedBy(w, o, p) /\ window' = [window EXCEPT ![i] = x]
              /\ counted' = counted \cup {<<r, o, p>>} /\ now' = now
              /\ p \notin clashed' => w = window[i]
              /\ clashed \subseteq clashed'
              /\ \A j \in Rows : copy'[r][j] # NoWindow => copy'[r][j] = copy[r][j]
  <1>0. TypeOK
    BY DEF Typed
  <1>1. copy[r][i] \in Window /\ pc[r] = "saving"
    BY <1>0 DEF SaveRow, TypeOK
  <1>2. PICK w \in Window : w = copy[r][i]
    BY <1>1
  <1>3. PICK o \in Orders, p \in Products :
            /\ o = line[r][1] /\ p = line[r][2] /\ placed[o] # NotYet
            /\ line[r] = <<o, p>> /\ committed[o] # NotYet
    BY <1>1, AtALine DEF Fresh
  <1>4. PICK x \in Window : x = ExtendedBy(w, o, p)
    BY <1>0, <1>3, Extension
  <1>5. window' = [window EXCEPT ![i] = x]
    BY <1>2, <1>3, <1>4 DEF SaveRow
  <1>6. w.product = p /\ window[i] # NoWindow /\ window[i].product = p
    BY <1>2, <1>3 DEF CopiesAreOfTheLine, SaveRow
  <1>7. /\ counted' = counted \cup {<<r, o, p>>} /\ placed' = placed /\ now' = now
        /\ line' = line
        /\ clashed' = IF Outdated(r, i) THEN clashed \cup {p} ELSE clashed
    BY <1>3 DEF SaveRow, Counts, orderVars
  <1>8. p \notin clashed' => w = window[i]
    BY <1>2, <1>6, <1>7, NothingAssumption DEF Outdated
  <1>9. \A j \in Rows : copy'[r][j] # NoWindow => copy'[r][j] = copy[r][j]
    BY <1>0 DEF SaveRow, TypeOK
  <1> QED
    BY <1>2, <1>3, <1>4, <1>5, <1>6, <1>7, <1>8, <1>9

\* The creation of a row, and what it counts.
LEMMA CreateEffect ==
    ASSUME Typed, NEW r \in Runs, NEW i \in Rows, CreateRow(r, i)
    PROVE  \E o \in Orders, p \in Products, x \in Window :
              /\ placed[o] # NotYet /\ placed' = placed /\ committed[o] # NotYet
              /\ placed[o] \in Nat /\ quantity[o][p] \in Nat
              /\ x.product = p /\ x.start = placed[o]
              /\ x.end = placed[o] + Month * quantity[o][p]
              /\ window[i] = NoWindow /\ window' = [window EXCEPT ![i] = x]
              /\ counted' = counted \cup {<<r, o, p>>} /\ now' = now
              /\ p \notin clashed' => RowsOf(p) = {}
              /\ clashed \subseteq clashed'
              /\ line' = line /\ copy' = copy /\ copy[r] = Nothing
  <1>0. TypeOK
    BY DEF Typed
  <1>1. pc[r] = "saving"
    BY DEF CreateRow
  <1>2. PICK o \in Orders, p \in Products :
            /\ o = line[r][1] /\ p = line[r][2] /\ placed[o] # NotYet
            /\ committed[o] # NotYet
    BY <1>1, AtALine DEF Fresh
  <1>3. placed[o] \in Nat /\ quantity[o][p] \in Nat
    BY <1>0, <1>2, NumbersAssumption, ProductsAssumption DEF Time, TypeOK
  <1>4. PICK b \in Nat : b = Month * quantity[o][p]
    BY <1>3, NumbersAssumption
  <1>5. PICK x \in Window :
            x = [product |-> p, start |-> placed[o], end |-> placed[o] + b]
    <2>1. [product |-> p, start |-> placed[o], end |-> placed[o] + b] \in Window
      BY <1>3 DEF Window
    <2> QED
      BY <2>1
  <1>6. window' = [window EXCEPT ![i] = x]
    <2> DEFINE new == [product |-> line[r][2], start |-> placed[line[r][1]],
               end |-> placed[line[r][1]]
                          + Month * quantity[line[r][1]][line[r][2]]]
    <2>1. window' = [window EXCEPT ![i] = new]
      BY Zenon DEF CreateRow
    <2>2. new = x
      BY <1>2, <1>4, <1>5, Zenon
    <2> HIDE DEF new
    <2> QED
      BY <2>1, <2>2
  <1>7. /\ counted' = counted \cup {<<r, o, p>>} /\ placed' = placed /\ now' = now
        /\ line' = line /\ copy' = copy /\ copy[r] = Nothing /\ window[i] = NoWindow
        /\ clashed' =
              IF \E j \in Rows : window[j] # NoWindow /\ window[j].product = p
              THEN clashed \cup {p} ELSE clashed
    BY <1>2 DEF CreateRow, Counts, orderVars
  <1>8. p \notin clashed' => RowsOf(p) = {}
    BY <1>7 DEF RowsOf
  <1> QED
    BY <1>2, <1>3, <1>4, <1>5, <1>6, <1>7, <1>8

-----------------------------------------------------------------------------
(***************************************************************************)
(* No window is longer than what was counted for it.                       *)
(***************************************************************************)

GrantedAtMost(w, C) == w.end - w.start <= Month * SumFunctionOnSet(Units, C)

\* A row that a run has read is no longer than what was counted for it, the
\* line at hand apart.
CopiesGranted ==
    \A r \in Runs, i \in Rows : copy[r][i] # NoWindow =>
        GrantedAtMost(copy[r][i],
                      CountedOf(line[r][2]) \ {<<r, line[r][1], line[r][2]>>})

LEMMA MonthsAdd ==
    ASSUME NEW m \in Nat, NEW n \in Nat
    PROVE  /\ Month * m \in Nat /\ Month * n \in Nat
           /\ Month * (m + n) = Month * m + Month * n
  BY NumbersAssumption

\* More counted, no less granted.
LEMMA MoreGranted ==
    ASSUME NEW U, NEW C, IsFiniteSet(C), \A c \in C : U[c] \in Nat,
           NEW D \in SUBSET C, NEW w \in Window,
           w.end - w.start <= Month * SumFunctionOnSet(U, D)
    PROVE  w.end - w.start <= Month * SumFunctionOnSet(U, C)
  <1>1. PICK m \in Nat : m = SumFunctionOnSet(U, D)
    BY SumIsNat, FS_Subset
  <1>2. PICK n \in Nat : n = SumFunctionOnSet(U, C)
    BY SumIsNat
  <1>3. m <= n
    BY <1>1, <1>2, SumOfPart
  <1>4. PICK k \in Nat : n = m + k
    <2>1. n - m \in Nat /\ n = m + (n - m)
      BY <1>3
    <2> QED
      BY <2>1
  <1>5. Month * m \in Nat /\ Month * k \in Nat /\ Month * n = Month * m + Month * k
    BY <1>4, MonthsAdd
  <1>6. w.end - w.start \in Int /\ w.end - w.start <= Month * m
    BY <1>1 DEF Window
  <1>7. w.end - w.start <= Month * n
    BY <1>5, <1>6
  <1> QED
    BY <1>2, <1>7

\* A line saved to a row grants no more than it counts.
LEMMA LineGranted ==
    ASSUME NEW U, NEW C, IsFiniteSet(C), \A c \in C : U[c] \in Nat,
           NEW c, c \notin C, NEW q \in Nat, U[c] = q,
           NEW w \in Window, NEW x \in Window,
           w.end - w.start <= Month * SumFunctionOnSet(U, C),
           \/ x.end - x.start <= (w.end - w.start) + Month * q
           \/ x.end - x.start <= Month * q
    PROVE  x.end - x.start <= Month * SumFunctionOnSet(U, C \cup {c})
  <1>1. PICK m \in Nat : m = SumFunctionOnSet(U, C)
    BY SumIsNat
  <1>2. SumFunctionOnSet(U, C \cup {c}) = q + m
    <2>1. \A d \in C : U[d] \in Int
      OBVIOUS
    <2> QED
      BY <1>1, <2>1, SumWithMore
  <1>3. Month * m \in Nat /\ Month * q \in Nat /\ Month * (q + m) = Month * q + Month * m
    BY MonthsAdd
  <1>4. x.end - x.start \in Int /\ w.end - w.start \in Int
    BY DEF Window
  <1>5. w.end - w.start <= Month * m
    BY <1>1
  <1>6. x.end - x.start <= Month * q + Month * m
    BY <1>3, <1>4, <1>5
  <1> QED
    BY <1>2, <1>3, <1>6

\* What is counted stays so, and every line of it has its units.
LEMMA CountedStays ==
    ASSUME Typed, Granted, [Next]_vars
    PROVE  /\ TypeOK' /\ Units' = Units
           /\ IsFiniteSet(counted) /\ IsFiniteSet(counted')
           /\ counted \subseteq counted'
           /\ \A c \in counted' : Units[c] \in Nat
  <1>1. IsFiniteSet(counted')
    <2>1. \/ counted' = counted
          \/ \E c : counted' = counted \cup {c}
      <3>1. CASE UNCHANGED <<runVars, historyVars, window>>
        BY <3>1 DEF historyVars
      <3> QED
        BY <3>1, StepCases, CountedByRun DEF Typed
    <2> QED
      BY <2>1, FS_AddElement DEF Granted
  <1>2. TypeOK /\ TypeOK' /\ Units' = Units
    BY NextTypeOK, OrdersStay DEF Typed, Units
  <1>3. ASSUME NEW c \in counted' PROVE Units[c] \in Nat
    <2>1. PICK r \in Runs, o \in Orders, p \in Products : c = <<r, o, p>>
      BY <1>2 DEF TypeOK
    <2> QED
      BY <1>2, <2>1, UnitsAreNat
  <1> QED
    BY <1>1, <1>2, <1>3, CountedGrows DEF Granted

LEMMA GrantedStep ==
    ASSUME Inv, Granted, [Next]_vars
    PROVE  Granted'
  BY LinesOnceStep, CopiesStep, CountedStays DEF Granted, Inv

\* Counting changes what is counted for the product of the line only.
LEMMA CountedOfLine ==
    ASSUME NEW r, NEW o, NEW p, counted' = counted \cup {<<r, o, p>>}
    PROVE  /\ CountedOf(p)' = CountedOf(p) \cup {<<r, o, p>>}
           /\ \A q : q # p => CountedOf(q)' = CountedOf(q)
  BY DEF CountedOf

LEMMA MostStep ==
    ASSUME Inv, Granted, CopiesGranted, NeverMoreThanCounted, [Next]_vars
    PROVE  NeverMoreThanCounted'
  <1>0. Typed /\ TypeOK /\ CopiesAreOfTheLine /\ IsFiniteSet(counted)
    BY DEF Inv, Typed, Granted
  <1>1. /\ Units' = Units /\ TypeOK' /\ counted \subseteq counted'
        /\ \A c \in counted' : Units[c] \in Nat
        /\ IsFiniteSet(counted')
    BY <1>0, CountedStays
  <1> SUFFICES ASSUME NEW i \in Rows, window'[i] # NoWindow
               PROVE  \E p \in Products : /\ window'[i].product = p
                                          /\ GrantedAtMost(window'[i], CountedOf(p)')
    BY <1>1 DEF NeverMoreThanCounted, GrantedAtMost
  <1>2. ASSUME NEW w \in Window, NEW p \in Products, NEW D \in SUBSET CountedOf(p)',
               GrantedAtMost(w, D)
        PROVE  GrantedAtMost(w, CountedOf(p)')
    <2>1. PICK C : C = CountedOf(p)'
      OBVIOUS
    <2>2. C \subseteq counted' /\ D \subseteq C
      BY <2>1 DEF CountedOf
    <2>3. IsFiniteSet(C) /\ \A c \in C : Units[c] \in Nat
      BY <1>1, <2>2, FS_Subset
    <2> QED
      BY <1>2, <2>1, <2>2, <2>3, MoreGranted DEF GrantedAtMost
  <1>3. CASE window'[i] = window[i]
    <2>1. window[i] \in Window
      BY <1>0, <1>3 DEF TypeOK
    <2>2. PICK w \in Window, p \in Products : w = window[i] /\ w.product = p
      BY <2>1 DEF Window
    <2>3. GrantedAtMost(w, CountedOf(p))
      BY <1>3, <2>2 DEF NeverMoreThanCounted, GrantedAtMost
    <2>4. CountedOf(p) \in SUBSET CountedOf(p)'
      BY <1>1 DEF CountedOf
    <2> QED
      BY <1>2, <1>3, <2>2, <2>3, <2>4
  <1>4. ASSUME NEW r \in Runs, SaveRow(r, i)
        PROVE  \E p \in Products : /\ window'[i].product = p
                                   /\ GrantedAtMost(window'[i], CountedOf(p)')
    <2>1. PICK o \in Orders, p \in Products, w \in Window, x \in Window :
              /\ line[r] = <<o, p>> /\ placed[o] # NotYet
              /\ w = copy[r][i] /\ w.product = p
              /\ x = ExtendedBy(w, o, p) /\ window' = [window EXCEPT ![i] = x]
              /\ counted' = counted \cup {<<r, o, p>>}
      BY <1>0, <1>4, SaveEffect
    <2>2. window'[i] = x
      BY <1>0, <2>1 DEF TypeOK
    <2>3. /\ x.product = p
          /\ \/ x.end - x.start <= (w.end - w.start) + Month * quantity[o][p]
             \/ x.end - x.start <= Month * quantity[o][p]
      BY <1>0, <2>1, ExtensionInNumbers
    <2>4. PICK C : C = CountedOf(p) \ {<<r, o, p>>}
      OBVIOUS
    <2>5. CountedOf(p)' = C \cup {<<r, o, p>>} /\ C \subseteq counted
      BY <2>1, <2>4, CountedOfLine DEF CountedOf
    <2>6. GrantedAtMost(w, C)
      <3>1. copy[r][i] # NoWindow /\ line[r][1] = o /\ line[r][2] = p
        BY <2>1, NothingAssumption
      <3> QED
        BY <2>1, <2>4, <3>1 DEF CopiesGranted
    <2>7. Units[<<r, o, p>>] = quantity[o][p] /\ quantity[o][p] \in Nat
      BY <1>0, UnitsAreNat
    <2>8. IsFiniteSet(C) /\ \A c \in C : Units[c] \in Nat
      BY <1>0, <1>1, <2>5, FS_Subset
    <2>9. GrantedAtMost(x, C \cup {<<r, o, p>>})
      BY <2>3, <2>4, <2>6, <2>7, <2>8, LineGranted DEF GrantedAtMost
    <2> QED
      BY <2>2, <2>3, <2>5, <2>9
  <1>5. ASSUME NEW r \in Runs, CreateRow(r, i)
        PROVE  \E p \in Products : /\ window'[i].product = p
                                   /\ GrantedAtMost(window'[i], CountedOf(p)')
    <2>1. PICK o \in Orders, p \in Products, x \in Window :
              /\ placed[o] \in Nat /\ quantity[o][p] \in Nat
              /\ x.product = p /\ x.start = placed[o]
              /\ x.end = placed[o] + Month * quantity[o][p]
              /\ window' = [window EXCEPT ![i] = x]
              /\ counted' = counted \cup {<<r, o, p>>}
      BY <1>0, <1>5, CreateEffect
    <2>2. window'[i] = x
      BY <1>0, <2>1 DEF TypeOK
    <2>3. PICK c : c = <<r, o, p>>
      OBVIOUS
    <2>4. Units[c] = quantity[o][p]
      BY <1>0, <2>3, UnitsAreNat
    <2>5. SumFunctionOnSet(Units, {c}) = quantity[o][p]
      <3>1. Units[c] \in Int
        BY <2>1, <2>4
      <3>2. SumFunctionOnSet(Units, {c}) = Units[c]
        BY <3>1, SumOfOne
      <3> QED
        BY <2>4, <3>2
    <2>6. Month * quantity[o][p] \in Nat
      BY <2>1, MonthsAdd
    <2>7. GrantedAtMost(x, {c})
      BY <2>1, <2>5, <2>6 DEF GrantedAtMost
    <2>8. {c} \in SUBSET CountedOf(p)'
      BY <2>1, <2>3 DEF CountedOf
    <2> QED
      BY <1>2, <2>1, <2>2, <2>7, <2>8
  <1>6. ASSUME window'[i] # window[i]
        PROVE  \E r \in Runs : SaveRow(r, i) \/ CreateRow(r, i)
    <2>1. ~UNCHANGED window
      BY <1>6
    <2>2. PICK r \in Runs, j \in Rows : SaveRow(r, j) \/ CreateRow(r, j)
      BY <2>1 DEF Next, Tick, CreateOrder, CommitOrder, Run, Begin, List, ReadRows,
         RaiseKeyError, Finish, Die, AllEnded, vars
    <2>3. i = j
      BY <1>0, <1>6, <2>2 DEF SaveRow, CreateRow, TypeOK
    <2> QED
      BY <2>2, <2>3
  <1> QED
    BY <1>3, <1>4, <1>5, <1>6

LEMMA CopiesGrantedStep ==
    ASSUME Inv, Granted, CopiesGranted, NeverMoreThanCounted, [Next]_vars
    PROVE  CopiesGranted'
  <1>0. Typed /\ TypeOK /\ CopiesAreOfTheLine /\ LinesOnce
    BY DEF Inv, Typed, Granted
  <1>1. /\ Units' = Units /\ TypeOK' /\ counted \subseteq counted'
        /\ \A c \in counted' : Units[c] \in Nat
        /\ IsFiniteSet(counted')
    BY <1>0, CountedStays DEF Granted
  <1> DEFINE Good(q) ==
        \A i \in Rows : copy'[q][i] # NoWindow =>
            \E o \in Orders, p \in Products :
                /\ line'[q] = <<o, p>>
                /\ GrantedAtMost(copy'[q][i], CountedOf(p)' \ {<<q, o, p>>})
  <1>2. ASSUME NEW q \in Runs, line'[q] = line[q],
               \A i \in Rows : copy'[q][i] # NoWindow => copy'[q][i] = copy[q][i]
        PROVE  Good(q)
    <2> SUFFICES ASSUME NEW i \in Rows, copy'[q][i] # NoWindow
                 PROVE  \E o \in Orders, p \in Products :
                          /\ line'[q] = <<o, p>>
                          /\ GrantedAtMost(copy'[q][i], CountedOf(p)' \ {<<q, o, p>>})
      OBVIOUS
    <2>1. copy'[q][i] = copy[q][i] /\ copy[q][i] \in Window
      BY <1>0, <1>2 DEF TypeOK
    <2>2. pc[q] = "saving"
      BY <2>1 DEF CopiesAreOfTheLine, Nothing, Granted
    <2>3. PICK w \in Window, o \in Orders, p \in Products :
              w = copy[q][i] /\ line[q] = <<o, p>>
      BY <1>0, <2>1, <2>2, AtALine
    <2>4. PICK D : D = CountedOf(p) \ {<<q, o, p>>}
      OBVIOUS
    <2>5. GrantedAtMost(w, D)
      <3>1. line[q][1] = o /\ line[q][2] = p
        BY <2>3
      <3> QED
        BY <2>1, <2>3, <2>4, <3>1 DEF CopiesGranted
    <2>6. PICK C : C = CountedOf(p)' \ {<<q, o, p>>}
      OBVIOUS
    <2>7. D \in SUBSET C /\ C \subseteq counted'
      BY <1>1, <2>4, <2>6 DEF CountedOf
    <2>8. IsFiniteSet(C) /\ \A c \in C : Units[c] \in Nat
      BY <1>1, <2>7, FS_Subset
    <2>9. GrantedAtMost(w, C)
      BY <2>5, <2>7, <2>8, MoreGranted DEF GrantedAtMost
    <2> QED
      BY <1>2, <2>1, <2>3, <2>6, <2>9
  <1>3. ASSUME NEW r \in Runs, NEW x \in Lines, ReadRows(r, x) PROVE Good(r)
    <2> SUFFICES ASSUME NEW i \in Rows, copy'[r][i] # NoWindow
                 PROVE  \E o \in Orders, p \in Products :
                          /\ line'[r] = <<o, p>>
                          /\ GrantedAtMost(copy'[r][i], CountedOf(p)' \ {<<r, o, p>>})
      OBVIOUS
    <2>1. PICK o \in Orders, p \in Products : x = <<o, p>>
      BY DEF Lines
    <2>2. /\ line'[r] = <<o, p>> /\ counted' = counted
          /\ copy'[r][i] = window[i] /\ window[i] # NoWindow /\ window[i].product = p
      BY <1>0, <1>3, <2>1 DEF ReadRows, TypeOK, historyVars
    <2>3. <<r, o, p>> \notin counted
      <3>1. x \in todo[r]
        BY <1>3 DEF ReadRows
      <3> QED
        BY <1>0, <2>1, <3>1 DEF LinesOnce
    <2>4. CountedOf(p)' \ {<<r, o, p>>} = CountedOf(p)
      BY <2>2, <2>3 DEF CountedOf
    <2>5. GrantedAtMost(window[i], CountedOf(p))
      BY <2>2 DEF NeverMoreThanCounted, GrantedAtMost
    <2> QED
      BY <2>2, <2>4, <2>5
  <1>4. ASSUME NEW r \in Runs, Run(r) PROVE Good(r)
    <2>1. CASE Begin(r) \/ List(r)
      BY <1>2, <2>1 DEF Begin, List
    <2>2. ASSUME NEW i \in Rows, SaveRow(r, i) PROVE Good(r)
      BY <1>0, <1>2, <2>2 DEF SaveRow, TypeOK
    <2>3. ASSUME NEW i \in Rows, CreateRow(r, i) PROVE Good(r)
      BY <1>2, <2>3 DEF CreateRow
    <2>4. CASE RaiseKeyError(r) \/ Finish(r) \/ Die(r)
      <3>1. copy'[r] = Nothing
        BY <1>0, <2>4 DEF RaiseKeyError, Finish, Die, TypeOK, CopiesAreOfTheLine
      <3> QED
        BY <3>1 DEF Nothing
    <2> QED
      BY <1>3, <1>4, <2>1, <2>2, <2>3, <2>4 DEF Run
  <1>5. \A q \in Runs : Good(q)
    BY <1>0, <1>2, <1>4, StepCases DEF runVars
  <1>6. ASSUME NEW q \in Runs, NEW i \in Rows, copy'[q][i] # NoWindow
        PROVE  GrantedAtMost(copy[q][i],
                   CountedOf(line[q][2]) \ {<<q, line[q][1], line[q][2]>>})'
    <2>1. PICK o \in Orders, p \in Products :
              /\ line'[q] = <<o, p>>
              /\ GrantedAtMost(copy'[q][i], CountedOf(p)' \ {<<q, o, p>>})
      BY <1>5, <1>6
    <2>2. line'[q][1] = o /\ line'[q][2] = p
      BY <2>1
    <2> QED
      BY <1>1, <2>1, <2>2 DEF GrantedAtMost, CountedOf
  <1> QED
    BY <1>6 DEF CopiesGranted

LEMMA SpecGranted == Spec => []Granted
  <1>1. Init => Granted
    BY FS_EmptySet DEF Init, Granted, LinesOnce, CopiesAreOfTheLine, Nothing
  <1> QED
    BY <1>1, GrantedStep, SpecInv, PTL DEF Spec

\* NeverMoreThanCounted: a window is never longer than the lines counted for
\* it, however many runs overlap and whichever saves are lost.
THEOREM NothingGivenAway == Spec => []NeverMoreThanCounted
  <1> DEFINE J == CopiesGranted /\ NeverMoreThanCounted
  <1>1. Init => J
    BY DEF Init, CopiesGranted, NeverMoreThanCounted, Nothing
  <1>2. Inv /\ Granted /\ J /\ [Next]_vars => J'
    BY MostStep, CopiesGrantedStep
  <1>3. Spec => []J
    BY <1>1, <1>2, SpecInv, SpecGranted, PTL DEF Spec
  <1> QED
    BY <1>3, PTL

-----------------------------------------------------------------------------
(***************************************************************************)
(* A buyer can trade.                                                      *)
(***************************************************************************)

Since(t, p) == {c \in CountedOf(p) : placed[c[2]] >= t}

LongEnough(end, t, C) == end >= t + Month * SumFunctionOnSet(Units, C)

\* The one row of a product that no two runs clashed on has begun, and lasts,
\* from any time on, for all that was counted of the orders placed since.
OneWindow ==
    \A p \in Products \ clashed :
        /\ \A i, j \in RowsOf(p) : i = j
        /\ CountedOf(p) # {} => RowsOf(p) # {}
        /\ \A i \in RowsOf(p) :
             /\ window[i].start <= now
             /\ \A t \in Nat :
                   Since(t, p) # {} => LongEnough(window[i].end, t, Since(t, p))

\* An extended row lasts for the line too.
LEMMA LineLasts ==
    ASSUME NEW U, NEW D, IsFiniteSet(D), \A d \in D : U[d] \in Nat,
           NEW c, NEW q \in Nat, U[c] = q,
           NEW t \in Nat, NEW at \in Nat, t <= at, NEW e \in Nat, NEW end \in Nat,
           D # {} => e >= t + Month * SumFunctionOnSet(U, D),
           end >= e + Month * q, end >= at + Month * q
    PROVE  end >= t + Month * SumFunctionOnSet(U, D \cup {c})
  <1>1. PICK m \in Nat : m = SumFunctionOnSet(U, D)
    BY SumIsNat
  <1>2. Month * m \in Nat /\ Month * q \in Nat /\ Month * (q + m) = Month * q + Month * m
    BY MonthsAdd
  <1>3. CASE D = {}
    <2>1. D \cup {c} = {c} /\ U[c] \in Int
      BY <1>3
    <2>2. SumFunctionOnSet(U, D \cup {c}) = q
      BY <2>1, SumOfOne
    <2> QED
      BY <1>2, <2>2
  <1>4. CASE D # {} /\ c \in D
    <2>1. D \cup {c} = D
      BY <1>4
    <2>2. end >= t + Month * m
      BY <1>1, <1>2, <1>4
    <2> QED
      BY <1>1, <2>1, <2>2
  <1>5. CASE D # {} /\ c \notin D
    <2>1. \A d \in D : U[d] \in Int
      OBVIOUS
    <2>2. SumFunctionOnSet(U, D \cup {c}) = q + m
      BY <1>1, <1>5, <2>1, SumWithMore
    <2>3. e >= t + Month * m
      BY <1>1, <1>5
    <2>4. end >= t + (Month * q + Month * m)
      BY <1>2, <2>3
    <2> QED
      BY <1>2, <2>2, <2>4
  <1> QED
    BY <1>3, <1>4, <1>5

\* The orders that were counted keep their date.
LEMMA CountedKeepDate ==
    ASSUME Inv, [Next]_vars, NEW c \in counted
    PROVE  placed'[c[2]] = placed[c[2]] /\ placed[c[2]] \in Nat
  <1>0. Typed /\ TypeOK
    BY DEF Inv, Typed
  <1>1. PICK r \in Runs, o \in Orders, p \in Products : c = <<r, o, p>>
    BY <1>0 DEF TypeOK
  <1>2. <<o, p>> \in Lines /\ committed[o] # NotYet
    BY <1>1 DEF Inv, CountedWereFresh, Fresh, Lines
  <1>3. placed[o] # NotYet
    BY <1>0, <1>2 DEF Typed, Dated
  <1>4. placed[o] \in Nat
    BY <1>0, <1>3, NumbersAssumption DEF TypeOK, Time
  <1> QED
    BY <1>0, <1>1, <1>3, <1>4, OrdersStay

\* A step that writes no row.
LEMMA NothingSaved ==
    ASSUME Inv, Granted, OneWindow, [Next]_vars,
           window' = window, counted' = counted, clashed' = clashed
    PROVE  OneWindow'
  <1>0. Typed /\ TypeOK /\ now \in Int /\ now' \in Int /\ now <= now'
    BY OrdersStay DEF Inv, Typed
  <1>1. Units' = Units
    BY <1>0, CountedStays
  <1>2. \A p : RowsOf(p)' = RowsOf(p) /\ CountedOf(p)' = CountedOf(p)
    BY DEF RowsOf, CountedOf
  <1>3. \A t \in Nat, p \in Products : Since(t, p)' = Since(t, p)
    BY CountedKeepDate DEF Since, CountedOf
  <1>4. ASSUME NEW p \in Products, NEW i \in RowsOf(p), window[i].start <= now
        PROVE  window[i].start <= now'
    <2>1. window[i] \in Window
      BY <1>0 DEF RowsOf, TypeOK
    <2>2. window[i].start \in Int
      BY <2>1 DEF Window
    <2> QED
      BY <1>0, <1>4, <2>2
  <1> QED
    BY <1>1, <1>2, <1>3, <1>4 DEF OneWindow, LongEnough

\* A row written for product p leaves what is known of the others.
LEMMA OtherProducts ==
    ASSUME Inv, Granted, OneWindow, [Next]_vars, now' = now,
           NEW r \in Runs, NEW o \in Orders, NEW p \in Products,
           NEW x \in Window, NEW i \in Rows, x.product = p,
           window[i] = NoWindow \/ window[i].product = p,
           window' = [window EXCEPT ![i] = x],
           counted' = counted \cup {<<r, o, p>>}, clashed \subseteq clashed',
           NEW q \in Products \ clashed', q # p
    PROVE  /\ \A j, k \in RowsOf(q)' : j = k
           /\ CountedOf(q)' # {} => RowsOf(q)' # {}
           /\ \A j \in RowsOf(q)' :
                /\ window'[j].start <= now'
                /\ \A t \in Nat : Since(t, q)' # {} =>
                      LongEnough(window'[j].end, t, Since(t, q)')
  <1>0. TypeOK
    BY DEF Inv, Typed
  <1>1. RowsOf(q)' = RowsOf(q) /\ \A j \in RowsOf(q) : window'[j] = window[j]
    BY <1>0, NothingAssumption DEF RowsOf, TypeOK
  <1>2. CountedOf(q)' = CountedOf(q)
    BY CountedOfLine
  <1>3. \A t \in Nat : Since(t, q)' = Since(t, q)
    BY <1>2, CountedKeepDate DEF Since, CountedOf
  <1> QED
    BY <1>1, <1>2, <1>3 DEF OneWindow

LEMMA OneWindowStep ==
    ASSUME Inv, Granted, OneWindow, [Next]_vars
    PROVE  OneWindow'
  <1>0. /\ Typed /\ TypeOK /\ CopiesAreOfTheLine /\ Units' = Units
        /\ IsFiniteSet(counted) /\ counted \subseteq counted'
        /\ \A c \in counted' : Units[c] \in Nat
    BY CountedStays DEF Inv, Typed, Granted
  <1> DEFINE Good(q) ==
        /\ \A j, k \in RowsOf(q)' : j = k
        /\ CountedOf(q)' # {} => RowsOf(q)' # {}
        /\ \A j \in RowsOf(q)' :
             /\ window'[j].start <= now'
             /\ \A t \in Nat : Since(t, q)' # {} =>
                   LongEnough(window'[j].end, t, Since(t, q)')
  <1>1. ASSUME NEW r \in Runs, NEW o \in Orders, NEW p \in Products,
               NEW x \in Window, NEW e \in Nat,
               counted' = counted \cup {<<r, o, p>>}, placed' = placed,
               placed[o] \in Nat, x.end >= e + Month * quantity[o][p],
               x.end >= placed[o] + Month * quantity[o][p],
               NEW t \in Nat, Since(t, p) # {} => LongEnough(e, t, Since(t, p)),
               Since(t, p)' # {}
        PROVE  LongEnough(x.end, t, Since(t, p)')
    <2>1. PICK c : c = <<r, o, p>>
      OBVIOUS
    <2>2. PICK q \in Nat : q = quantity[o][p] /\ Units[c] = q
      BY <1>0, <2>1, UnitsAreNat
    <2>3. PICK D : D = Since(t, p)
      OBVIOUS
    <2>4. IsFiniteSet(D) /\ \A d \in D : Units[d] \in Nat
      <3>1. D \subseteq counted
        BY <2>3 DEF Since, CountedOf
      <3> QED
        BY <1>0, <3>1, FS_Subset
    <2>5. x.end \in Nat
      BY DEF Window
    <2>6. CASE t <= placed[o]
      <3>1. Since(t, p)' = D \cup {c}
        BY <1>1, <2>1, <2>3, <2>6 DEF Since, CountedOf
      <3>2. D # {} => e >= t + Month * SumFunctionOnSet(Units, D)
        BY <1>1, <2>3 DEF LongEnough
      <3>3. x.end >= t + Month * SumFunctionOnSet(Units, D \cup {c})
        BY <1>1, <2>2, <2>4, <2>5, <2>6, <3>2, LineLasts
      <3> QED
        BY <3>1, <3>3 DEF LongEnough
    <2>7. CASE ~(t <= placed[o])
      <3>1. Since(t, p)' = D
        BY <1>1, <2>1, <2>3, <2>7 DEF Since, CountedOf
      <3>2. e >= t + Month * SumFunctionOnSet(Units, D)
        BY <1>1, <2>3, <3>1 DEF LongEnough
      <3>3. PICK m \in Nat : m = SumFunctionOnSet(Units, D)
        BY <2>4, SumIsNat
      <3>4. Month * m \in Nat /\ Month * q \in Nat
        BY <3>3, MonthsAdd
      <3>5. x.end >= t + Month * m
        BY <1>1, <2>2, <2>5, <3>2, <3>3, <3>4
      <3> QED
        BY <3>1, <3>3, <3>5 DEF LongEnough
    <2> QED
      BY <2>6, <2>7
  <1>2. ASSUME NEW r \in Runs, NEW i \in Rows, SaveRow(r, i),
               NEW q \in Products \ clashed'
        PROVE  Good(q)
    <2>1. PICK o \in Orders, p \in Products, w \in Window, x \in Window :
              /\ placed[o] # NotYet /\ placed' = placed
              /\ w.product = p /\ window[i] # NoWindow /\ window[i].product = p
              /\ x = ExtendedBy(w, o, p) /\ window' = [window EXCEPT ![i] = x]
              /\ counted' = counted \cup {<<r, o, p>>} /\ now' = now
              /\ p \notin clashed' => w = window[i]
              /\ clashed \subseteq clashed'
      BY <1>0, <1>2, SaveEffect
    <2>2. /\ x.product = p /\ placed[o] \in Nat
          /\ x.start \in {w.start, placed[o]}
          /\ x.end >= w.end + Month * quantity[o][p]
          /\ x.end >= placed[o] + Month * quantity[o][p]
      BY <1>0, <2>1, ExtensionInNumbers
    <2>3. CASE q # p
      BY <2>1, <2>2, <2>3, OtherProducts
    <2>4. CASE q = p
      <3>1. w = window[i] /\ i \in RowsOf(p) /\ p \in Products \ clashed
        BY <2>1, <2>4 DEF RowsOf
      <3>2. \A j \in RowsOf(p) : j = i
        BY <3>1 DEF OneWindow
      <3>3. RowsOf(p)' = {i} /\ window'[i] = x
        <4>1. window'[i] = x /\ \A j \in Rows : j # i => window'[j] = window[j]
          BY <1>0, <2>1 DEF TypeOK
        <4> QED
          BY <2>2, <3>2, <4>1, NothingAssumption DEF RowsOf
      <3>4. x.start <= now'
        <4>1. placed[o] <= now /\ w.start <= now
          BY <1>0, <2>1, <3>1 DEF Typed, Dated, OneWindow
        <4> QED
          BY <2>1, <2>2, <4>1
      <3>5. w.end \in Nat
        BY DEF Window
      <3>6. \A t \in Nat : Since(t, p) # {} => LongEnough(w.end, t, Since(t, p))
        BY <3>1 DEF OneWindow
      <3>7. \A t \in Nat : Since(t, p)' # {} => LongEnough(x.end, t, Since(t, p)')
        BY <1>1, <2>1, <2>2, <3>5, <3>6
      <3> QED
        BY <2>4, <3>3, <3>4, <3>7
    <2> QED
      BY <2>3, <2>4
  <1>3. ASSUME NEW r \in Runs, NEW i \in Rows, CreateRow(r, i),
               NEW q \in Products \ clashed'
        PROVE  Good(q)
    <2>1. PICK o \in Orders, p \in Products, x \in Window :
              /\ placed[o] # NotYet /\ placed' = placed
              /\ placed[o] \in Nat /\ quantity[o][p] \in Nat
              /\ x.product = p /\ x.start = placed[o]
              /\ x.end = placed[o] + Month * quantity[o][p]
              /\ window[i] = NoWindow /\ window' = [window EXCEPT ![i] = x]
              /\ counted' = counted \cup {<<r, o, p>>} /\ now' = now
              /\ p \notin clashed' => RowsOf(p) = {}
              /\ clashed \subseteq clashed'
      BY <1>0, <1>3, CreateEffect
    <2>2. CASE q # p
      BY <2>1, <2>2, OtherProducts
    <2>3. CASE q = p
      <3>1. RowsOf(p) = {} /\ p \in Products \ clashed /\ CountedOf(p) = {}
        BY <2>1, <2>3 DEF OneWindow
      <3>2. RowsOf(p)' = {i} /\ window'[i] = x
        <4>1. window'[i] = x /\ \A j \in Rows : j # i => window'[j] = window[j]
          BY <1>0, <2>1 DEF TypeOK
        <4> QED
          BY <2>1, <3>1, <4>1, NothingAssumption DEF RowsOf
      <3>3. x.start <= now'
        BY <1>0, <2>1 DEF Typed, Dated
      <3>4. \A t \in Nat : Since(t, p) = {}
        BY <3>1 DEF Since
      <3>5. /\ 0 \in Nat /\ x.end >= 0 + Month * quantity[o][p]
            /\ x.end >= placed[o] + Month * quantity[o][p]
        <4>1. Month * quantity[o][p] \in Nat
          BY <2>1, MonthsAdd
        <4> QED
          BY <2>1, <4>1
      <3>6. \A t \in Nat : Since(t, p)' # {} => LongEnough(x.end, t, Since(t, p)')
        BY <1>1, <2>1, <3>4, <3>5
      <3> QED
        BY <2>3, <3>2, <3>3, <3>6
    <2> QED
      BY <2>2, <2>3
  <1>4. CASE \E r \in Runs, i \in Rows : SaveRow(r, i) \/ CreateRow(r, i)
    <2>1. \A q \in Products \ clashed' : Good(q)
      BY <1>2, <1>3, <1>4
    <2> QED
      BY <1>0, <2>1 DEF OneWindow, LongEnough
  <1>5. CASE ~ \E r \in Runs, i \in Rows : SaveRow(r, i) \/ CreateRow(r, i)
    <2>1. window' = window /\ counted' = counted /\ clashed' = clashed
      BY <1>5 DEF Next, Tick, CreateOrder, CommitOrder, Run, Begin, List, ReadRows,
         RaiseKeyError, Finish, Die, AllEnded, vars, historyVars
    <2> QED
      BY <2>1, NothingSaved
  <1> QED
    BY <1>4, <1>5

\* BuyerCanTrade: a customer one of whose orders was counted has one row, which
\* has begun and lasts for everything counted since, unless two runs clashed.
THEOREM BuyersCanTrade == Spec => []BuyerCanTrade
  <1>1. Init => OneWindow
    BY DEF Init, OneWindow, CountedOf, RowsOf, Nothing
  <1>2. Spec => []OneWindow
    BY <1>1, OneWindowStep, SpecInv, SpecGranted, PTL DEF Spec
  <1>3. ASSUME Inv, OneWindow PROVE BuyerCanTrade
    <2> SUFFICES ASSUME NEW c \in counted, c[3] \notin clashed
                 PROVE  CreateVerdict(c[3], now,
                            placed[c[2]] + Month * UnitsFrom(c[2], c[3])) = "accepted"
      BY DEF BuyerCanTrade
    <2>0. TypeOK
      BY <1>3 DEF Inv, Typed
    <2>1. PICK r \in Runs, o \in Orders, p \in Products : c = <<r, o, p>>
      BY <2>0 DEF TypeOK
    <2>2. placed[o] \in Nat
      <3>1. <<o, p>> \in Lines /\ committed[o] # NotYet
        BY <1>3, <2>1 DEF Inv, CountedWereFresh, Fresh, Lines
      <3>2. placed[o] # NotYet
        BY <1>3, <3>1 DEF Inv, Typed, Dated
      <3> QED
        BY <2>0, <3>2, NumbersAssumption DEF TypeOK, Time
    <2>3. c \in CountedOf(p) /\ c \in Since(placed[o], p) /\ p \in Products \ clashed
      BY <2>1, <2>2 DEF CountedOf, Since
    <2>4. PICK i \in RowsOf(p) : RowsOf(p) = {i}
      BY <1>3, <2>3 DEF OneWindow
    <2>5. /\ window[i].start <= now
          /\ LongEnough(window[i].end, placed[o], Since(placed[o], p))
      BY <1>3, <2>2, <2>3 DEF OneWindow
    <2>6. UnitsFrom(o, p) = SumFunctionOnSet(Units, Since(placed[o], p))
      BY DEF UnitsFrom, Since
    <2>7. i \in Rows
      BY DEF RowsOf
    <2>8. CreateVerdict(p, now, placed[o] + Month * UnitsFrom(o, p)) = "accepted"
      BY <2>4, <2>5, <2>6, <2>7 DEF CreateVerdict, LongEnough
    <2> QED
      BY <2>1, <2>8
  <1> QED
    BY <1>2, <1>3, SpecInv, PTL

=============================================================================
