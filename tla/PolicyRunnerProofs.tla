------------------------- MODULE PolicyRunnerProofs -------------------------
(***************************************************************************)
(* Theorems about the life of a policy, for any number of policies,        *)
(* workers, edits and any clock.                                           *)
(***************************************************************************)
EXTENDS PolicyRunner, TLAPS

-----------------------------------------------------------------------------
(***************************************************************************)
(* The inductive invariant.  A policy is in one place at a time: with the  *)
(* create view, in the broker, or with one worker.  Once it has left the   *)
(* last of them it never returns, because ids are given out once.          *)
(***************************************************************************)

Runs(p) == \E w \in Workers : policy[w] = p

InOnePlace ==
    \A p \in Policies :
        /\ p \in creating => ~IsQueued(p) /\ ~Runs(p)
        /\ IsQueued(p) => ~Runs(p)
        /\ \A v, w \in Workers : policy[v] = p /\ policy[w] = p => v = w
        /\ \A i, j \in 1..Len(queue) : queue[i] = p /\ queue[j] = p => i = j

UnusedIsNowhere ==
    \A p \in Policies \ used :
        /\ p \notin creating /\ ~IsQueued(p) /\ ~Runs(p)
        /\ table[p] = NoRow /\ editing[p] = NoRow

IdleHasNone ==
    \A w \in Workers :
        /\ at[w] \in {"idle", "lent"} <=> policy[w] = NoPolicy
        /\ at[w] \in {"deciding", "starting"} => copy[w] # NoRow
        /\ at[w] \in {"idle", "lent"} => copy[w] = NoRow

Typed == TypeOK /\ IdleHasNone
Placed == Typed /\ InOnePlace /\ UnusedIsNowhere

\* A row that says "stop", in the table or in the update view's hands, belongs
\* to a policy that is nowhere.
IsStop(row) == row # NoRow /\ row.status = "stop"
StopIsNowhere ==
    \A p \in Policies :
        IsStop(table[p]) \/ IsStop(editing[p])
            => p \notin creating /\ ~IsQueued(p) /\ ~Runs(p)

\* The copy a worker decides on never says "stop".
CopyIsNotStopped == \A w \in Workers : ~IsStop(copy[w])

-----------------------------------------------------------------------------

\* What Append and Head/Tail make of the broker's queue.
LEMMA Appended ==
    ASSUME NEW S, NEW q \in Seq(S), NEW x \in S
    PROVE  /\ Append(q, x) \in Seq(S)
           /\ Len(Append(q, x)) = Len(q) + 1
           /\ \A i \in 1..Len(q) : Append(q, x)[i] = q[i]
           /\ Append(q, x)[Len(q) + 1] = x
OBVIOUS

LEMMA Taken ==
    ASSUME NEW S, NEW q \in Seq(S), q # <<>>
    PROVE  /\ Tail(q) \in Seq(S)
           /\ Len(q) \in Nat \ {0}
           /\ Len(Tail(q)) = Len(q) - 1
           /\ \A i \in 1..Len(Tail(q)) : Tail(q)[i] = q[i + 1]
           /\ Head(q) = q[1]
           /\ Head(q) \in S
OBVIOUS

\* Every write of the task is a row of the table.
LEMMA RowWithStatus ==
    ASSUME NEW r \in Row, NEW s \in RUN_STATUSS
    PROVE  /\ [r EXCEPT !.status = s] \in Row
           /\ [r EXCEPT !.status = s].status = s
           /\ [r EXCEPT !.status = s] # NoRow
           /\ [r EXCEPT !.status = s].start_time = r.start_time
           /\ [r EXCEPT !.status = s].end_time = r.end_time
BY NoRowAssumption DEF Row

LEMMA RowWithTimes ==
    ASSUME NEW r \in Row, NEW s \in Times, NEW e \in Times
    PROVE  /\ [r EXCEPT !.start_time = s, !.end_time = e] \in Row
           /\ [r EXCEPT !.start_time = s, !.end_time = e].status = r.status
           /\ [r EXCEPT !.start_time = s, !.end_time = e] # NoRow
BY NoRowAssumption DEF Row

LEMMA RowWithOperation ==
    ASSUME NEW r \in Row
    PROVE  /\ [r EXCEPT !.operation = 1] \in Row
           /\ [r EXCEPT !.operation = 1].status = r.status
           /\ [r EXCEPT !.operation = 1] # NoRow
           /\ [r EXCEPT !.operation = 1].start_time = r.start_time
           /\ [r EXCEPT !.operation = 1].end_time = r.end_time
BY NoRowAssumption DEF Row, OPS

-----------------------------------------------------------------------------

LEMMA InitPlaced == Init => Placed /\ StopIsNowhere /\ CopyIsNotStopped
<1> SUFFICES ASSUME Init PROVE Placed /\ StopIsNowhere /\ CopyIsNotStopped
  OBVIOUS
<1>1. TypeOK
  BY TimeAssumption DEF Init, TypeOK
<1>2. \A p \in Policies : ~IsQueued(p) /\ ~Runs(p)
  BY NoPolicyAssumption DEF Init, IsQueued, Runs
<1>3. IdleHasNone
  BY DEF Init, IdleHasNone
<1>4. InOnePlace /\ UnusedIsNowhere
  BY <1>2, NoPolicyAssumption DEF Init, InOnePlace, UnusedIsNowhere
<1>5. StopIsNowhere /\ CopyIsNotStopped
  BY DEF Init, StopIsNowhere, CopyIsNotStopped, IsStop
<1> QED BY <1>1, <1>3, <1>4, <1>5 DEF Placed, Typed

LEMMA TypeStep == Typed /\ [Next]_vars => Typed'
<1> SUFFICES ASSUME Typed, [Next]_vars PROVE Typed'
  OBVIOUS
<1> USE TimeAssumption, NoRowAssumption, NoPolicyAssumption
    DEF Typed, TypeOK, IdleHasNone, viewVars, taskVars
<1>1. CASE UNCHANGED vars
  BY <1>1 DEF vars
<1>2. ASSUME NEW p \in Policies, NEW start \in Times, NEW end \in Times,
             Create(p, start, end)
      PROVE  Typed'
  <2>1. [start_time |-> start, end_time |-> end,
         status |-> "unstart", operation |-> 0] \in Row
    BY DEF Row, RUN_STATUSS, OPS
  <2> QED BY <1>2, <2>1 DEF Create
<1>3. ASSUME NEW p \in Policies, NEW start \in Times, NEW end \in Times,
             EditSave(p, start, end)
      PROVE  Typed'
  <2>1. editing[p] \in Row
    BY <1>3 DEF EditSave
  <2>2. [editing[p] EXCEPT !.start_time = start, !.end_time = end] \in Row
    BY <2>1, RowWithTimes
  <2> QED BY <1>3, <2>2 DEF EditSave
<1>4. ASSUME NEW p \in Policies,
             Delay(p) \/ DelayFails(p) \/ EditLoad(p) \/ Delete(p)
      PROVE  Typed'
  <2>1. CASE Delay(p)
    BY <2>1, Appended DEF Delay
  <2>2. CASE DelayFails(p)
    BY <2>2 DEF DelayFails
  <2>3. CASE EditLoad(p)
    BY <2>3 DEF EditLoad
  <2>4. CASE Delete(p)
    BY <2>4 DEF Delete
  <2> QED BY <1>4, <2>1, <2>2, <2>3, <2>4
<1>5. ASSUME NEW p \in Policies, RequestStop(p) PROVE Typed'
  <2>1. [table[p] EXCEPT !.operation = 1] \in Row
    BY <1>5, RowWithOperation DEF RequestStop
  <2> QED BY <1>5, <2>1 DEF RequestStop
<1>6. ASSUME NEW w \in Workers, Take(w) PROVE Typed'
  BY <1>6, Taken DEF Take
<1>7. ASSUME NEW w \in Workers, Read(w) PROVE Typed'
  <2>1. policy[w] \in Policies
    BY <1>7 DEF Read
  <2>2. table[policy[w]] \in Row
    BY <1>7, <2>1 DEF Read
  <2> QED BY <1>7, <2>2 DEF Read
<1>8. ASSUME NEW w \in Workers, \/ ReadNothing(w) \/ WaitForStart(w) \/ Trade(w)
                               \/ DecideToTrade(w) \/ Return(w)
      PROVE  Typed'
  <2>1. CASE ReadNothing(w)
    BY <2>1 DEF ReadNothing, Leave
  <2>2. CASE WaitForStart(w)
    BY <2>2 DEF WaitForStart
  <2>3. CASE Trade(w)
    BY <2>3 DEF Trade
  <2>4. CASE DecideToTrade(w)
    BY <2>4 DEF DecideToTrade
  <2>5. CASE Return(w)
    BY <2>5 DEF Return
  <2> QED BY <1>8, <2>1, <2>2, <2>3, <2>4, <2>5
<1>9. ASSUME NEW w \in Workers, Finish(w) PROVE Typed'
  <2>1. [copy[w] EXCEPT !.status = "stop"] \in Row
    BY <1>9, RowWithStatus DEF Finish, RUN_STATUSS
  <2> QED BY <1>9, <2>1 DEF Finish, SaveAs, Leave
<1>10. ASSUME NEW w \in Workers, Start(w) PROVE Typed'
  <2>1. [copy[w] EXCEPT !.status = "run"] \in Row
    BY <1>10, RowWithStatus DEF Start, RUN_STATUSS
  <2> QED BY <1>10, <2>1 DEF Start, SaveAs
<1>11. ASSUME NEW w \in Workers, TaskDies(w) PROVE Typed'
  BY <1>11 DEF TaskDies, Leave
<1>12. CASE Tick
  BY <1>12 DEF Tick
<1>13. CASE Over
  BY <1>13 DEF Over, vars
<1> QED
  BY <1>1, <1>2, <1>3, <1>4, <1>5, <1>6, <1>7, <1>8, <1>9, <1>10, <1>11, <1>12,
     <1>13 DEF Next, View, Task

\* TypeOK, for every number of policies, workers and edits: the rows of the
\* policy table, and the instances of them the views and tasks hold, are rows.
THEOREM TypeCorrect == Spec => []TypeOK
<1>1. Init => Typed
  BY InitPlaced DEF Placed
<1>2. Typed => TypeOK
  BY DEF Typed
<1> QED BY <1>1, <1>2, TypeStep, PTL DEF Spec

-----------------------------------------------------------------------------

\* A step that sends no message and gives no worker a policy can only take
\* policies away from where they are.
LEMMA PlacesShrink ==
    ASSUME Placed,
           creating' \subseteq creating, queue' = queue, used' = used,
           \A w \in Workers : policy'[w] = policy[w] \/ policy'[w] = NoPolicy,
           \A p \in Policies \ used : table'[p] = NoRow /\ editing'[p] = NoRow
    PROVE  InOnePlace' /\ UnusedIsNowhere'
<1>1. \A p \in Policies : (Runs(p))' => Runs(p)
  BY NoPolicyAssumption DEF Runs
<1>2. \A p \in Policies : (IsQueued(p))' <=> IsQueued(p)
  BY DEF IsQueued
<1>3. InOnePlace'
  BY <1>1, <1>2, NoPolicyAssumption DEF Placed, InOnePlace
<1>4. UnusedIsNowhere'
  BY <1>1, <1>2 DEF Placed, UnusedIsNowhere
<1> QED BY <1>3, <1>4

\* A worker's policy has been used.
LEMMA RunIsUsed ==
    ASSUME Placed, NEW w \in Workers, at[w] \notin {"idle", "lent"}
    PROVE  policy[w] \in Policies /\ policy[w] \in used
<1>1. policy[w] \in Policies
  BY DEF Placed, Typed, TypeOK, IdleHasNone
<1> QED BY <1>1 DEF Placed, UnusedIsNowhere, Runs

LEMMA PlacedStep == Placed /\ [Next]_vars => Placed'
<1> SUFFICES ASSUME Placed, [Next]_vars PROVE Placed'
  OBVIOUS
<1>0. Typed'
  BY TypeStep DEF Placed
<1> SUFFICES InOnePlace' /\ UnusedIsNowhere'
  BY <1>0 DEF Placed
<1> USE DEF viewVars, taskVars
<1>1. CASE UNCHANGED vars
  BY <1>1, PlacesShrink DEF vars, Placed, UnusedIsNowhere
<1>2. ASSUME NEW p \in Policies, NEW start \in Times, NEW end \in Times,
             Create(p, start, end)
      PROVE  InOnePlace' /\ UnusedIsNowhere'
  <2>1. p \notin creating /\ ~IsQueued(p) /\ ~Runs(p)
    BY <1>2 DEF Create, Placed, UnusedIsNowhere
  <2>2. \A q \in Policies : /\ (Runs(q))' <=> Runs(q)
                            /\ (IsQueued(q))' <=> IsQueued(q)
    BY <1>2 DEF Create, Runs, IsQueued
  <2>3. InOnePlace'
    BY <1>2, <2>1, <2>2 DEF Create, Placed, InOnePlace
  <2>4. UnusedIsNowhere'
    BY <1>2, <2>2 DEF Create, Placed, UnusedIsNowhere, Typed, TypeOK
  <2> QED BY <2>3, <2>4
<1>3. ASSUME NEW p \in Policies, NEW start \in Times, NEW end \in Times,
             EditSave(p, start, end)
      PROVE  InOnePlace' /\ UnusedIsNowhere'
  <2>1. p \in used
    BY <1>3 DEF EditSave, Placed, UnusedIsNowhere
  <2>2. \A q \in Policies \ used : table'[q] = NoRow /\ editing'[q] = NoRow
    BY <1>3, <2>1 DEF EditSave, Placed, UnusedIsNowhere, Typed, TypeOK
  <2> QED BY <1>3, <2>2, PlacesShrink DEF EditSave
<1>4. ASSUME NEW p \in Policies, Delay(p)
      PROVE  InOnePlace' /\ UnusedIsNowhere'
  <2>1. p \in used /\ ~IsQueued(p) /\ ~Runs(p)
    BY <1>4 DEF Delay, Placed, InOnePlace, UnusedIsNowhere
  <2>2. \A q \in Policies : (Runs(q))' <=> Runs(q)
    BY <1>4 DEF Delay, Runs
  <2>3. /\ queue' = Append(queue, p) /\ queue \in Seq(Policies)
        /\ Len(queue') = Len(queue) + 1 /\ Len(queue) \in Nat
        /\ \A i \in 1..Len(queue) : queue'[i] = queue[i]
        /\ queue'[Len(queue) + 1] = p
    BY <1>4, Appended DEF Delay, Placed, Typed, TypeOK
  <2>4. \A q \in Policies : (IsQueued(q))' => IsQueued(q) \/ q = p
    BY <2>3 DEF IsQueued
  <2>5. \A q \in Policies : \A i, j \in 1..Len(queue') :
           queue'[i] = q /\ queue'[j] = q => i = j
    BY <2>1, <2>3 DEF IsQueued, Placed, InOnePlace
  <2>6. InOnePlace'
    BY <1>4, <2>1, <2>2, <2>4, <2>5 DEF Delay, Placed, InOnePlace
  <2>7. UnusedIsNowhere'
    BY <1>4, <2>1, <2>2, <2>4 DEF Delay, Placed, UnusedIsNowhere
  <2> QED BY <2>6, <2>7
<1>5. ASSUME NEW p \in Policies,
             DelayFails(p) \/ EditLoad(p) \/ Delete(p) \/ RequestStop(p)
      PROVE  InOnePlace' /\ UnusedIsNowhere'
  <2>1. \A q \in Policies \ used : table'[q] = NoRow /\ editing'[q] = NoRow
    BY <1>5 DEF DelayFails, EditLoad, Delete, RequestStop,
                Placed, UnusedIsNowhere, Typed, TypeOK
  <2> QED BY <1>5, <2>1, PlacesShrink DEF DelayFails, EditLoad, Delete, RequestStop
<1>6. ASSUME NEW w \in Workers, Take(w)
      PROVE  InOnePlace' /\ UnusedIsNowhere'
  <2>0. PICK p \in Policies : p = Head(queue)
    BY <1>6, Taken DEF Take, Placed, Typed, TypeOK
  <2>1. /\ queue' = Tail(queue) /\ Len(queue) \in Nat \ {0}
        /\ Len(queue') = Len(queue) - 1
        /\ \A i \in 1..Len(queue') : queue'[i] = queue[i + 1]
        /\ p = queue[1]
    BY <1>6, <2>0, Taken DEF Take, Placed, Typed, TypeOK
  <2>2. IsQueued(p) /\ p \in used /\ p \notin creating /\ ~Runs(p)
    <3>1. IsQueued(p)
      BY <2>1 DEF IsQueued
    <3> QED BY <2>1, <3>1 DEF Placed, InOnePlace, UnusedIsNowhere
  <2>3. \A q \in Policies : (IsQueued(q))' => IsQueued(q)
    BY <2>1 DEF IsQueued
  <2>4. ~(IsQueued(p))'
    BY <2>1 DEF IsQueued, Placed, InOnePlace
  <2>5. \A q \in Policies : (Runs(q))' => Runs(q) \/ q = p
    BY <1>6, <2>0 DEF Take, Runs, Placed, Typed, TypeOK
  <2>6. \A q \in Policies : \A i, j \in 1..Len(queue') :
           queue'[i] = q /\ queue'[j] = q => i = j
    BY <2>1 DEF Placed, InOnePlace
  <2>7. \A q \in Policies : \A u, v \in Workers :
           policy'[u] = q /\ policy'[v] = q => u = v
    BY <1>6, <2>0, <2>2 DEF Take, Runs, Placed, InOnePlace, Typed, TypeOK
  <2>8. InOnePlace'
    BY <1>6, <2>0, <2>2, <2>3, <2>4, <2>5, <2>6, <2>7 DEF Take, Placed, InOnePlace
  <2>9. UnusedIsNowhere'
    BY <1>6, <2>2, <2>3, <2>5 DEF Take, Placed, UnusedIsNowhere
  <2> QED BY <2>8, <2>9
<1>7. ASSUME NEW w \in Workers,
             \/ Read(w) \/ ReadNothing(w) \/ WaitForStart(w) \/ DecideToTrade(w)
             \/ Trade(w) \/ TaskDies(w) \/ Return(w)
      PROVE  InOnePlace' /\ UnusedIsNowhere'
  <2>1. \A v \in Workers : policy'[v] = policy[v] \/ policy'[v] = NoPolicy
    BY <1>7 DEF Read, ReadNothing, WaitForStart, DecideToTrade, Trade, TaskDies,
                Return, Leave, Placed, Typed, TypeOK
  <2> QED BY <1>7, <2>1, PlacesShrink
      DEF Read, ReadNothing, WaitForStart, DecideToTrade, Trade, TaskDies, Return,
          Placed, UnusedIsNowhere
<1>8. ASSUME NEW w \in Workers, Finish(w) \/ Start(w)
      PROVE  InOnePlace' /\ UnusedIsNowhere'
  <2>1. policy[w] \in Policies /\ policy[w] \in used
    BY <1>8, RunIsUsed DEF Finish, Start
  <2>2. \A q \in Policies \ used : table'[q] = NoRow
    BY <1>8, <2>1 DEF Finish, Start, SaveAs, Placed, UnusedIsNowhere, Typed, TypeOK
  <2>3. \A v \in Workers : policy'[v] = policy[v] \/ policy'[v] = NoPolicy
    BY <1>8 DEF Finish, Start, Leave, Placed, Typed, TypeOK
  <2> QED BY <1>8, <2>2, <2>3, PlacesShrink
      DEF Finish, Start, Placed, UnusedIsNowhere
<1>9. CASE Tick
  BY <1>9, PlacesShrink DEF Tick, Placed, UnusedIsNowhere
<1>10. CASE Over
  BY <1>10, PlacesShrink DEF Over, vars, Placed, UnusedIsNowhere
<1> QED
  BY <1>1, <1>2, <1>3, <1>4, <1>5, <1>6, <1>7, <1>8, <1>9, <1>10
  DEF Next, View, Task

\* OneTaskPerPolicy: no interleaving of creating, editing, deleting, stopping,
\* running and crashing has a policy run by two workers.
THEOREM NeverRunTwice == Spec => []OneTaskPerPolicy
<1>1. Init => Placed
  BY InitPlaced
<1>2. Placed => OneTaskPerPolicy
  BY DEF Placed, InOnePlace, OneTaskPerPolicy, RunsOn, Runs
<1> QED BY <1>1, <1>2, PlacedStep, PTL DEF Spec

-----------------------------------------------------------------------------

Stopped == Placed /\ StopIsNowhere /\ CopyIsNotStopped

\* A policy that has left its last place never comes back: no step sends a used
\* policy to the broker unless its create view still has it.
LEMMA NowhereStays ==
    ASSUME Placed, [Next]_vars, NEW p \in used,
           p \notin creating, ~IsQueued(p), ~Runs(p)
    PROVE  p \notin creating' /\ ~(IsQueued(p))' /\ ~(Runs(p))'
<1> USE DEF viewVars, taskVars
<1> p \in Policies
  BY DEF Placed, Typed, TypeOK
<1>1. CASE /\ UNCHANGED queue
           /\ creating' \subseteq creating
           /\ \A w \in Workers : policy'[w] = policy[w] \/ policy'[w] = NoPolicy
  BY <1>1, NoPolicyAssumption DEF IsQueued, Runs
<1>2. ASSUME NEW q \in Policies, NEW start \in Times, NEW end \in Times,
             Create(q, start, end)
      PROVE  p \notin creating' /\ ~(IsQueued(p))' /\ ~(Runs(p))'
  BY <1>2 DEF Create, IsQueued, Runs
<1>3. ASSUME NEW q \in Policies, Delay(q)
      PROVE  p \notin creating' /\ ~(IsQueued(p))' /\ ~(Runs(p))'
  <2>1. ~(IsQueued(p))'
    BY <1>3, Appended DEF Delay, IsQueued, Placed, Typed, TypeOK
  <2> QED BY <1>3, <2>1 DEF Delay, Runs
<1>4. ASSUME NEW w \in Workers, Take(w)
      PROVE  p \notin creating' /\ ~(IsQueued(p))' /\ ~(Runs(p))'
  <2>1. Head(queue) # p /\ ~(IsQueued(p))'
    BY <1>4, Taken DEF Take, IsQueued, Placed, Typed, TypeOK
  <2> QED BY <1>4, <2>1 DEF Take, Runs, Placed, Typed, TypeOK
<1>5. CASE UNCHANGED vars
  BY <1>1, <1>5 DEF vars
<1>6. ASSUME NEW q \in Policies,
             \/ \E start, end \in Times : EditSave(q, start, end)
             \/ DelayFails(q) \/ EditLoad(q) \/ Delete(q) \/ RequestStop(q)
      PROVE  p \notin creating' /\ ~(IsQueued(p))' /\ ~(Runs(p))'
  BY <1>1, <1>6 DEF EditSave, DelayFails, EditLoad, Delete, RequestStop
<1>7. ASSUME NEW w \in Workers,
             \/ Read(w) \/ ReadNothing(w) \/ Finish(w) \/ WaitForStart(w)
             \/ DecideToTrade(w) \/ Start(w) \/ Trade(w) \/ TaskDies(w)
             \/ Return(w)
      PROVE  p \notin creating' /\ ~(IsQueued(p))' /\ ~(Runs(p))'
  <2>1. \A v \in Workers : policy'[v] = policy[v] \/ policy'[v] = NoPolicy
    BY <1>7 DEF Read, ReadNothing, Finish, WaitForStart, DecideToTrade, Start,
                Trade, TaskDies, Return, Leave, Placed, Typed, TypeOK
  <2> QED BY <1>1, <1>7, <2>1
      DEF Read, ReadNothing, Finish, WaitForStart, DecideToTrade, Start, Trade,
          TaskDies, Return
<1>8. CASE Tick \/ Over
  BY <1>1, <1>8 DEF Tick, Over, vars
<1> QED
  BY <1>2, <1>3, <1>4, <1>5, <1>6, <1>7, <1>8 DEF Next, View, Task

\* Only a task writes "stop", and it leaves with that step.
LEMMA StoppedStep == Stopped /\ [Next]_vars => Stopped'
<1> SUFFICES ASSUME Stopped, [Next]_vars PROVE Stopped'
  OBVIOUS
<1>0. Placed' /\ Placed
  BY PlacedStep DEF Stopped
<1> SUFFICES StopIsNowhere' /\ CopyIsNotStopped'
  BY <1>0 DEF Stopped
<1> USE DEF viewVars, taskVars
<1>1. ASSUME \A p \in Policies :
                IsStop(table'[p]) \/ IsStop(editing'[p])
                   => IsStop(table[p]) \/ IsStop(editing[p])
      PROVE  StopIsNowhere'
  <2> SUFFICES ASSUME NEW p \in Policies,
                      IsStop(table'[p]) \/ IsStop(editing'[p])
               PROVE  p \notin creating' /\ ~(IsQueued(p))' /\ ~(Runs(p))'
    BY DEF StopIsNowhere
  <2>1. p \notin creating /\ ~IsQueued(p) /\ ~Runs(p)
    BY <1>1 DEF Stopped, StopIsNowhere
  <2>2. p \in used
    BY <1>0, <1>1 DEF Placed, UnusedIsNowhere, IsStop
  <2> QED BY <1>0, <2>1, <2>2, NowhereStays
<1>2. CASE UNCHANGED vars
  BY <1>1, <1>2 DEF vars, Stopped, CopyIsNotStopped
<1>3. ASSUME NEW p \in Policies, NEW start \in Times, NEW end \in Times,
             Create(p, start, end)
      PROVE  StopIsNowhere' /\ CopyIsNotStopped'
  BY <1>0, <1>1, <1>3
  DEF Create, Stopped, CopyIsNotStopped, IsStop, Placed, Typed, TypeOK
<1>4. ASSUME NEW p \in Policies, NEW start \in Times, NEW end \in Times,
             EditSave(p, start, end)
      PROVE  StopIsNowhere' /\ CopyIsNotStopped'
  <2>1. editing[p] \in Row
    BY <1>0, <1>4 DEF EditSave, Placed, Typed, TypeOK
  <2>2. IsStop([editing[p] EXCEPT !.start_time = start, !.end_time = end])
           => IsStop(editing[p])
    BY <1>4, <2>1, RowWithTimes DEF IsStop, EditSave
  <2>3. \A q \in Policies :
           /\ IsStop(table'[q]) => IsStop(table[q]) \/ IsStop(editing[q])
           /\ IsStop(editing'[q]) => IsStop(editing[q])
    <3>1. \A q \in Policies : q # p => table'[q] = table[q] /\ editing'[q] = editing[q]
      BY <1>0, <1>4 DEF EditSave, Placed, Typed, TypeOK
    <3>2. /\ table'[p] = [editing[p] EXCEPT !.start_time = start, !.end_time = end]
          /\ editing'[p] = NoRow
      BY <1>0, <1>4 DEF EditSave, Placed, Typed, TypeOK
    <3>3. ~IsStop(NoRow)
      BY DEF IsStop
    <3> QED BY <2>2, <3>1, <3>2, <3>3
  <2> QED BY <1>1, <1>4, <2>3 DEF EditSave, Stopped, CopyIsNotStopped
<1>5. ASSUME NEW p \in Policies,
             Delay(p) \/ DelayFails(p) \/ EditLoad(p) \/ Delete(p)
      PROVE  StopIsNowhere' /\ CopyIsNotStopped'
  BY <1>0, <1>1, <1>5
  DEF Delay, DelayFails, EditLoad, Delete, Stopped, CopyIsNotStopped, IsStop,
      Placed, Typed, TypeOK
<1>6. ASSUME NEW p \in Policies, RequestStop(p)
      PROVE  StopIsNowhere' /\ CopyIsNotStopped'
  <2>1. IsStop([table[p] EXCEPT !.operation = 1]) => IsStop(table[p])
    BY <1>0, <1>6, RowWithOperation DEF RequestStop, IsStop, Placed, Typed, TypeOK
  <2>2. \A q \in Policies : IsStop(table'[q]) => IsStop(table[q])
    <3>1. \A q \in Policies : q # p => table'[q] = table[q]
      BY <1>0, <1>6 DEF RequestStop, Placed, Typed, TypeOK
    <3>2. table'[p] = [table[p] EXCEPT !.operation = 1]
      BY <1>0, <1>6 DEF RequestStop, Placed, Typed, TypeOK
    <3> QED BY <2>1, <3>1, <3>2
  <2> QED BY <1>1, <1>6, <2>2 DEF RequestStop, Stopped, CopyIsNotStopped
<1>7. ASSUME NEW w \in Workers, Read(w)
      PROVE  StopIsNowhere' /\ CopyIsNotStopped'
  <2>1. policy[w] \in Policies /\ Runs(policy[w])
    BY <1>0, <1>7, RunIsUsed DEF Read, Runs
  <2>2. ~IsStop(table[policy[w]])
    BY <2>1 DEF Stopped, StopIsNowhere
  <2>3. CopyIsNotStopped'
    BY <1>0, <1>7, <2>2
    DEF Read, Stopped, CopyIsNotStopped, Placed, Typed, TypeOK
  <2> QED BY <1>1, <1>7, <2>3 DEF Read
<1>8. ASSUME NEW w \in Workers,
             \/ Take(w) \/ ReadNothing(w) \/ WaitForStart(w)
             \/ DecideToTrade(w) \/ Trade(w) \/ TaskDies(w) \/ Return(w)
      PROVE  StopIsNowhere' /\ CopyIsNotStopped'
  BY <1>0, <1>1, <1>8
  DEF Take, ReadNothing, WaitForStart, DecideToTrade, Trade, TaskDies, Return, Leave,
      Stopped, CopyIsNotStopped, IsStop, Placed, Typed, TypeOK
<1>9. ASSUME NEW w \in Workers, Start(w)
      PROVE  StopIsNowhere' /\ CopyIsNotStopped'
  <2>1. policy[w] \in Policies /\ copy[w] \in Row
    BY <1>0, <1>9, RunIsUsed DEF Start, Placed, Typed, TypeOK, IdleHasNone
  <2>2. ~IsStop([copy[w] EXCEPT !.status = "run"])
    BY <2>1, RowWithStatus DEF IsStop, RUN_STATUSS
  <2>3. \A q \in Policies : IsStop(table'[q]) => IsStop(table[q])
    <3>1. \A q \in Policies : q # policy[w] => table'[q] = table[q]
      BY <1>0, <1>9, <2>1 DEF Start, SaveAs, Placed, Typed, TypeOK
    <3>2. table'[policy[w]] = [copy[w] EXCEPT !.status = "run"]
      BY <1>0, <1>9, <2>1 DEF Start, SaveAs, Placed, Typed, TypeOK
    <3> QED BY <2>2, <3>1, <3>2
  <2>4. CopyIsNotStopped'
    BY <1>0, <1>9
    DEF Start, Stopped, CopyIsNotStopped, IsStop, Placed, Typed, TypeOK
  <2> QED BY <1>1, <1>9, <2>3, <2>4 DEF Start
<1>10. ASSUME NEW w \in Workers, Finish(w)
       PROVE  StopIsNowhere' /\ CopyIsNotStopped'
  <2>1. /\ policy[w] \in Policies /\ policy[w] \in used
        /\ policy[w] \notin creating /\ ~IsQueued(policy[w])
    BY <1>0, <1>10, RunIsUsed DEF Finish, Placed, InOnePlace, Runs
  <2>2. ~\E v \in Workers : policy'[v] = policy[w]
    BY <1>0, <1>10, <2>1, NoPolicyAssumption
    DEF Finish, Leave, Placed, InOnePlace, Typed, TypeOK
  <2>3. \A q \in Policies : q # policy[w] => table'[q] = table[q]
    BY <1>0, <1>10, <2>1 DEF Finish, SaveAs, Placed, Typed, TypeOK
  <2>4. \A q \in Policies : /\ (IsQueued(q))' <=> IsQueued(q)
                            /\ (Runs(q))' => Runs(q)
    BY <1>0, <1>10, NoPolicyAssumption
    DEF Finish, Leave, IsQueued, Runs, Placed, Typed, TypeOK
  <2>5. StopIsNowhere'
    BY <1>10, <2>1, <2>2, <2>3, <2>4 DEF Finish, Stopped, StopIsNowhere, Runs
  <2>6. CopyIsNotStopped'
    BY <1>0, <1>10 DEF Finish, Leave, Stopped, CopyIsNotStopped, IsStop,
                       Placed, Typed, TypeOK
  <2> QED BY <2>5, <2>6
<1>11. CASE Tick \/ Over
  BY <1>1, <1>11 DEF Tick, Over, vars, Stopped, CopyIsNotStopped
<1> QED
  BY <1>2, <1>3, <1>4, <1>5, <1>6, <1>7, <1>8, <1>9, <1>10, <1>11
  DEF Next, View, Task

\* StoppedMeansIdle: a policy the list shows as stopped is run by nobody and
\* will be run by nobody, whatever stale rows were saved before.
THEOREM StoppedIsIdle == Spec => []StoppedMeansIdle
<1>1. Init => Stopped
  BY InitPlaced DEF Stopped
<1>2. Stopped => StoppedMeansIdle
  BY DEF Stopped, StopIsNowhere, IsStop, StoppedMeansIdle, RunsOn, Runs
<1> QED BY <1>1, <1>2, StoppedStep, PTL DEF Spec
-----------------------------------------------------------------------------

InWindow(row) ==
    row # NoRow => row.start_time >= BoughtFrom /\ row.end_time <= BoughtUntil

Paid ==
    /\ Typed
    /\ \A p \in Policies \ edited : InWindow(table[p])
    /\ \A w \in Workers : policy[w] \notin edited => InWindow(copy[w])
    /\ DecidedInWindow

\* Whatever the task saves stays in the window, if what it loaded was.
LEMMA SaveStaysInWindow ==
    ASSUME Paid, NEW w \in Workers, NEW s \in RUN_STATUSS, SaveAs(w, s),
           at[w] \in {"deciding", "starting"}
    PROVE  \A q \in Policies \ edited : InWindow(table'[q])
<1>1. policy[w] \in Policies /\ copy[w] \in Row
  BY DEF Paid, Typed, TypeOK, IdleHasNone
<1>2. policy[w] \notin edited => InWindow([copy[w] EXCEPT !.status = s])
  BY <1>1, RowWithStatus, NoRowAssumption DEF InWindow, Paid
<1>3. \A q \in Policies : q # policy[w] => table'[q] = table[q]
  BY <1>1 DEF SaveAs, Paid, Typed, TypeOK
<1>4. table'[policy[w]] = [copy[w] EXCEPT !.status = s]
  BY <1>1 DEF SaveAs, Paid, Typed, TypeOK
<1> QED BY <1>2, <1>3, <1>4 DEF Paid

LEMMA PaidStep == Paid /\ [Next]_vars => Paid'
<1> SUFFICES ASSUME Paid, [Next]_vars PROVE Paid'
  OBVIOUS
<1>0. Typed' /\ Typed
  BY TypeStep DEF Paid
<1> USE TimeAssumption DEF viewVars, taskVars
<1>1. CASE UNCHANGED vars
  BY <1>0, <1>1 DEF vars, Paid, DecidedInWindow
<1>2. ASSUME NEW p \in Policies, NEW start \in Times, NEW end \in Times,
             Create(p, start, end)
      PROVE  Paid'
  <2> DEFINE new == [start_time |-> start, end_time |-> end,
                     status |-> "unstart", operation |-> 0]
  <2>1. InWindow(new)
    BY <1>2 DEF Create, InWindow
  <2>2. \A q \in Policies : table'[q] = table[q] \/ table'[q] = new
    BY <1>0, <1>2 DEF Create, Typed, TypeOK
  <2> HIDE DEF new
  <2>3. \A q \in Policies \ edited : InWindow(table'[q])
    BY <2>1, <2>2 DEF Paid
  <2> QED BY <1>0, <1>2, <2>3 DEF Create, Paid, DecidedInWindow
<1>3. ASSUME NEW p \in Policies, NEW start \in Times, NEW end \in Times,
             EditSave(p, start, end)
      PROVE  Paid'
  <2>1. edited' = edited \cup {p} /\ UNCHANGED taskVars
    BY <1>3 DEF EditSave
  <2>2. \A q \in Policies : q # p => table'[q] = table[q]
    BY <1>0, <1>3 DEF EditSave, Typed, TypeOK
  <2>3. \A q \in Policies \ edited' : InWindow(table'[q])
    BY <2>1, <2>2 DEF Paid
  <2> QED BY <1>0, <2>1, <2>3 DEF Paid, DecidedInWindow
<1>4. ASSUME NEW p \in Policies,
             Delay(p) \/ DelayFails(p) \/ EditLoad(p) \/ Delete(p)
      PROVE  Paid'
  BY <1>0, <1>4
  DEF Delay, DelayFails, EditLoad, Delete, Paid, InWindow, DecidedInWindow,
      Typed, TypeOK
<1>5. ASSUME NEW p \in Policies, RequestStop(p) PROVE Paid'
  <2>1. InWindow(table[p]) => InWindow([table[p] EXCEPT !.operation = 1])
    BY <1>0, <1>5, RowWithOperation DEF RequestStop, InWindow, Typed, TypeOK
  <2>2. \A q \in Policies : q # p => table'[q] = table[q]
    BY <1>0, <1>5 DEF RequestStop, Typed, TypeOK
  <2>3. table'[p] = [table[p] EXCEPT !.operation = 1]
    BY <1>0, <1>5 DEF RequestStop, Typed, TypeOK
  <2>4. \A q \in Policies \ edited : InWindow(table'[q])
    BY <2>1, <2>2, <2>3 DEF Paid
  <2> QED BY <1>0, <1>5, <2>4 DEF RequestStop, Paid, DecidedInWindow
<1>6. ASSUME NEW w \in Workers,
             \/ Take(w) \/ Read(w) \/ ReadNothing(w) \/ WaitForStart(w)
             \/ Trade(w) \/ TaskDies(w) \/ Return(w)
      PROVE  Paid'
  <2>1. Read(w) /\ policy[w] \notin edited => InWindow(table[policy[w]])
    BY <1>0 DEF Read, Paid, Typed, TypeOK, IdleHasNone
  <2>2. \A v \in Workers :
           \/ copy'[v] = NoRow
           \/ policy'[v] = policy[v] /\ copy'[v] = copy[v]
           \/ v = w /\ Read(w) /\ policy'[v] = policy[v]
                    /\ copy'[v] = table[policy[v]]
    BY <1>0, <1>6
    DEF Take, Read, ReadNothing, WaitForStart, Trade, TaskDies, Return, Leave,
        Typed, TypeOK, IdleHasNone
  <2>3. \A v \in Workers :
           at'[v] \in {"starting", "trading"} =>
              at'[v] = at[v] /\ policy'[v] = policy[v] /\ since'[v] = since[v]
    BY <1>0, <1>6
    DEF Take, Read, ReadNothing, WaitForStart, Trade, TaskDies, Return, Leave,
        Typed, TypeOK
  <2>4. UNCHANGED <<table, edited>>
    BY <1>6 DEF Take, Read, ReadNothing, WaitForStart, Trade, TaskDies, Return
  <2> QED BY <1>0, <2>1, <2>2, <2>3, <2>4 DEF Paid, InWindow, DecidedInWindow
<1>7. ASSUME NEW w \in Workers, Finish(w) PROVE Paid'
  <2>1. \A q \in Policies \ edited : InWindow(table'[q])
    BY SaveStaysInWindow, <1>7 DEF Finish, RUN_STATUSS
  <2>2. /\ at'[w] = "idle" /\ copy'[w] = NoRow
        /\ edited' = edited
        /\ \A v \in Workers \ {w} :
              /\ at'[v] = at[v] /\ copy'[v] = copy[v]
              /\ policy'[v] = policy[v] /\ since'[v] = since[v]
    BY <1>0, <1>7 DEF Finish, Leave, Typed, TypeOK
  <2> QED BY <1>0, <1>7, <2>1, <2>2 DEF Finish, Paid, InWindow, DecidedInWindow
<1>8. ASSUME NEW w \in Workers, DecideToTrade(w) PROVE Paid'
  <2>1. /\ copy[w] \in Row /\ policy[w] \in Policies
        /\ now \in Nat /\ Tolerance[policy[w]] \in Nat
    BY <1>0, <1>8, NoPolicyAssumption DEF DecideToTrade, Typed, TypeOK, IdleHasNone
  <2>2. policy[w] \notin edited =>
          BoughtFrom <= now + Tolerance[policy[w]] /\ now <= BoughtUntil
    BY <1>8, <2>1, NoRowAssumption
    DEF DecideToTrade, IsStopped, IsEarly, IsOver, Paid, InWindow, Row, Times, OPS
  <2>3. /\ since'[w] = now /\ UNCHANGED <<table, policy, copy, edited>>
        /\ \A v \in Workers \ {w} : at'[v] = at[v] /\ since'[v] = since[v]
    BY <1>0, <1>8 DEF DecideToTrade, Typed, TypeOK
  <2> QED BY <1>0, <2>2, <2>3 DEF Paid, InWindow, DecidedInWindow
<1>9. ASSUME NEW w \in Workers, Start(w) PROVE Paid'
  <2>1. \A q \in Policies \ edited : InWindow(table'[q])
    BY SaveStaysInWindow, <1>9 DEF Start, RUN_STATUSS
  <2>2. /\ copy'[w] = NoRow /\ at[w] = "starting"
        /\ UNCHANGED <<policy, since, edited>>
        /\ \A v \in Workers \ {w} : at'[v] = at[v] /\ copy'[v] = copy[v]
    BY <1>0, <1>9 DEF Start, Typed, TypeOK
  <2> QED BY <1>0, <2>1, <2>2 DEF Paid, InWindow, DecidedInWindow
<1>10. CASE Tick \/ Over
  BY <1>0, <1>10 DEF Tick, Over, vars, Paid, DecidedInWindow
<1> QED
  BY <1>1, <1>2, <1>3, <1>4, <1>5, <1>6, <1>7, <1>8, <1>9, <1>10
  DEF Next, View, Task

\* DecidedInWindow: the check of the create view and the two comparisons of the
\* task keep the decisions to trade for a policy that no update request has
\* written in its paid period, or within the tolerance of its kind before it.
THEOREM UneditedIsPaidFor == Spec => []DecidedInWindow
<1>1. Init => Paid
  <2> SUFFICES ASSUME Init PROVE Paid
    OBVIOUS
  <2>1. Typed
    BY InitPlaced DEF Placed
  <2> QED BY <2>1 DEF Init, Paid, InWindow, DecidedInWindow
<1>2. Paid => DecidedInWindow
  BY DEF Paid
<1> QED BY <1>1, <1>2, PaidStep, PTL DEF Spec

-----------------------------------------------------------------------------

\* A step other than the ones named here leaves each policy its worker.
LEMMA RunnersStay ==
    ASSUME Typed, [Next]_vars, NEW p \in Policies, Runs(p)
    PROVE  \/ (Runs(p))'
           \/ \E w \in Workers :
                /\ policy[w] = p
                /\ ReadNothing(w) \/ Finish(w) \/ TaskDies(w)
<1> PICK w \in Workers : policy[w] = p
  BY DEF Runs
<1> USE NoPolicyAssumption DEF viewVars, taskVars, Runs, Typed, TypeOK, IdleHasNone
<1>1. ASSUME NEW v \in Workers, Task(v) \/ TaskDies(v),
             ~(ReadNothing(v) \/ Finish(v) \/ TaskDies(v))
      PROVE  policy'[w] = policy[w]
  BY <1>1 DEF Task, Take, Read, WaitForStart, DecideToTrade, Start, Trade
<1>2. ASSUME NEW v \in Workers, v # w,
             ReadNothing(v) \/ Finish(v) \/ TaskDies(v)
      PROVE  policy'[w] = policy[w]
  BY <1>2 DEF ReadNothing, Finish, TaskDies, Leave
<1>3. ASSUME NEW q \in Policies, View(q) \/ RequestStop(q)
      PROVE  policy' = policy
  BY <1>3 DEF View, Create, EditSave, Delay, DelayFails, EditLoad, Delete,
              RequestStop
<1>4. CASE Tick \/ Over \/ UNCHANGED vars \/ \E v \in Workers : Return(v)
  BY <1>4 DEF Tick, Over, vars, Return
<1> QED BY <1>1, <1>2, <1>3, <1>4 DEF Next

Worked == Typed /\ RunMeansWorked

IsRun(row) == row # NoRow /\ row.status = "run"

\* The status of policy q was "run" before, or a task has just started it or
\* an update request has just saved it.
LEMMA RunComesFrom ==
    ASSUME Typed, [Next]_vars, NEW q \in Policies, IsRun(table'[q])
    PROVE  \/ IsRun(table[q])
           \/ (Runs(q))'
           \/ q \in edited'
<1> USE DEF viewVars, taskVars, Typed, TypeOK, IdleHasNone
<1>1. ASSUME NEW p \in Policies, NEW start \in Times, NEW end \in Times,
             Create(p, start, end)
      PROVE  IsRun(table[q])
  BY <1>1 DEF Create, IsRun
<1>2. ASSUME NEW p \in Policies, NEW start \in Times, NEW end \in Times,
             EditSave(p, start, end)
      PROVE  IsRun(table[q]) \/ q \in edited'
  BY <1>2 DEF EditSave, IsRun
<1>3. ASSUME NEW p \in Policies,
             Delay(p) \/ DelayFails(p) \/ EditLoad(p) \/ Delete(p)
      PROVE  IsRun(table[q])
  BY <1>3 DEF Delay, DelayFails, EditLoad, Delete, IsRun
<1>4. ASSUME NEW p \in Policies, RequestStop(p) PROVE IsRun(table[q])
  <2>1. [table[p] EXCEPT !.operation = 1].status = table[p].status
    BY <1>4, RowWithOperation DEF RequestStop
  <2> QED BY <1>4, <2>1 DEF RequestStop, IsRun
<1>5. ASSUME NEW w \in Workers, Start(w) PROVE IsRun(table[q]) \/ (Runs(q))'
  <2>1. policy[w] \in Policies /\ policy' = policy
    BY <1>5 DEF Start
  <2>2. CASE policy[w] = q
    BY <2>1, <2>2 DEF Runs
  <2>3. CASE policy[w] # q
    BY <1>5, <2>1, <2>3 DEF Start, SaveAs, IsRun
  <2> QED BY <2>2, <2>3
<1>6. ASSUME NEW w \in Workers, Finish(w) PROVE IsRun(table[q])
  <2>1. policy[w] \in Policies /\ copy[w] \in Row
    BY <1>6 DEF Finish
  <2>2. [copy[w] EXCEPT !.status = "stop"].status = "stop"
    BY <2>1, RowWithStatus DEF RUN_STATUSS
  <2>3. table'[policy[w]].status = "stop"
    BY <1>6, <2>1, <2>2 DEF Finish, SaveAs
  <2> QED BY <1>6, <2>1, <2>3 DEF Finish, SaveAs, IsRun
<1>7. ASSUME NEW w \in Workers,
             \/ Take(w) \/ Read(w) \/ ReadNothing(w) \/ WaitForStart(w)
             \/ DecideToTrade(w) \/ Trade(w) \/ TaskDies(w) \/ Return(w)
      PROVE  table' = table
  BY <1>7 DEF Take, Read, ReadNothing, WaitForStart, DecideToTrade, Trade,
              TaskDies, Return
<1>8. CASE Tick \/ Over \/ UNCHANGED vars
  BY <1>8 DEF Tick, Over, vars, IsRun
<1> QED
  BY <1>1, <1>2, <1>3, <1>4, <1>5, <1>6, <1>7, <1>8
  DEF Next, View, Task, IsRun

\* What excused a row once excuses it for good.
LEMMA ExcusesStay ==
    ASSUME [Next]_vars
    PROVE  lost \subseteq lost' /\ edited \subseteq edited'
BY DEF Next, View, Task, Create, EditSave, Delay, DelayFails, EditLoad, Delete,
       RequestStop, Take, Read, ReadNothing, Finish, WaitForStart, DecideToTrade,
       Start, Trade, TaskDies, Return, Tick, Over, vars, viewVars, taskVars

LEMMA WorkedStep == Worked /\ [Next]_vars => Worked'
<1> SUFFICES ASSUME Worked, [Next]_vars PROVE Worked'
  OBVIOUS
<1>0. Typed /\ Typed'
  BY TypeStep DEF Worked
<1> SUFFICES ASSUME NEW q \in Policies, IsRun(table'[q])
             PROVE  (Runs(q))' \/ q \in lost' \cup edited'
  BY <1>0 DEF Worked, RunMeansWorked, RunsOn, Runs, IsRun
<1>1. CASE q \in edited' \/ (Runs(q))'
  BY <1>1
<1>2. CASE IsRun(table[q]) /\ q \in lost \cup edited
  BY <1>2, ExcusesStay
<1>3. CASE IsRun(table[q]) /\ Runs(q)
  <2>1. CASE (Runs(q))'
    BY <2>1
  <2>2. ASSUME NEW w \in Workers, policy[w] = q, ReadNothing(w) PROVE FALSE
    BY <1>3, <2>2 DEF ReadNothing, IsRun
  <2>3. ASSUME NEW w \in Workers, policy[w] = q, Finish(w) PROVE FALSE
    <3>1. copy[w] \in Row
      BY <1>0, <2>3 DEF Finish, Typed, TypeOK, IdleHasNone
    <3>2. table'[q].status = "stop"
      BY <1>0, <2>3, <3>1, RowWithStatus
      DEF Finish, SaveAs, Typed, TypeOK, RUN_STATUSS
    <3> QED BY <3>2 DEF IsRun
  <2>4. ASSUME NEW w \in Workers, policy[w] = q, TaskDies(w) PROVE q \in lost'
    BY <2>4 DEF TaskDies
  <2> QED BY <1>0, <1>3, <2>1, <2>2, <2>3, <2>4, RunnersStay
<1>4. IsRun(table[q]) => Runs(q) \/ q \in lost \cup edited
  BY DEF Worked, RunMeansWorked, RunsOn, Runs, IsRun
<1> QED BY <1>0, <1>1, <1>2, <1>3, <1>4, RunComesFrom

\* RunMeansWorked: a policy the list shows as running has a worker, unless its
\* task died on it or an update request has saved the status it once read.
THEOREM RunningIsWorked == Spec => []RunMeansWorked
<1>1. Init => Worked
  <2>1. Init => Typed
    BY InitPlaced DEF Placed
  <2> QED BY <2>1 DEF Init, Worked, RunMeansWorked
<1>2. Worked => RunMeansWorked
  BY DEF Worked
<1> QED BY <1>1, <1>2, WorkedStep, PTL DEF Spec

-----------------------------------------------------------------------------
(***************************************************************************)
(* The workers implement TaskLife.                                         *)
(***************************************************************************)

Waiting == {p \in Policies : IsWaitedFor(p)}
Gone == {p \in used : ~IsWaitedFor(p) /\ RunsOn(p) = {}}

LEMMA LifeStates ==
    ASSUME Placed, NEW p \in Policies
    PROVE  /\ p \in Waiting <=> IsWaitedFor(p)
           /\ p \in Gone <=> p \in used /\ ~IsWaitedFor(p) /\ ~Runs(p)
           /\ Waiting \subseteq used /\ Gone \subseteq used /\ used \subseteq Policies
           /\ IsWaitedFor(p) => ~Runs(p)
BY DEF Waiting, Gone, Runs, RunsOn, Placed, Typed, TypeOK, UnusedIsNowhere,
       InOnePlace, IsWaitedFor

\* A step that touches no place of a policy is not seen.
LEMMA LifeStutters ==
    ASSUME Placed, UNCHANGED <<creating, queue, policy, used>>
    PROVE  UNCHANGED <<Waiting, policy, Gone>>
<1>1. \A p \in Policies : IsWaitedFor(p)' <=> IsWaitedFor(p)
  BY DEF IsWaitedFor, IsQueued
<1>2. \A p \in Policies : RunsOn(p)' = RunsOn(p)
  BY DEF RunsOn
<1>3. QED
  BY <1>1, <1>2 DEF Waiting, Gone, Placed, Typed, TypeOK

\* A new policy is waited for.
LEMMA LifeOrder ==
    ASSUME Placed, NEW p \in Policies, NEW start \in Times, NEW end \in Times,
           Create(p, start, end)
    PROVE  /\ p \notin Waiting \cup Gone /\ ~Runs(p)
           /\ Waiting' = Waiting \cup {p}
           /\ UNCHANGED <<policy, Gone>>
<1> USE DEF viewVars, taskVars
<1>1. p \notin Waiting \cup Gone /\ ~Runs(p)
  BY LifeStates DEF Create, Placed, UnusedIsNowhere, IsWaitedFor
<1>2. \A q \in Policies : /\ IsWaitedFor(q)' <=> IsWaitedFor(q) \/ q = p
                          /\ RunsOn(q)' = RunsOn(q)
  BY DEF Create, IsWaitedFor, IsQueued, RunsOn
<1>3. Waiting' = Waiting \cup {p}
  BY <1>2 DEF Waiting
<1>4. Gone' = Gone
  BY <1>2 DEF Create, Gone, Placed, Typed, TypeOK
<1>5. QED
  BY <1>1, <1>3, <1>4 DEF Create

\* The message is on its way: the policy is still waited for.
LEMMA LifeDelay ==
    ASSUME Placed, NEW p \in Policies, Delay(p)
    PROVE  UNCHANGED <<Waiting, policy, Gone>>
<1> USE DEF viewVars, taskVars
<1>1. \A q \in Policies : IsQueued(q)' <=> IsQueued(q) \/ q = p
  <2>1. /\ queue' = Append(queue, p) /\ Len(queue) \in Nat
        /\ Len(queue') = Len(queue) + 1
        /\ \A i \in 1..Len(queue) : queue'[i] = queue[i]
        /\ queue'[Len(queue) + 1] = p
    BY Appended DEF Delay, Placed, Typed, TypeOK
  <2>2. QED
    BY <2>1 DEF IsQueued
<1>2. \A q \in Policies : /\ IsWaitedFor(q)' <=> IsWaitedFor(q)
                          /\ RunsOn(q)' = RunsOn(q)
  BY <1>1 DEF Delay, IsWaitedFor, RunsOn
<1>3. QED
  BY <1>2 DEF Delay, Waiting, Gone, Placed, Typed, TypeOK

\* The message was never sent: the policy never gets a task.
LEMMA LifeDrop ==
    ASSUME Placed, NEW p \in Policies, DelayFails(p)
    PROVE  /\ p \in Waiting /\ Waiting' = Waiting \ {p}
           /\ Gone' = Gone \cup {p} /\ UNCHANGED policy
<1> USE DEF viewVars, taskVars
<1>1. p \in creating /\ ~IsQueued(p) /\ ~Runs(p) /\ p \in used
  BY DEF DelayFails, Placed, InOnePlace, UnusedIsNowhere
<1>2. \A q \in Policies : /\ IsWaitedFor(q)' <=> IsWaitedFor(q) /\ q # p
                          /\ RunsOn(q)' = RunsOn(q)
  BY <1>1 DEF DelayFails, IsWaitedFor, IsQueued, RunsOn
<1>3. RunsOn(p) = {}
  BY <1>1 DEF Runs, RunsOn
<1>4. QED
  BY <1>1, <1>2, <1>3 DEF DelayFails, Waiting, Gone, IsWaitedFor,
                          Placed, Typed, TypeOK

\* A worker takes a policy that is waited for.
LEMMA LifeBegin ==
    ASSUME Placed, NEW w \in Workers, Take(w)
    PROVE  \E p \in Policies :
             /\ p \in Waiting /\ policy[w] = NoPolicy
             /\ Waiting' = Waiting \ {p}
             /\ policy' = [policy EXCEPT ![w] = p]
             /\ Gone' = Gone
<1> USE DEF viewVars, taskVars
<1>0. PICK p \in Policies : p = Head(queue)
  BY Taken DEF Take, Placed, Typed, TypeOK
<1>1. /\ queue' = Tail(queue) /\ Len(queue) \in Nat \ {0}
      /\ Len(queue') = Len(queue) - 1
      /\ \A i \in 1..Len(queue') : queue'[i] = queue[i + 1]
      /\ p = queue[1]
  BY <1>0, Taken DEF Take, Placed, Typed, TypeOK
<1>2. IsQueued(p) /\ p \in used /\ p \notin creating /\ ~Runs(p)
  <2>1. IsQueued(p)
    BY <1>1 DEF IsQueued
  <2>2. QED
    BY <2>1 DEF Placed, InOnePlace, UnusedIsNowhere
<1>3. ~IsQueued(p)'
  BY <1>1 DEF IsQueued, Placed, InOnePlace
<1>4. ASSUME NEW q \in Policies, q # p PROVE IsQueued(q)' <=> IsQueued(q)
  <2>1. IsQueued(q)' => IsQueued(q)
    BY <1>1 DEF IsQueued
  <2>2. ASSUME IsQueued(q) PROVE IsQueued(q)'
    <3>1. PICK i \in 1..Len(queue) : queue[i] = q
      BY <2>2 DEF IsQueued
    <3>2. i # 1 /\ i - 1 \in 1..Len(queue') /\ (i - 1) + 1 = i
      BY <1>1, <1>4, <3>1
    <3>3. queue'[i - 1] = q
      BY <1>1, <3>1, <3>2
    <3>4. QED
      BY <3>2, <3>3 DEF IsQueued
  <2>3. QED
    BY <2>1, <2>2
<1>5. \A q \in Policies : IsWaitedFor(q)' <=> IsWaitedFor(q) /\ q # p
  BY <1>2, <1>3, <1>4 DEF Take, IsWaitedFor
<1>6. Waiting' = Waiting \ {p} /\ p \in Waiting
  BY <1>2, <1>5 DEF Waiting, IsWaitedFor
<1>7. /\ policy[w] = NoPolicy /\ policy' = [policy EXCEPT ![w] = p]
      /\ policy \in [Workers -> Policies \cup {NoPolicy}]
  BY <1>0 DEF Take, Placed, Typed, TypeOK, IdleHasNone
<1>8. RunsOn(p)' # {}
  BY <1>7 DEF RunsOn
<1>9. \A q \in Policies : q # p => RunsOn(q)' = RunsOn(q)
  BY <1>7, NoPolicyAssumption DEF RunsOn
<1>10. Gone' = Gone
  BY <1>2, <1>5, <1>8, <1>9 DEF Take, Gone, IsWaitedFor, Placed, Typed, TypeOK
<1>11. QED
  BY <1>6, <1>7, <1>10

\* A worker leaves its policy for good.
LEMMA LifeEnd ==
    ASSUME Placed, NEW w \in Workers, ReadNothing(w) \/ Finish(w) \/ TaskDies(w)
    PROVE  /\ policy[w] # NoPolicy
           /\ Gone' = Gone \cup {policy[w]}
           /\ policy' = [policy EXCEPT ![w] = NoPolicy]
           /\ UNCHANGED Waiting
<1> USE DEF viewVars, taskVars
<1>1. at[w] \notin {"idle", "lent"} /\ UNCHANGED <<creating, queue, used>>
      /\ policy' = [policy EXCEPT ![w] = NoPolicy]
  BY DEF ReadNothing, Finish, TaskDies, Leave
<1>2. PICK p \in Policies : p = policy[w] /\ p \in used /\ Runs(p)
  BY <1>1, RunIsUsed DEF Runs
<1>3. ~IsWaitedFor(p)
  BY <1>2 DEF Placed, InOnePlace, IsWaitedFor
<1>4. \A q \in Policies : IsWaitedFor(q)' <=> IsWaitedFor(q)
  BY <1>1 DEF IsWaitedFor, IsQueued
<1>5. policy \in [Workers -> Policies \cup {NoPolicy}]
  BY DEF Placed, Typed, TypeOK
<1>6. RunsOn(p)' = {}
  BY <1>1, <1>2, <1>5, NoPolicyAssumption DEF RunsOn, Placed, InOnePlace
<1>7. \A q \in Policies : q # p => RunsOn(q)' = RunsOn(q)
  BY <1>1, <1>2, <1>5, NoPolicyAssumption DEF RunsOn
<1>8. Gone' = Gone \cup {p} /\ Waiting' = Waiting
  BY <1>1, <1>2, <1>3, <1>4, <1>6, <1>7 DEF Gone, Waiting, Placed, Typed, TypeOK
<1>9. QED
  BY <1>1, <1>2, <1>8, NoPolicyAssumption

\* LifeSpec: the task of a policy is started once at most, in one worker slot,
\* and once it is over, for whatever reason, nothing any view, operator or
\* other task does starts it again.
THEOREM TasksHaveOneLife == Spec => LifeSpec
<1>1. Init => Life!Init
  <2> SUFFICES ASSUME Init PROVE Life!Init
    OBVIOUS
  <2>1. \A p \in Policies : ~IsWaitedFor(p)
    BY DEF Init, IsWaitedFor, IsQueued
  <2>2. QED
    BY <2>1 DEF Init, Life!Init
<1>2. ASSUME Placed, [Next]_vars PROVE [Life!Next]_(Life!vars)
  <2> USE <1>2
  <2>1. ASSUME UNCHANGED <<Waiting, policy, Gone>>
        PROVE  UNCHANGED Life!vars
    BY <2>1 DEF Waiting, Gone, Life!vars
  <2>2. ASSUME NEW p \in Policies, NEW start \in Times, NEW end \in Times,
               Create(p, start, end)
        PROVE  Life!Order(p)
    BY <2>2, LifeOrder DEF Waiting, Gone, Life!Order, Runs
  <2>3. ASSUME NEW p \in Policies, DelayFails(p)
        PROVE  Life!Drop(p)
    BY <2>3, LifeDrop DEF Waiting, Gone, Life!Drop
  <2>4. ASSUME NEW w \in Workers, Take(w)
        PROVE  \E p \in Policies : Life!Begin(w, p)
    BY <2>4, LifeBegin DEF Waiting, Gone, Life!Begin
  <2>5. ASSUME NEW w \in Workers, ReadNothing(w) \/ Finish(w) \/ TaskDies(w)
        PROVE  Life!End(w)
    BY <2>5, LifeEnd DEF Waiting, Gone, Life!End
  <2>6. ASSUME NEW p \in Policies, NEW start \in Times, NEW end \in Times,
               EditSave(p, start, end)
        PROVE  UNCHANGED Life!vars
    BY <2>1, <2>6, LifeStutters DEF EditSave, taskVars
  <2>7. ASSUME NEW p \in Policies, Delay(p) PROVE UNCHANGED Life!vars
    BY <2>1, <2>7, LifeDelay
  <2>8. ASSUME NEW p \in Policies, EditLoad(p) \/ Delete(p) \/ RequestStop(p)
        PROVE  UNCHANGED Life!vars
    BY <2>1, <2>8, LifeStutters DEF EditLoad, Delete, RequestStop, taskVars, viewVars
  <2>9. ASSUME NEW w \in Workers,
               \/ Read(w) \/ WaitForStart(w) \/ DecideToTrade(w) \/ Start(w)
               \/ Trade(w) \/ Return(w)
        PROVE  UNCHANGED Life!vars
    BY <2>1, <2>9, LifeStutters
    DEF Read, WaitForStart, DecideToTrade, Start, Trade, Return, viewVars
  <2>10. CASE Tick \/ Over \/ UNCHANGED vars
    BY <2>1, <2>10, LifeStutters DEF Tick, Over, vars, taskVars, viewVars
  <2>11. ASSUME NEW p \in Policies, View(p) \/ RequestStop(p)
         PROVE  Life!Next \/ UNCHANGED Life!vars
    BY <2>2, <2>3, <2>6, <2>7, <2>8, <2>11 DEF View, Life!Next
  <2>12. ASSUME NEW w \in Workers, Task(w) \/ TaskDies(w) \/ Return(w)
         PROVE  Life!Next \/ UNCHANGED Life!vars
    BY <2>4, <2>5, <2>9, <2>12 DEF Task, Life!Next
  <2>13. QED
    BY <2>10, <2>11, <2>12 DEF Next
<1>3. Init => Placed
  BY InitPlaced
<1>4. QED
  BY <1>1, <1>2, <1>3, PlacedStep, PTL DEF Spec, LifeSpec, Life!Spec

=============================================================================
