------------------------- MODULE AccountLifeProofs --------------------------
(***************************************************************************)
(* Theorems about the life of an account, for any number of accounts,      *)
(* transfers, dashboard saves and runs of close_expired_accounts.          *)
(***************************************************************************)
EXTENDS AccountLife, TLAPS

-----------------------------------------------------------------------------
(***************************************************************************)
(* The inductive invariant.                                                *)
(***************************************************************************)

Working == {"looping", "transferred", "summed"}

\* What is in memory at each stage of a save and of the command.
Shape ==
    /\ \A m \in Admins :
          /\ saving[m] # "requested" => form[m] \in Row
          /\ saving[m] = "summed" /\ change[m].status # "Kept"
                => form[m].status = change[m].status
    /\ \A c \in Commands :
          /\ command[c] \in Working \cup {"finding"} => lapsed[c] \in Row
          /\ command[c] \in {"transferred", "summed"} =>
                /\ closing[c] \in emptied
                /\ closing[c] # Lapsed
                /\ found[c][closing[c]] \in Row
          /\ command[c] = "summed" => found[c][closing[c]].status = "Closed"

\* A sum that was read is still right, or the account is known to be spoilt.
SumsHold ==
    /\ \A m \in Admins : saving[m] = "summed" =>
          form[m].balance = posted[change[m].account] \/ change[m].account \in spoilt
    /\ \A c \in Commands : command[c] = "summed" =>
          found[c][closing[c]].balance = posted[closing[c]] \/ closing[c] \in spoilt

\* No instance says "Closed" of an account that was not emptied.
Legal(a, instance) ==
    instance # NotRead /\ instance.status = "Closed"
        => a \in emptied \/ InitialRow[a].status = "Closed"

LegalOf(a) ==
    /\ Legal(a, row[a])
    /\ \A r \in Requests : Legal(a, copy[r][a])
    /\ \A m \in Admins : change[m].account = a => Legal(a, form[m])
    /\ \A c \in Commands : Legal(a, found[c][a])
    /\ \A c \in Commands : a = Lapsed => Legal(a, lapsed[c])

InstancesAreLegal == \A a \in Accounts : LegalOf(a)

\* Unless it was written behind somebody's back, all instances of an account
\* that may still be saved have the status it was last given.
Agreed(a) ==
    /\ row[a].status = lastSet[a]
    /\ \A r \in Requests : RequestHolds(r, a) => copy[r][a].status = lastSet[a]
    /\ \A m \in Admins : change[m].account = a =>
          /\ saving[m] = "loaded" => form[m].status = lastSet[a]
          /\ saving[m] = "summed" /\ change[m].status = "Kept"
                => form[m].status = lastSet[a]
    /\ \A c \in Commands :
          command[c] \in Working /\ found[c][a] # NotRead
             /\ (command[c] # "summed" \/ closing[c] # a)
                => found[c][a].status = lastSet[a]
    /\ \A c \in Commands :
          a = Lapsed /\ command[c] \in Working \cup {"finding"}
                => lapsed[c].status = lastSet[a]

StatusAgreed == \A a \in Accounts : a \notin crossed => Agreed(a)

\* Nor is there more or less in it than the command believes.
Settled(a) ==
    /\ \A c \in Commands :
          a # Lapsed /\ command[c] \in Working /\ found[c][a] # NotRead
             => found[c][a].balance = posted[a]
    /\ \A c \in Commands : command[c] \in {"transferred", "summed"} /\ closing[c] = a
          => posted[a] = 0
    /\ row[a].status = "Closed" /\ InitialRow[a].status # "Closed" => posted[a] = 0

BalanceAgreed == \A a \in Accounts : a \notin crossed => Settled(a)

SpoiltAreCrossed == spoilt \subseteq crossed

Typed == TypeOK /\ Shape

-----------------------------------------------------------------------------
(***************************************************************************)
(* What requests and changes are, and what a transfer does.                *)
(***************************************************************************)

LEMMA WorkTypes ==
    ASSUME TypeOK
    PROVE  /\ \A r \in Requests : /\ job[r].source \in Accounts
                                  /\ job[r].destination \in Accounts
                                  /\ job[r].amount \in Int
           /\ \A m \in Admins : /\ change[m].account \in Accounts
                                /\ change[m].status \in {"Frozen", "Open", "Kept"}
  <1>1. \A r \in Requests : job[r] \in Job
    BY WorkAssumption DEF TypeOK
  <1>2. \A m \in Admins : change[m] \in Change
    BY WorkAssumption DEF TypeOK
  <1> QED
    BY <1>1, <1>2 DEF Job, Change

LEMMA NewBalance ==
    ASSUME NEW instance \in Row, NEW b \in Int
    PROVE  /\ [instance EXCEPT !.balance = b] \in Row
           /\ [instance EXCEPT !.balance = b].status = instance.status
           /\ [instance EXCEPT !.balance = b].balance = b
  BY DEF Row

LEMMA NewForm ==
    ASSUME NEW st \in Status, NEW b \in Int
    PROVE  /\ [status |-> st, balance |-> b] \in Row
           /\ [status |-> st, balance |-> b].status = st
           /\ [status |-> st, balance |-> b].balance = b
  BY DEF Row

\* A transfer writes both rows with the status of the instances and the true
\* balance; only a save that has its sum already can spoil that.
LEMMA PostEffect ==
    ASSUME TypeOK,
           NEW s \in Accounts, NEW sRow \in Row, NEW d \in Accounts, NEW dRow \in Row,
           NEW amount \in Int, s # d, Post(s, sRow, d, dRow, amount)
    PROVE  /\ row' \in [Accounts -> Row]
           /\ posted' \in [Accounts -> Int]
           /\ spoilt' \subseteq Accounts
           /\ row'[s].status = sRow.status /\ row'[d].status = dRow.status
           /\ posted'[s] = posted[s] - amount /\ posted'[d] = posted[d] + amount
           /\ row'[s].balance = posted'[s] /\ row'[d].balance = posted'[d]
           /\ \A a \in Accounts \ {s, d} :
                 /\ row'[a] = row[a] /\ posted'[a] = posted[a]
                 /\ (a \in spoilt' <=> a \in spoilt)
           /\ \A a \in {s, d} : (a \in spoilt' <=> SummedSave(a))
  <1>1. posted[s] - amount \in Int /\ posted[d] + amount \in Int
    BY DEF TypeOK
  <1>2. PICK sNew \in Row : /\ sNew = [sRow EXCEPT !.balance = posted[s] - amount]
                            /\ sNew.status = sRow.status
                            /\ sNew.balance = posted[s] - amount
    BY <1>1, NewBalance
  <1>3. PICK dNew \in Row : /\ dNew = [dRow EXCEPT !.balance = posted[d] + amount]
                            /\ dNew.status = dRow.status
                            /\ dNew.balance = posted[d] + amount
    BY <1>1, NewBalance
  <1>4. /\ row' = [row EXCEPT ![s] = sNew, ![d] = dNew]
        /\ posted' = [posted EXCEPT ![s] = posted[s] - amount,
                                    ![d] = posted[d] + amount]
        /\ spoilt' = (spoilt \ {s, d}) \cup {a \in {s, d} : SummedSave(a)}
    BY <1>2, <1>3 DEF Post
  <1>5. /\ row' \in [Accounts -> Row] /\ row'[s] = sNew /\ row'[d] = dNew
        /\ \A a \in Accounts \ {s, d} : row'[a] = row[a]
    BY <1>4 DEF TypeOK
  <1>6. /\ posted' \in [Accounts -> Int]
        /\ posted'[s] = posted[s] - amount /\ posted'[d] = posted[d] + amount
        /\ \A a \in Accounts \ {s, d} : posted'[a] = posted[a]
    BY <1>1, <1>4 DEF TypeOK
  <1>7. /\ spoilt' \subseteq Accounts
        /\ \A a \in Accounts \ {s, d} : (a \in spoilt' <=> a \in spoilt)
        /\ \A a \in {s, d} : (a \in spoilt' <=> SummedSave(a))
    BY <1>4 DEF TypeOK
  <1> QED
    BY <1>2, <1>3, <1>5, <1>6, <1>7

\* The transfer of a request that is not refused.
LEMMA AnswerEffect ==
    ASSUME Typed, NEW r \in Requests, Answer(r)
    PROVE  /\ answer[r] = "pending" /\ answer'[r] # "pending"
           /\ \A q \in Requests \ {r} : answer'[q] = answer[q]
           /\ answer' \in [Requests -> {"pending", "posted", "failed"}]
           /\ UNCHANGED <<job, copy, adminVars, commandVars, emptied, lastSet>>
           /\ \/ UNCHANGED <<ledgerVars, spoilt, crossed>>
              \/ \E s, d \in Accounts, amount \in Int :
                    /\ s # d
                    /\ copy[r][s] \in Row /\ copy[r][d] \in Row
                    /\ copy[r][s].status = "Open" /\ copy[r][d].status = "Open"
                    /\ Post(s, copy[r][s], d, copy[r][d], amount)
                    /\ crossed' = crossed \cup
                          {a \in {s, d} : Held(a, Requests \ {r}, Admins, Commands)}
  <1> DEFINE s == job[r].source
             d == job[r].destination
  <1>1. s \in Accounts /\ d \in Accounts /\ job[r].amount \in Int
    BY WorkTypes DEF Typed
  <1>2. copy[r][s] \in Row /\ copy[r][d] \in Row
    BY <1>1 DEF Typed, TypeOK, Answer
  <1>3. CASE Permitted(s, copy[r][s], d, copy[r][d], job[r].amount)
    <2>1. s # d /\ copy[r][s].status = "Open" /\ copy[r][d].status = "Open"
      BY <1>3 DEF Permitted
    <2>2. /\ Post(s, copy[r][s], d, copy[r][d], job[r].amount)
          /\ answer' = [answer EXCEPT ![r] = "posted"]
          /\ crossed' = crossed \cup
                {a \in {s, d} : Held(a, Requests \ {r}, Admins, Commands)}
      BY <1>3 DEF Answer
    <2> HIDE DEF s, d
    <2> QED
      BY <1>1, <1>2, <2>1, <2>2 DEF Answer, Typed, TypeOK
  <1>4. CASE ~Permitted(s, copy[r][s], d, copy[r][d], job[r].amount)
    BY <1>4 DEF Answer, Typed, TypeOK
  <1> QED
    BY <1>3, <1>4

\* The transfer of the command, to the Lapsed account.
LEMMA LapseEffect ==
    ASSUME Typed, NEW c \in Commands, NEW a \in Accounts, Lapse(c, a)
    PROVE  /\ a # Lapsed /\ Lapsed \in Accounts
           /\ found[c][a] \in Row /\ lapsed[c] \in Row
           /\ found[c][a].status = "Open" /\ lapsed[c].status = "Open"
           /\ found[c][a].balance \in Int
           /\ Post(a, found[c][a], Lapsed, lapsed[c], found[c][a].balance)
           /\ found' \in [Commands -> [Accounts -> Row \cup {NotRead}]]
           /\ lapsed' \in [Commands -> Row \cup {NotRead}]
           /\ found'[c][a] \in Row /\ lapsed'[c] \in Row
           /\ found'[c][a].status = "Open" /\ lapsed'[c].status = "Open"
           /\ found'[c][a].balance = posted'[a]
           /\ \A b \in Accounts \ {a} : found'[c][b] = found[c][b]
           /\ \A e \in Commands \ {c} : /\ found'[e] = found[e]
                                        /\ lapsed'[e] = lapsed[e]
                                        /\ closing'[e] = closing[e]
                                        /\ command'[e] = command[e]
           /\ command[c] = "looping" /\ command'[c] = "transferred"
           /\ closing'[c] = a
           /\ emptied' = emptied \cup {a}
           /\ crossed' = crossed \cup
                {b \in {a, Lapsed} : Held(b, Requests, Admins, Commands \ {c})}
           /\ UNCHANGED <<requestVars, adminVars, lastSet>>
  <1>1. Lapsed \in Accounts
    BY AccountsAssumption
  <1>2. PICK i \in Row : i = found[c][a]
    BY DEF Lapse, Typed, TypeOK
  <1>3. PICK l \in Row : l = lapsed[c]
    BY DEF Lapse, Typed, Shape, Working
  <1>4. /\ Permitted(a, i, Lapsed, l, i.balance)
        /\ Post(a, i, Lapsed, l, i.balance)
    BY <1>2, <1>3 DEF Lapse
  <1>5. i.balance \in Int /\ a # Lapsed /\ i.status = "Open" /\ l.status = "Open"
    BY <1>2, <1>4 DEF Permitted, Row
  <1>6. PICK m \in Int, n \in Int : m = posted[a] - i.balance /\ n = posted[Lapsed] + i.balance
    BY <1>1, <1>5 DEF Typed, TypeOK
  <1>7. PICK iNew \in Row : /\ iNew = [i EXCEPT !.balance = m]
                            /\ iNew.status = i.status
                            /\ iNew.balance = m
    BY NewBalance
  <1>8. PICK lNew \in Row : /\ lNew = [l EXCEPT !.balance = n]
                            /\ lNew.status = l.status
    BY NewBalance
  <1>9. posted'[a] = posted[a] - i.balance
    BY <1>1, <1>4, <1>5, PostEffect DEF Typed
  <1>10. /\ found' = [found EXCEPT ![c] = [found[c] EXCEPT ![a] = iNew]]
         /\ lapsed' = [lapsed EXCEPT ![c] = lNew]
    BY <1>2, <1>3, <1>6, <1>7, <1>8 DEF Lapse, Typed, TypeOK
  <1>11. /\ found' \in [Commands -> [Accounts -> Row \cup {NotRead}]]
         /\ found'[c][a] = iNew
         /\ \A b \in Accounts \ {a} : found'[c][b] = found[c][b]
         /\ \A e \in Commands \ {c} : found'[e] = found[e]
    BY <1>10 DEF Typed, TypeOK
  <1>12. /\ lapsed' \in [Commands -> Row \cup {NotRead}]
         /\ lapsed'[c] = lNew
         /\ \A e \in Commands \ {c} : lapsed'[e] = lapsed[e]
    BY <1>10 DEF Typed, TypeOK
  <1>13. /\ command[c] = "looping" /\ command'[c] = "transferred" /\ closing'[c] = a
         /\ \A e \in Commands \ {c} : closing'[e] = closing[e] /\ command'[e] = command[e]
         /\ emptied' = emptied \cup {a}
         /\ crossed' = crossed \cup
                {b \in {a, Lapsed} : Held(b, Requests, Admins, Commands \ {c})}
         /\ UNCHANGED <<requestVars, adminVars, lastSet>>
    BY DEF Lapse, Typed, TypeOK
  <1> QED
    BY <1>1, <1>2, <1>3, <1>4, <1>5, <1>6, <1>7, <1>8, <1>9, <1>11, <1>12, <1>13

-----------------------------------------------------------------------------
(***************************************************************************)
(* Types, and the shape of what is in memory.                              *)
(***************************************************************************)

LEMMA InitTyped == Init => Typed
  <1> SUFFICES ASSUME Init PROVE Typed
    OBVIOUS
  <1>1. \A a \in Accounts : InitialRow[a] \in Row
    BY AccountsAssumption
  <1>2. TypeOK
    BY <1>1, AccountsAssumption DEF Init, TypeOK, Nothing, Row
  <1> QED
    BY <1>2 DEF Init, Typed, Shape, Working

LEMMA TypeStep == Typed /\ [Next]_vars => TypeOK'
  <1> SUFFICES ASSUME Typed, [Next]_vars PROVE TypeOK'
    OBVIOUS
  <1> USE DEF TypeOK
  <1>0. TypeOK /\ Shape
    BY DEF Typed
  <1>1. ASSUME NEW r \in Requests, NEW a \in Accounts, Fetch(r, a) PROVE TypeOK'
    BY <1>0, <1>1 DEF Fetch, ledgerVars, adminVars, commandVars, historyVars
  <1>2. ASSUME NEW r \in Requests, Answer(r) PROVE TypeOK'
    <2>1. /\ answer' \in [Requests -> {"pending", "posted", "failed"}]
          /\ UNCHANGED <<job, copy, adminVars, commandVars, emptied, lastSet>>
      BY <1>2, AnswerEffect
    <2>2. row' \in [Accounts -> Row] /\ posted' \in [Accounts -> Int]
          /\ spoilt' \subseteq Accounts /\ crossed' \subseteq Accounts
      <3>1. CASE UNCHANGED <<ledgerVars, spoilt, crossed>>
        BY <1>0, <3>1 DEF ledgerVars
      <3>2. ASSUME NEW s \in Accounts, NEW d \in Accounts, NEW amount \in Int, s # d,
                   copy[r][s] \in Row, copy[r][d] \in Row,
                   Post(s, copy[r][s], d, copy[r][d], amount),
                   crossed' = crossed \cup
                      {a \in {s, d} : Held(a, Requests \ {r}, Admins, Commands)}
            PROVE  row' \in [Accounts -> Row] /\ posted' \in [Accounts -> Int]
                   /\ spoilt' \subseteq Accounts /\ crossed' \subseteq Accounts
        <4>1. crossed' \subseteq Accounts
          BY <1>0, <3>2
        <4> HIDE DEF TypeOK
        <4> QED
          BY <1>0, <3>2, <4>1, PostEffect
      <3> QED
        BY <1>2, <3>1, <3>2, AnswerEffect
    <2> QED
      BY <1>0, <2>1, <2>2 DEF adminVars, commandVars
  <1>3. ASSUME NEW r \in Requests, Abort(r) PROVE TypeOK'
    BY <1>0, <1>3 DEF Abort, ledgerVars, adminVars, commandVars, historyVars
  <1>4. ASSUME NEW m \in Admins, Load(m) PROVE TypeOK'
    BY <1>0, <1>4, WorkTypes DEF Load, ledgerVars, requestVars, commandVars, historyVars
  <1>5. ASSUME NEW m \in Admins, SumForm(m) PROVE TypeOK'
    <2>1. form[m] \in Row
      BY <1>0, <1>5 DEF SumForm, Shape
    <2>2. PICK new \in Row :
              new = [status |-> IF change[m].status = "Kept" THEN form[m].status
                                                             ELSE change[m].status,
                     balance |-> posted[change[m].account]]
      BY <1>0, <2>1, WorkTypes DEF Row, Status
    <2>3. form' = [form EXCEPT ![m] = new]
      BY <1>0, <1>5, <2>2 DEF SumForm
    <2> QED
      BY <1>0, <1>5, <2>3 DEF SumForm, ledgerVars, requestVars, commandVars, historyVars
  <1>6. ASSUME NEW m \in Admins, SaveForm(m) PROVE TypeOK'
    <2>1. form[m] \in Row /\ change[m].account \in Accounts
      BY <1>0, <1>6, WorkTypes DEF SaveForm, Shape
    <2>2. row' \in [Accounts -> Row]
      BY <1>0, <1>6, <2>1 DEF SaveForm
    <2>3. lastSet' \in [Accounts -> Status]
      <3>1. change[m].status = "Kept" \/ change[m].status \in Status
        BY <1>0, WorkTypes DEF Status
      <3> QED
        BY <1>0, <1>6, <3>1 DEF SaveForm, Settles
    <2>4. crossed' \subseteq Accounts
      BY <1>0, <1>6, <2>1 DEF SaveForm, Settles
    <2> QED
      BY <1>0, <1>6, <2>2, <2>3, <2>4 DEF SaveForm, requestVars, commandVars
  <1>7. ASSUME NEW c \in Commands, FetchLapsed(c) PROVE TypeOK'
    BY <1>0, <1>7, AccountsAssumption
       DEF FetchLapsed, ledgerVars, requestVars, adminVars, historyVars
  <1>8. ASSUME NEW c \in Commands, Find(c) PROVE TypeOK'
    BY <1>0, <1>8 DEF Find, ledgerVars, requestVars, adminVars, historyVars
  <1>9. ASSUME NEW c \in Commands, NEW a \in Accounts, Lapse(c, a) PROVE TypeOK'
    <2> HIDE DEF TypeOK
    <2>0. /\ Lapsed \in Accounts /\ a # Lapsed
          /\ found[c][a] \in Row /\ lapsed[c] \in Row /\ found[c][a].balance \in Int
          /\ Post(a, found[c][a], Lapsed, lapsed[c], found[c][a].balance)
          /\ found' \in [Commands -> [Accounts -> Row \cup {NotRead}]]
          /\ lapsed' \in [Commands -> Row \cup {NotRead}]
          /\ emptied' = emptied \cup {a}
          /\ crossed' = crossed \cup
                {b \in {a, Lapsed} : Held(b, Requests, Admins, Commands \ {c})}
          /\ UNCHANGED <<requestVars, adminVars, lastSet>>
      BY <1>9, LapseEffect
    <2>1. row' \in [Accounts -> Row] /\ posted' \in [Accounts -> Int]
          /\ spoilt' \subseteq Accounts
      BY <1>0, <2>0, PostEffect
    <2>2. crossed' \subseteq Accounts /\ emptied' \subseteq Accounts
      BY <1>0, <2>0 DEF TypeOK
    <2>3. /\ command' \in [Commands -> {"waiting", "finding", "looping", "transferred",
                                        "summed", "done", "failed"}]
          /\ closing' \in [Commands -> Accounts \cup {Nobody}]
      BY <1>0, <1>9 DEF Lapse, TypeOK
    <2> QED
      BY <1>0, <2>0, <2>1, <2>2, <2>3 DEF requestVars, adminVars, TypeOK
  <1>10. ASSUME NEW c \in Commands, NEW a \in Accounts, SkipAccount(c, a) PROVE TypeOK'
    BY <1>0, <1>10 DEF SkipAccount, ledgerVars, requestVars, adminVars, historyVars
  <1>11. ASSUME NEW c \in Commands, SumClosing(c) PROVE TypeOK'
    <2>1. closing[c] \in Accounts
      BY <1>0, <1>11 DEF SumClosing, Shape
    <2>2. PICK new \in Row : new = [status |-> "Closed", balance |-> posted[closing[c]]]
      BY <1>0, <2>1 DEF Row, Status
    <2>3. found' \in [Commands -> [Accounts -> Row \cup {NotRead}]]
      <3>1. found' = found \/ found' = [found EXCEPT ![c][closing[c]] = new]
        BY <1>11, <2>2 DEF SumClosing
      <3>2. found \in [Commands -> [Accounts -> Row \cup {NotRead}]]
        BY <1>0
      <3>3. [found[c] EXCEPT ![closing[c]] = new] \in [Accounts -> Row \cup {NotRead}]
        BY <3>2
      <3> HIDE DEF TypeOK
      <3> QED
        BY <3>1, <3>2, <3>3
    <2>4. command' \in [Commands -> {"waiting", "finding", "looping", "transferred",
                                     "summed", "done", "failed"}]
      BY <1>0, <1>11 DEF SumClosing
    <2> QED
      BY <1>0, <1>11, <2>3, <2>4
         DEF SumClosing, ledgerVars, requestVars, adminVars, historyVars
  <1>12. ASSUME NEW c \in Commands, SaveClosing(c) PROVE TypeOK'
    <2>1. closing[c] \in Accounts /\ found[c][closing[c]] \in Row
      BY <1>0, <1>12 DEF SaveClosing, Shape
    <2>2. lastSet' \in [Accounts -> Status]
      BY <1>0, <1>12, <2>1 DEF SaveClosing, Status
    <2>3. crossed' \subseteq Accounts
      BY <1>0, <1>12, <2>1 DEF SaveClosing
    <2> QED
      BY <1>0, <1>12, <2>1, <2>2, <2>3 DEF SaveClosing, requestVars, adminVars
  <1>13. ASSUME NEW c \in Commands, Finish(c) \/ Die(c) PROVE TypeOK'
    BY <1>0, <1>13 DEF Finish, Die, ledgerVars, requestVars, adminVars, historyVars
  <1>14. CASE AllDone \/ UNCHANGED vars
    BY <1>0, <1>14 DEF AllDone, vars, ledgerVars, requestVars, adminVars, commandVars,
                       historyVars
  <1> QED
    BY <1>1, <1>2, <1>3, <1>4, <1>5, <1>6, <1>7, <1>8, <1>9, <1>10, <1>11, <1>12, <1>13,
       <1>14 DEF Next, Request, Admin, Command

LEMMA ShapeStep == Typed /\ [Next]_vars => Shape'
  <1> SUFFICES ASSUME Typed, [Next]_vars PROVE Shape'
    OBVIOUS
  <1> USE DEF Shape, TypeOK, Working
  <1>0. TypeOK /\ Shape /\ Lapsed \in Accounts
    BY AccountsAssumption DEF Typed
  <1>1. ASSUME NEW r \in Requests, NEW a \in Accounts, Fetch(r, a) \/ Abort(r)
        PROVE  Shape'
    BY <1>0, <1>1 DEF Fetch, Abort, adminVars, commandVars, historyVars
  <1>2. ASSUME NEW r \in Requests, Answer(r) PROVE Shape'
    <2>1. UNCHANGED <<job, copy, adminVars, commandVars, emptied, lastSet>>
      BY <1>2, AnswerEffect
    <2> QED
      BY <1>0, <2>1 DEF adminVars, commandVars
  <1>3. ASSUME NEW m \in Admins, Load(m) PROVE Shape'
    BY <1>0, <1>3, WorkTypes DEF Load, commandVars, historyVars
  <1>4. ASSUME NEW m \in Admins, SumForm(m) PROVE Shape'
    <2>1. form[m] \in Row
      BY <1>0, <1>4 DEF SumForm
    <2>2. PICK st \in Status, b \in Int :
              /\ st = IF change[m].status = "Kept" THEN form[m].status
                                                   ELSE change[m].status
              /\ b = posted[change[m].account]
      BY <1>0, <2>1, WorkTypes DEF Row, Status
    <2>3. PICK new \in Row : new = [status |-> st, balance |-> b] /\ new.status = st
      BY NewForm
    <2>4. form' = [form EXCEPT ![m] = new]
      BY <1>0, <1>4, <2>2, <2>3 DEF SumForm
    <2> QED
      BY <1>0, <1>4, <2>2, <2>3, <2>4 DEF SumForm, commandVars, historyVars
  <1>5. ASSUME NEW m \in Admins, SaveForm(m) PROVE Shape'
    BY <1>0, <1>5 DEF SaveForm, commandVars
  <1>6. ASSUME NEW c \in Commands, FetchLapsed(c) \/ Find(c) PROVE Shape'
    <2>1. CASE FetchLapsed(c)
      BY <1>0, <2>1 DEF FetchLapsed, adminVars, historyVars
    <2>2. CASE Find(c)
      BY <1>0, <2>2 DEF Find, adminVars, historyVars
    <2> QED
      BY <1>6, <2>1, <2>2
  <1>7. ASSUME NEW c \in Commands, NEW a \in Accounts, Lapse(c, a) PROVE Shape'
    <2>1. /\ a # Lapsed
          /\ found'[c][a] \in Row /\ lapsed'[c] \in Row
          /\ \A e \in Commands \ {c} : /\ found'[e] = found[e]
                                       /\ lapsed'[e] = lapsed[e]
                                       /\ closing'[e] = closing[e]
                                       /\ command'[e] = command[e]
          /\ command'[c] = "transferred"
          /\ closing'[c] = a
          /\ emptied' = emptied \cup {a}
          /\ UNCHANGED adminVars
      BY <1>7, LapseEffect
    <2> QED
      BY <1>0, <2>1 DEF adminVars
  <1>8. ASSUME NEW c \in Commands, NEW a \in Accounts, SkipAccount(c, a) PROVE Shape'
    BY <1>0, <1>8 DEF SkipAccount, adminVars, historyVars
  <1>9. ASSUME NEW c \in Commands, SumClosing(c) PROVE Shape'
    <2>1. closing[c] \in Accounts
      BY <1>0, <1>9 DEF SumClosing
    <2>2. PICK new \in Row : /\ new = [status |-> "Closed", balance |-> posted[closing[c]]]
                             /\ new.status = "Closed"
      <3>1. posted[closing[c]] \in Int /\ "Closed" \in Status
        BY <1>0, <2>1 DEF Status
      <3> QED
        BY <3>1, NewForm
    <2> QED
      BY <1>0, <1>9, <2>1, <2>2 DEF SumClosing, adminVars, historyVars
  <1>10. ASSUME NEW c \in Commands, SaveClosing(c) PROVE Shape'
    BY <1>0, <1>10 DEF SaveClosing, adminVars
  <1>11. ASSUME NEW c \in Commands, Finish(c) \/ Die(c) PROVE Shape'
    BY <1>0, <1>11 DEF Finish, Die, adminVars, historyVars
  <1>12. CASE AllDone \/ UNCHANGED vars
    BY <1>0, <1>12 DEF AllDone, vars, adminVars, commandVars, historyVars
  <1> QED
    BY <1>0, <1>1, <1>2, <1>3, <1>4, <1>5, <1>6, <1>7, <1>8, <1>9, <1>10, <1>11, <1>12
       DEF Next, Request, Admin, Command

THEOREM SpecTyped == Spec => []Typed
  <1>1. Typed /\ [Next]_vars => Typed'
    BY TypeStep, ShapeStep DEF Typed
  <1> QED
    BY <1>1, InitTyped, PTL DEF Spec

\* Every variable keeps its type, whatever requests, saves and runs do.
THEOREM TypeCorrect == Spec => []TypeOK
  <1>1. Typed => TypeOK
    BY DEF Typed
  <1> QED
    BY <1>1, SpecTyped, PTL

-----------------------------------------------------------------------------
(***************************************************************************)
(* Sums read by saves, and accounts spoilt by them.                        *)
(***************************************************************************)

Sums == SumsHold /\ SpoiltOnlyByOverlap /\ SpoiltAreCrossed

\* Who has summed an account still holds it.
LEMMA SummedHolds ==
    ASSUME Typed, NEW a \in Accounts, SummedSave(a), NEW cs \in SUBSET Commands,
           \A c \in Commands : command[c] = "summed" => c \in cs, NEW rs
    PROVE  Held(a, rs, Admins, cs)
  <1>1. CASE \E m \in Admins : saving[m] = "summed" /\ change[m].account = a
    BY <1>1 DEF Held, SaveHolds
  <1>2. ASSUME NEW c \in Commands, command[c] = "summed", closing[c] = a
        PROVE  Held(a, rs, Admins, cs)
    <2>1. found[c][a] # NotRead
      BY <1>2, NothingAssumption DEF Typed, Shape
    <2> QED
      BY <1>2, <2>1 DEF Held, CommandHolds
  <1> QED
    BY <1>1, <1>2 DEF SummedSave

LEMMA PostSums ==
    ASSUME Typed, Sums,
           NEW s \in Accounts, NEW sRow \in Row, NEW d \in Accounts, NEW dRow \in Row,
           NEW amount \in Int, s # d, Post(s, sRow, d, dRow, amount)
    PROVE  /\ \A a \in Accounts : row'[a].balance # posted'[a] => a \in spoilt'
           /\ \A m \in Admins : saving[m] = "summed" =>
                 \/ form[m].balance = posted'[change[m].account]
                 \/ change[m].account \in spoilt'
           /\ \A c \in Commands : command[c] = "summed" =>
                 \/ found[c][closing[c]].balance = posted'[closing[c]]
                 \/ closing[c] \in spoilt'
           /\ \A a \in spoilt' : a \in spoilt \/ (a \in {s, d} /\ SummedSave(a))
  <1>0. TypeOK
    BY DEF Typed
  <1>1. /\ row'[s].balance = posted'[s] /\ row'[d].balance = posted'[d]
        /\ spoilt' \subseteq Accounts
        /\ \A a \in Accounts \ {s, d} :
              /\ row'[a] = row[a] /\ posted'[a] = posted[a]
              /\ (a \in spoilt' <=> a \in spoilt)
        /\ \A a \in {s, d} : (a \in spoilt' <=> SummedSave(a))
    BY <1>0, PostEffect
  <1>2. \A a \in Accounts : row'[a].balance # posted'[a] => a \in spoilt'
    BY <1>1 DEF Sums, SpoiltOnlyByOverlap
  <1>3. ASSUME NEW m \in Admins, saving[m] = "summed"
        PROVE  \/ form[m].balance = posted'[change[m].account]
               \/ change[m].account \in spoilt'
    <2>1. change[m].account \in Accounts
      BY <1>0, WorkTypes
    <2>2. SummedSave(change[m].account)
      BY <1>3 DEF SummedSave
    <2> QED
      BY <1>1, <1>3, <2>1, <2>2 DEF Sums, SumsHold
  <1>4. ASSUME NEW c \in Commands, command[c] = "summed"
        PROVE  \/ found[c][closing[c]].balance = posted'[closing[c]]
               \/ closing[c] \in spoilt'
    <2>1. closing[c] \in Accounts
      BY <1>0, <1>4 DEF Typed, Shape, TypeOK
    <2>2. SummedSave(closing[c])
      BY <1>4 DEF SummedSave
    <2> QED
      BY <1>1, <1>4, <2>1, <2>2 DEF Sums, SumsHold
  <1> QED
    BY <1>1, <1>2, <1>3, <1>4

LEMMA SumsStep == Typed /\ Sums /\ [Next]_vars => Sums'
  <1> SUFFICES ASSUME Typed, Sums, [Next]_vars PROVE Sums'
    OBVIOUS
  <1> USE DEF Sums, SumsHold, SpoiltOnlyByOverlap, SpoiltAreCrossed
  <1>0. TypeOK /\ Shape
    BY DEF Typed
  <1>1. ASSUME UNCHANGED <<ledgerVars, adminVars, historyVars, command, found, closing>>
        PROVE  Sums'
    BY <1>1 DEF ledgerVars, adminVars, historyVars
  <1>2. ASSUME NEW r \in Requests, Answer(r) PROVE Sums'
    <2>1. UNCHANGED <<job, copy, adminVars, commandVars, emptied, lastSet>>
      BY <1>2, AnswerEffect
    <2>2. CASE UNCHANGED <<ledgerVars, spoilt, crossed>>
      BY <2>1, <2>2 DEF ledgerVars, adminVars, commandVars
    <2>3. ASSUME NEW s \in Accounts, NEW d \in Accounts, NEW amount \in Int, s # d,
                 copy[r][s] \in Row, copy[r][d] \in Row,
                 Post(s, copy[r][s], d, copy[r][d], amount),
                 crossed' = crossed \cup
                    {a \in {s, d} : Held(a, Requests \ {r}, Admins, Commands)}
          PROVE  Sums'
      <3>1. SumsHold' /\ SpoiltOnlyByOverlap'
        BY <2>1, <2>3, PostSums DEF adminVars, commandVars
      <3>2. \A a \in spoilt' : a \in spoilt \/ (a \in {s, d} /\ SummedSave(a))
        BY <2>3, PostSums
      <3>3. \A a \in {s, d} : SummedSave(a) => a \in crossed'
        BY <2>3, SummedHolds
      <3> QED
        BY <2>3, <3>1, <3>2, <3>3
    <2> QED
      BY <1>2, <2>2, <2>3, AnswerEffect
  <1>3. ASSUME NEW m \in Admins, Load(m) PROVE Sums'
    BY <1>0, <1>3 DEF Load, ledgerVars, commandVars, historyVars, TypeOK
  <1>4. ASSUME NEW m \in Admins, SumForm(m) PROVE Sums'
    <2>1. \A n \in Admins : saving'[n] = "summed" /\ n # m =>
              saving[n] = "summed" /\ form'[n] = form[n]
      BY <1>0, <1>4 DEF SumForm, TypeOK
    <2>2. form'[m].balance = posted[change[m].account]
      BY <1>0, <1>4 DEF SumForm, TypeOK
    <2> QED
      BY <1>4, <2>1, <2>2 DEF SumForm, ledgerVars, commandVars, historyVars
  <1>5. ASSUME NEW m \in Admins, SaveForm(m) PROVE Sums'
    <2>1. change[m].account \in Accounts
      BY <1>0, WorkTypes
    <2>2. /\ row'[change[m].account] = form[m]
          /\ \A a \in Accounts : a # change[m].account => row'[a] = row[a]
          /\ saving[m] = "summed"
      BY <1>0, <1>5, <2>1 DEF SaveForm, TypeOK
    <2>3. SpoiltOnlyByOverlap'
      BY <1>5, <2>1, <2>2 DEF SaveForm
    <2>4. SumsHold'
      BY <1>0, <1>5 DEF SaveForm, commandVars, TypeOK
    <2>5. SpoiltAreCrossed'
      BY <1>5 DEF SaveForm, Settles
    <2> QED
      BY <2>3, <2>4, <2>5
  <1>6. ASSUME NEW c \in Commands, NEW a \in Accounts, Lapse(c, a) PROVE Sums'
    <2>1. /\ Lapsed \in Accounts /\ a # Lapsed
          /\ found[c][a] \in Row /\ lapsed[c] \in Row /\ found[c][a].balance \in Int
          /\ Post(a, found[c][a], Lapsed, lapsed[c], found[c][a].balance)
          /\ \A e \in Commands \ {c} : /\ found'[e] = found[e]
                                       /\ closing'[e] = closing[e]
                                       /\ command'[e] = command[e]
          /\ command[c] = "looping" /\ command'[c] = "transferred"
          /\ crossed' = crossed \cup
                {b \in {a, Lapsed} : Held(b, Requests, Admins, Commands \ {c})}
          /\ UNCHANGED adminVars
      BY <1>6, LapseEffect
    <2>2. SumsHold' /\ SpoiltOnlyByOverlap'
      BY <2>1, PostSums DEF adminVars
    <2>3. \A b \in spoilt' : b \in spoilt \/ (b \in {a, Lapsed} /\ SummedSave(b))
      BY <2>1, PostSums
    <2>4. \A b \in {a, Lapsed} : SummedSave(b) => b \in crossed'
      <3>1. \A e \in Commands : command[e] = "summed" => e \in Commands \ {c}
        BY <2>1
      <3> QED
        BY <2>1, <3>1, SummedHolds
    <2> QED
      BY <2>1, <2>2, <2>3, <2>4
  <1>7. ASSUME NEW c \in Commands, NEW a \in Accounts, SkipAccount(c, a) PROVE Sums'
    BY <1>0, <1>7 DEF SkipAccount, ledgerVars, adminVars, historyVars, TypeOK
  <1>8. ASSUME NEW c \in Commands, SumClosing(c) PROVE Sums'
    <2>1. closing[c] \in Accounts /\ command[c] = "transferred"
      BY <1>0, <1>8 DEF SumClosing, Shape, TypeOK
    <2>2. command'[c] = "summed" => found'[c][closing[c]].balance = posted[closing[c]]
      BY <1>0, <1>8, <2>1 DEF SumClosing, TypeOK
    <2>3. \A e \in Commands \ {c} : command'[e] = command[e] /\ found'[e] = found[e]
      BY <1>0, <1>8 DEF SumClosing, TypeOK
    <2> QED
      BY <1>8, <2>2, <2>3 DEF SumClosing, ledgerVars, adminVars, historyVars
  <1>9. ASSUME NEW c \in Commands, SaveClosing(c) PROVE Sums'
    <2>1. closing[c] \in Accounts /\ command[c] = "summed"
      BY <1>0, <1>9 DEF SaveClosing, Shape, TypeOK
    <2>2. /\ row'[closing[c]] = found[c][closing[c]]
          /\ \A a \in Accounts : a # closing[c] => row'[a] = row[a]
      BY <1>0, <1>9, <2>1 DEF SaveClosing, TypeOK
    <2>3. SpoiltOnlyByOverlap'
      BY <1>9, <2>1, <2>2 DEF SaveClosing
    <2>4. SumsHold'
      BY <1>0, <1>9 DEF SaveClosing, adminVars, TypeOK
    <2>5. SpoiltAreCrossed'
      BY <1>9 DEF SaveClosing
    <2> QED
      BY <2>3, <2>4, <2>5
  <1>10. ASSUME NEW c \in Commands, FetchLapsed(c) \/ Find(c) \/ Finish(c) \/ Die(c)
         PROVE  Sums'
    BY <1>0, <1>10 DEF FetchLapsed, Find, Finish, Die, ledgerVars, adminVars, historyVars,
                       TypeOK
  <1>11. ASSUME NEW r \in Requests, NEW a \in Accounts, Fetch(r, a) \/ Abort(r)
         PROVE  Sums'
    BY <1>1, <1>11 DEF Fetch, Abort, commandVars
  <1>12. CASE AllDone \/ UNCHANGED vars
    BY <1>1, <1>12 DEF AllDone, vars, commandVars
  <1> QED
    BY <1>0, <1>2, <1>3, <1>4, <1>5, <1>6, <1>7, <1>8, <1>9, <1>10, <1>11, <1>12,
       AccountsAssumption DEF Next, Request, Admin, Command

LEMMA InitSums == Init => Sums
  BY DEF Init, Sums, SumsHold, SpoiltOnlyByOverlap, SpoiltAreCrossed

\* A cached balance is wrong only after a save that overlapped a transfer.
THEOREM OnlyOverlapSpoils == Spec => []SpoiltOnlyByOverlap
  <1>1. Sums => SpoiltOnlyByOverlap
    BY DEF Sums
  <1> QED
    BY <1>1, InitSums, SumsStep, SpecTyped, PTL DEF Spec

-----------------------------------------------------------------------------
(***************************************************************************)
(* Closed accounts were emptied.                                           *)
(***************************************************************************)

LEMMA LegalStep == Typed /\ InstancesAreLegal /\ [Next]_vars => InstancesAreLegal'
  <1> SUFFICES ASSUME Typed, InstancesAreLegal, [Next]_vars, NEW a \in Accounts
               PROVE  LegalOf(a)'
    BY DEF InstancesAreLegal
  <1> USE DEF LegalOf, Legal
  <1>0. TypeOK /\ Shape /\ LegalOf(a) /\ Lapsed \in Accounts
    BY AccountsAssumption DEF Typed, InstancesAreLegal
  <1>1. ASSUME NEW r \in Requests, NEW b \in Accounts, Fetch(r, b) PROVE LegalOf(a)'
    BY <1>0, <1>1 DEF Fetch, ledgerVars, adminVars, commandVars, historyVars, TypeOK
  <1>2. ASSUME NEW r \in Requests, Answer(r) PROVE LegalOf(a)'
    <2>1. UNCHANGED <<job, copy, adminVars, commandVars, emptied, lastSet>>
      BY <1>2, AnswerEffect
    <2>2. row'[a] = row[a] \/ row'[a].status = "Open"
      <3>1. ASSUME NEW s \in Accounts, NEW d \in Accounts, NEW amount \in Int, s # d,
                   copy[r][s] \in Row, copy[r][d] \in Row,
                   copy[r][s].status = "Open", copy[r][d].status = "Open",
                   Post(s, copy[r][s], d, copy[r][d], amount)
            PROVE  row'[a] = row[a] \/ row'[a].status = "Open"
        BY <1>0, <3>1, PostEffect
      <3> QED
        BY <1>2, <3>1, AnswerEffect DEF ledgerVars
    <2> QED
      BY <1>0, <2>1, <2>2 DEF adminVars, commandVars
  <1>3. ASSUME NEW r \in Requests, Abort(r) PROVE LegalOf(a)'
    BY <1>0, <1>3 DEF Abort, ledgerVars, adminVars, commandVars, historyVars
  <1>4. ASSUME NEW m \in Admins, Load(m) PROVE LegalOf(a)'
    BY <1>0, <1>4 DEF Load, ledgerVars, requestVars, commandVars, historyVars, TypeOK
  <1>5. ASSUME NEW m \in Admins, SumForm(m) PROVE LegalOf(a)'
    <2>1. form'[m].status = form[m].status \/ form'[m].status = change[m].status
      BY <1>0, <1>5 DEF SumForm, TypeOK
    <2>2. form[m] # NotRead
      BY <1>0, <1>5, NothingAssumption DEF SumForm, Shape
    <2>3. change[m].status # "Closed"
      BY <1>0, WorkTypes
    <2>4. \A n \in Admins : n # m => form'[n] = form[n]
      BY <1>0, <1>5 DEF SumForm, TypeOK
    <2> QED
      BY <1>0, <1>5, <2>1, <2>2, <2>3, <2>4
         DEF SumForm, ledgerVars, requestVars, commandVars, historyVars
  <1>6. ASSUME NEW m \in Admins, SaveForm(m) PROVE LegalOf(a)'
    <2>1. row'[a] = row[a] \/ (change[m].account = a /\ row'[a] = form[m])
      BY <1>0, <1>6, WorkTypes DEF SaveForm, TypeOK
    <2> QED
      BY <1>0, <1>6, <2>1 DEF SaveForm, requestVars, commandVars
  <1>7. ASSUME NEW c \in Commands, FetchLapsed(c) PROVE LegalOf(a)'
    BY <1>0, <1>7 DEF FetchLapsed, ledgerVars, requestVars, adminVars, historyVars, TypeOK
  <1>8. ASSUME NEW c \in Commands, Find(c) PROVE LegalOf(a)'
    BY <1>0, <1>8 DEF Find, ledgerVars, requestVars, adminVars, historyVars, TypeOK
  <1>9. ASSUME NEW c \in Commands, NEW b \in Accounts, Lapse(c, b) PROVE LegalOf(a)'
    <2>1. /\ Lapsed \in Accounts /\ b # Lapsed
          /\ found[c][b] \in Row /\ lapsed[c] \in Row /\ found[c][b].balance \in Int
          /\ found[c][b].status = "Open" /\ lapsed[c].status = "Open"
          /\ Post(b, found[c][b], Lapsed, lapsed[c], found[c][b].balance)
      BY <1>9, LapseEffect
    <2>2. /\ found'[c][b].status = "Open" /\ lapsed'[c].status = "Open"
          /\ emptied' = emptied \cup {b}
          /\ UNCHANGED <<requestVars, adminVars>>
      BY <1>9, LapseEffect
    <2>3. \A e \in Accounts \ {b} : found'[c][e] = found[c][e]
      BY <1>9, LapseEffect
    <2>4. \A e \in Commands \ {c} : found'[e] = found[e] /\ lapsed'[e] = lapsed[e]
      BY <1>0, <1>9 DEF Lapse, TypeOK
    <2>5. row'[a] = row[a] \/ row'[a].status = "Open"
      <3> HIDE DEF LegalOf, Legal
      <3>1. /\ row'[b].status = "Open" /\ row'[Lapsed].status = "Open"
            /\ \A e \in Accounts \ {b, Lapsed} : row'[e] = row[e]
        BY <1>0, <2>1, PostEffect
      <3> QED
        BY <3>1
    <2> QED
      BY <1>0, <2>2, <2>3, <2>4, <2>5 DEF requestVars, adminVars
  <1>10. ASSUME NEW c \in Commands, NEW b \in Accounts, SkipAccount(c, b)
         PROVE  LegalOf(a)'
    BY <1>0, <1>10 DEF SkipAccount, ledgerVars, requestVars, adminVars, historyVars, TypeOK
  <1>11. ASSUME NEW c \in Commands, SumClosing(c) PROVE LegalOf(a)'
    <2>1. closing[c] \in Accounts /\ closing[c] \in emptied
      BY <1>0, <1>11 DEF SumClosing, Shape, TypeOK
    <2>2. \A e \in Commands : found'[e][a] = found[e][a] \/ a = closing[c]
      <3>1. found' = found \/ \E i : found' = [found EXCEPT ![c][closing[c]] = i]
        BY <1>11 DEF SumClosing
      <3> QED
        BY <1>0, <2>1, <3>1 DEF TypeOK
    <2> QED
      BY <1>0, <1>11, <2>1, <2>2
         DEF SumClosing, ledgerVars, requestVars, adminVars, historyVars
  <1>12. ASSUME NEW c \in Commands, SaveClosing(c) PROVE LegalOf(a)'
    <2>1. closing[c] \in Accounts /\ closing[c] \in emptied
      BY <1>0, <1>12 DEF SaveClosing, Shape, TypeOK
    <2>2. row'[a] = row[a] \/ a = closing[c]
      BY <1>0, <1>12, <2>1 DEF SaveClosing, TypeOK
    <2>3. \A e \in Commands : found'[e][a] = found[e][a] \/ found'[e][a] = NotRead
      BY <1>0, <1>12, <2>1 DEF SaveClosing, TypeOK
    <2> QED
      BY <1>0, <1>12, <2>1, <2>2, <2>3 DEF SaveClosing, requestVars, adminVars
  <1>13. ASSUME NEW c \in Commands, Finish(c) \/ Die(c) PROVE LegalOf(a)'
    BY <1>0, <1>13 DEF Finish, Die, ledgerVars, requestVars, adminVars, historyVars
  <1>14. CASE AllDone \/ UNCHANGED vars
    BY <1>0, <1>14 DEF AllDone, vars, ledgerVars, requestVars, adminVars, commandVars,
                       historyVars
  <1> QED
    BY <1>1, <1>2, <1>3, <1>4, <1>5, <1>6, <1>7, <1>8, <1>9, <1>10, <1>11, <1>12, <1>13,
       <1>14 DEF Next, Request, Admin, Command

\* No account is closed before what it had went to the Lapsed account.
THEOREM ClosedEmptied == Spec => []ClosedWereEmptied
  <1>1. Init => InstancesAreLegal
    <2> SUFFICES ASSUME Init, NEW a \in Accounts PROVE LegalOf(a)
      BY DEF InstancesAreLegal
    <2>1. /\ row[a] = InitialRow[a]
          /\ \A r \in Requests : copy[r][a] = NotRead
          /\ \A m \in Admins : form[m] = NotRead
          /\ \A c \in Commands : found[c][a] = NotRead /\ lapsed[c] = NotRead
      BY DEF Init, Nothing
    <2> QED
      BY <2>1 DEF LegalOf, Legal
  <1>2. Typed /\ InstancesAreLegal => ClosedWereEmptied
    BY NothingAssumption
       DEF ClosedWereEmptied, InstancesAreLegal, LegalOf, Legal, Typed, TypeOK
  <1> QED
    BY <1>1, <1>2, LegalStep, SpecTyped, PTL DEF Spec

-----------------------------------------------------------------------------
(***************************************************************************)
(* The status an account was given, and what a closed one holds.           *)
(***************************************************************************)

\* What a save of the dashboard does to the account it is about.
LEMMA SaveFormEffect ==
    ASSUME Typed, NEW m \in Admins, SaveForm(m)
    PROVE  LET a == change[m].account
           IN  /\ saving[m] = "summed" /\ form[m] \in Row
               /\ a \in Accounts /\ row'[a] = form[m]
               /\ lastSet'[a] = IF change[m].status = "Kept" THEN lastSet[a]
                                                            ELSE change[m].status
               /\ a \notin crossed' =>
                     /\ ~Held(a, Requests, Admins \ {m}, Commands)
                     /\ change[m].status = "Kept" => a \notin crossed
               /\ \A b \in Accounts \ {a} :
                     /\ row'[b] = row[b] /\ lastSet'[b] = lastSet[b]
                     /\ (b \in crossed' <=> b \in crossed)
  <1> DEFINE a == change[m].account
  <1>1. a \in Accounts /\ saving[m] = "summed" /\ form[m] \in Row
    BY WorkTypes DEF SaveForm, Typed, Shape
  <1>2. row' = [row EXCEPT ![a] = form[m]]
    BY DEF SaveForm
  <1>3. row'[a] = form[m] /\ \A b \in Accounts \ {a} : row'[b] = row[b]
    BY <1>1, <1>2 DEF Typed, TypeOK
  <1>4. /\ lastSet'[a] = IF change[m].status = "Kept" THEN lastSet[a]
                                                     ELSE change[m].status
        /\ \A b \in Accounts \ {a} : lastSet'[b] = lastSet[b]
    BY <1>1 DEF SaveForm, Settles, Typed, TypeOK
  <1>5. /\ a \notin crossed' => /\ ~Held(a, Requests, Admins \ {m}, Commands)
                                /\ change[m].status = "Kept" => a \notin crossed
        /\ \A b \in Accounts \ {a} : (b \in crossed' <=> b \in crossed)
    BY DEF SaveForm, Settles
  <1> QED
    BY <1>1, <1>3, <1>4, <1>5

\* And what closing does.
LEMMA SaveClosingEffect ==
    ASSUME Typed, NEW c \in Commands, SaveClosing(c)
    PROVE  LET a == closing[c]
           IN  /\ a \in Accounts /\ a # Lapsed /\ command[c] = "summed"
               /\ row'[a] = found[c][a] /\ found[c][a].status = "Closed"
               /\ lastSet'[a] = "Closed"
               /\ a \notin crossed' => /\ ~Held(a, Requests, Admins, Commands \ {c})
                                       /\ a \notin crossed
               /\ \A b \in Accounts \ {a} :
                     /\ row'[b] = row[b] /\ lastSet'[b] = lastSet[b]
                     /\ (b \in crossed' <=> b \in crossed)
                     /\ found'[c][b] = found[c][b]
               /\ found'[c][a] = NotRead
               /\ command'[c] = "looping" /\ closing'[c] = Nobody
               /\ \A e \in Commands \ {c} : /\ found'[e] = found[e]
                                            /\ closing'[e] = closing[e]
                                            /\ command'[e] = command[e]
  <1> DEFINE a == closing[c]
  <1>1. a \in Accounts /\ a # Lapsed /\ found[c][a].status = "Closed"
        /\ command[c] = "summed"
    BY DEF SaveClosing, Typed, TypeOK, Shape
  <1>2. row'[a] = found[c][a] /\ \A b \in Accounts \ {a} : row'[b] = row[b]
    BY <1>1 DEF SaveClosing, Typed, TypeOK
  <1>3. lastSet'[a] = "Closed" /\ \A b \in Accounts \ {a} : lastSet'[b] = lastSet[b]
    BY <1>1 DEF SaveClosing, Typed, TypeOK
  <1>4. /\ a \notin crossed' => /\ ~Held(a, Requests, Admins, Commands \ {c})
                                /\ a \notin crossed
        /\ \A b \in Accounts \ {a} : (b \in crossed' <=> b \in crossed)
    BY DEF SaveClosing
  <1>5. /\ found'[c][a] = NotRead
        /\ \A b \in Accounts \ {a} : found'[c][b] = found[c][b]
        /\ \A e \in Commands \ {c} : found'[e] = found[e]
    BY <1>1 DEF SaveClosing, Typed, TypeOK
  <1>6. /\ command'[c] = "looping" /\ closing'[c] = Nobody
        /\ \A e \in Commands \ {c} : closing'[e] = closing[e] /\ command'[e] = command[e]
    BY DEF SaveClosing, Typed, TypeOK
  <1> QED
    BY <1>1, <1>2, <1>3, <1>4, <1>5, <1>6

LEMMA StatusStep == Typed /\ StatusAgreed /\ [Next]_vars => StatusAgreed'
  <1> SUFFICES ASSUME Typed, StatusAgreed, [Next]_vars,
                      NEW a \in Accounts, a \notin crossed'
               PROVE  Agreed(a)'
    BY DEF StatusAgreed
  <1> USE DEF Working
  <1>0. TypeOK /\ Lapsed \in Accounts /\ NotRead \notin Row
    BY AccountsAssumption, NothingAssumption DEF Typed
  <1>a. a \notin crossed => Agreed(a)
    BY DEF StatusAgreed
  <1>1. ASSUME NEW r \in Requests, NEW b \in Accounts, Fetch(r, b) PROVE Agreed(a)'
    BY <1>0, <1>a, <1>1
       DEF Fetch, Agreed, RequestHolds, ledgerVars, adminVars, commandVars, historyVars,
           TypeOK
  <1>2. ASSUME NEW r \in Requests, Answer(r) PROVE Agreed(a)'
    <2>1. /\ answer[r] = "pending" /\ answer'[r] # "pending"
          /\ \A q \in Requests \ {r} : answer'[q] = answer[q]
          /\ UNCHANGED <<job, copy, adminVars, commandVars, emptied, lastSet>>
      BY <1>2, AnswerEffect
    <2>2. Agreed(a) /\ row'[a].status = lastSet[a]
      <3>1. CASE UNCHANGED <<ledgerVars, spoilt, crossed>>
        BY <1>a, <3>1 DEF ledgerVars, Agreed
      <3>2. ASSUME NEW s \in Accounts, NEW d \in Accounts, NEW amount \in Int, s # d,
                   copy[r][s] \in Row, copy[r][d] \in Row,
                   Post(s, copy[r][s], d, copy[r][d], amount),
                   crossed' = crossed \cup
                      {b \in {s, d} : Held(b, Requests \ {r}, Admins, Commands)}
            PROVE  Agreed(a) /\ row'[a].status = lastSet[a]
        <4>1. Agreed(a)
          BY <1>a, <3>2
        <4>2. \/ row'[a] = row[a]
              \/ a \in {s, d} /\ row'[a].status = copy[r][a].status
          BY <1>0, <3>2, PostEffect
        <4>3. a \in {s, d} => RequestHolds(r, a)
          BY <1>0, <2>1, <3>2 DEF RequestHolds
        <4> QED
          BY <4>1, <4>2, <4>3 DEF Agreed
      <3> QED
        BY <1>2, <3>1, <3>2, AnswerEffect
    <2> QED
      BY <2>1, <2>2 DEF Agreed, RequestHolds, adminVars, commandVars
  <1>3. ASSUME NEW r \in Requests, Abort(r) PROVE Agreed(a)'
    BY <1>0, <1>a, <1>3
       DEF Abort, Agreed, RequestHolds, ledgerVars, adminVars, commandVars, historyVars,
           TypeOK
  <1>4. ASSUME NEW m \in Admins, Load(m) PROVE Agreed(a)'
    BY <1>0, <1>a, <1>4
       DEF Load, Agreed, RequestHolds, ledgerVars, requestVars, commandVars, historyVars,
           TypeOK
  <1>5. ASSUME NEW m \in Admins, SumForm(m) PROVE Agreed(a)'
    <2>1. change[m].status = "Kept" => form'[m].status = form[m].status
      BY <1>0, <1>5 DEF SumForm, TypeOK
    <2>2. /\ \A n \in Admins \ {m} : form'[n] = form[n] /\ saving'[n] = saving[n]
          /\ saving[m] = "loaded" /\ saving'[m] = "summed"
      BY <1>0, <1>5 DEF SumForm, TypeOK
    <2> QED
      BY <1>0, <1>a, <1>5, <2>1, <2>2
         DEF SumForm, Agreed, RequestHolds, ledgerVars, requestVars, commandVars, historyVars
  <1>6. ASSUME NEW m \in Admins, SaveForm(m) PROVE Agreed(a)'
    <2>1. /\ \A n \in Admins \ {m} : saving'[n] = saving[n]
          /\ saving'[m] = "saved"
          /\ UNCHANGED <<posted, requestVars, change, form, commandVars>>
      BY <1>0, <1>6 DEF SaveForm, TypeOK
    <2>2. CASE a # change[m].account
      <3>1. row'[a] = row[a] /\ lastSet'[a] = lastSet[a] /\ Agreed(a)
        BY <1>a, <1>6, <2>2, SaveFormEffect
      <3> QED
        BY <2>1, <3>1 DEF Agreed, RequestHolds, requestVars, commandVars
    <2>3. CASE a = change[m].account
      <3>1. /\ saving[m] = "summed" /\ row'[a] = form[m]
            /\ lastSet'[a] = IF change[m].status = "Kept" THEN lastSet[a]
                                                         ELSE change[m].status
            /\ ~Held(a, Requests, Admins \ {m}, Commands)
            /\ change[m].status = "Kept" => a \notin crossed
        BY <1>6, <2>3, SaveFormEffect
      <3>2. row'[a].status = lastSet'[a]
        BY <1>a, <2>3, <3>1 DEF Agreed, Typed, Shape
      <3>3. /\ \A r \in Requests : ~RequestHolds(r, a)
            /\ \A n \in Admins \ {m} : ~SaveHolds(n, a)
            /\ \A c \in Commands : ~CommandHolds(c, a)
        BY <3>1 DEF Held
      <3> QED
        BY <2>1, <3>2, <3>3
           DEF Agreed, RequestHolds, SaveHolds, CommandHolds, requestVars, commandVars
    <2> QED
      BY <2>2, <2>3
  <1>7. ASSUME NEW c \in Commands, FetchLapsed(c) PROVE Agreed(a)'
    BY <1>0, <1>a, <1>7
       DEF FetchLapsed, Agreed, RequestHolds, ledgerVars, requestVars, adminVars,
           historyVars, TypeOK
  <1>8. ASSUME NEW c \in Commands, Find(c) PROVE Agreed(a)'
    BY <1>0, <1>a, <1>8
       DEF Find, Agreed, RequestHolds, ledgerVars, requestVars, adminVars, historyVars,
           TypeOK
  <1>9. ASSUME NEW c \in Commands, NEW b \in Accounts, Lapse(c, b) PROVE Agreed(a)'
    <2>1. /\ b # Lapsed
          /\ found[c][b] \in Row /\ lapsed[c] \in Row /\ found[c][b].balance \in Int
          /\ found[c][b].status = "Open" /\ lapsed[c].status = "Open"
          /\ Post(b, found[c][b], Lapsed, lapsed[c], found[c][b].balance)
      BY <1>9, LapseEffect
    <2>2. /\ found'[c][b].status = "Open" /\ lapsed'[c].status = "Open"
          /\ crossed' = crossed \cup
                {e \in {b, Lapsed} : Held(e, Requests, Admins, Commands \ {c})}
          /\ command[c] = "looping" /\ command'[c] = "transferred"
          /\ UNCHANGED <<requestVars, adminVars, lastSet>>
      BY <1>9, LapseEffect
    <2>3. \A e \in Accounts \ {b} : found'[c][e] = found[c][e]
      BY <1>9, LapseEffect
    <2>4. \A e \in Commands \ {c} : /\ found'[e] = found[e] /\ lapsed'[e] = lapsed[e]
                                    /\ command'[e] = command[e]
                                    /\ closing'[e] = closing[e]
      BY <1>0, <1>9 DEF Lapse, TypeOK
    <2>5. Agreed(a)
      BY <1>a, <2>2
    <2>6. row'[a].status = lastSet[a]
      <3>1. /\ row'[b].status = "Open" /\ row'[Lapsed].status = "Open"
            /\ \A e \in Accounts \ {b, Lapsed} : row'[e] = row[e]
        BY <1>0, <2>1, PostEffect
      <3>2. a = b => found[c][a].status = lastSet[a]
        BY <1>0, <2>1, <2>2, <2>5 DEF Agreed
      <3>3. a = Lapsed => lapsed[c].status = lastSet[a]
        BY <2>2, <2>5 DEF Agreed
      <3> QED
        BY <2>1, <2>5, <3>1, <3>2, <3>3 DEF Agreed
    <2>7. \A e \in Commands :
              command'[e] \in Working /\ found'[e][a] # NotRead
                 /\ (command'[e] # "summed" \/ closing'[e] # a)
                    => found'[e][a].status = lastSet[a]
      BY <1>0, <2>1, <2>2, <2>3, <2>4, <2>5 DEF Agreed
    <2>8. \A e \in Commands :
              a = Lapsed /\ command'[e] \in Working \cup {"finding"}
                    => lapsed'[e].status = lastSet[a]
      BY <2>1, <2>2, <2>4, <2>5 DEF Agreed
    <2> QED
      BY <2>2, <2>5, <2>6, <2>7, <2>8 DEF Agreed, RequestHolds, requestVars, adminVars
  <1>10. ASSUME NEW c \in Commands, NEW b \in Accounts, SkipAccount(c, b)
         PROVE  Agreed(a)'
    BY <1>0, <1>a, <1>10
       DEF SkipAccount, Agreed, RequestHolds, ledgerVars, requestVars, adminVars,
           historyVars, TypeOK
  <1>11. ASSUME NEW c \in Commands, SumClosing(c) PROVE Agreed(a)'
    <2>1. closing[c] \in Accounts /\ command[c] = "transferred"
          /\ command'[c] \in {"failed", "summed"}
          /\ UNCHANGED <<ledgerVars, requestVars, adminVars, lapsed, closing, historyVars>>
      BY <1>0, <1>11 DEF SumClosing, Typed, TypeOK, Shape
    <2>2. \A e \in Commands : found'[e][a] = found[e][a] \/ (e = c /\ a = closing[c])
      <3>1. found' = found \/ \E i : found' = [found EXCEPT ![c][closing[c]] = i]
        BY <1>11 DEF SumClosing
      <3> QED
        BY <1>0, <2>1, <3>1 DEF TypeOK
    <2>3. \A e \in Commands \ {c} : command'[e] = command[e]
      BY <1>0, <1>11 DEF SumClosing, TypeOK
    <2>4. Agreed(a)
      BY <1>a, <2>1 DEF historyVars
    <2> QED
      BY <2>1, <2>2, <2>3, <2>4
         DEF Agreed, RequestHolds, ledgerVars, requestVars, adminVars, historyVars
  <1>12. ASSUME NEW c \in Commands, SaveClosing(c) PROVE Agreed(a)'
    <2>1. UNCHANGED <<posted, requestVars, adminVars, lapsed>>
      BY <1>12 DEF SaveClosing
    <2>2. /\ command[c] = "summed" /\ command'[c] = "looping"
          /\ \A e \in Commands \ {c} : /\ found'[e] = found[e]
                                       /\ closing'[e] = closing[e]
                                       /\ command'[e] = command[e]
      BY <1>12, SaveClosingEffect
    <2>3. CASE a # closing[c]
      <3>1. row'[a] = row[a] /\ lastSet'[a] = lastSet[a] /\ Agreed(a)
            /\ found'[c][a] = found[c][a]
        BY <1>a, <1>12, <2>3, SaveClosingEffect
      <3> QED
        BY <2>1, <2>2, <2>3, <3>1 DEF Agreed, RequestHolds, requestVars, adminVars
    <2>4. CASE a = closing[c]
      <3>0. /\ row'[a] = found[c][a] /\ found[c][a].status = "Closed"
            /\ lastSet'[a] = "Closed" /\ a # Lapsed /\ found'[c][a] = NotRead
        BY <1>12, <2>4, SaveClosingEffect
      <3>1. /\ row'[a].status = "Closed" /\ lastSet'[a] = "Closed" /\ a # Lapsed
            /\ found'[c][a] = NotRead
            /\ ~Held(a, Requests, Admins, Commands \ {c})
        BY <1>12, <2>4, <3>0, SaveClosingEffect
      <3>2. /\ \A r \in Requests : ~RequestHolds(r, a)
            /\ \A n \in Admins : ~SaveHolds(n, a)
            /\ \A e \in Commands \ {c} : ~CommandHolds(e, a)
        BY <3>1 DEF Held
      <3> QED
        BY <2>1, <2>2, <3>1, <3>2
           DEF Agreed, RequestHolds, SaveHolds, CommandHolds, requestVars, adminVars
    <2> QED
      BY <2>3, <2>4
  <1>13. ASSUME NEW c \in Commands, Finish(c) \/ Die(c) PROVE Agreed(a)'
    BY <1>0, <1>a, <1>13
       DEF Finish, Die, Agreed, RequestHolds, ledgerVars, requestVars, adminVars,
           historyVars, TypeOK
  <1>14. CASE AllDone \/ UNCHANGED vars
    BY <1>0, <1>a, <1>14
       DEF AllDone, vars, Agreed, RequestHolds, ledgerVars, requestVars, adminVars,
           commandVars, historyVars
  <1> QED
    BY <1>1, <1>2, <1>3, <1>4, <1>5, <1>6, <1>7, <1>8, <1>9, <1>10, <1>11, <1>12, <1>13,
       <1>14 DEF Next, Request, Admin, Command

LEMMA InitAgreed == Init => StatusAgreed
  BY DEF Init, StatusAgreed, Agreed, RequestHolds, Nothing, Working

\* An account keeps the status it was given, unless it was written while somebody
\* else held an instance of it.
THEOREM StatusKept == Spec => []StatusIsAsSet
  <1>1. StatusAgreed => StatusIsAsSet
    BY DEF StatusAgreed, Agreed, StatusIsAsSet
  <1> QED
    BY <1>1, InitAgreed, StatusStep, SpecTyped, PTL DEF Spec

LEMMA BalanceStep ==
    ASSUME Typed, Sums, StatusAgreed, BalanceAgreed, [Next]_vars
    PROVE  BalanceAgreed'
  <1> SUFFICES ASSUME NEW a \in Accounts, a \notin crossed' PROVE Settled(a)'
    BY DEF BalanceAgreed
  <1> USE DEF Working
  <1>0. TypeOK /\ Lapsed \in Accounts /\ NotRead \notin Row
    BY AccountsAssumption, NothingAssumption DEF Typed
  <1>a. a \notin crossed => Settled(a) /\ Agreed(a) /\ row[a].balance = posted[a]
    BY DEF BalanceAgreed, StatusAgreed, Sums, SpoiltOnlyByOverlap, SpoiltAreCrossed
  <1>1. ASSUME UNCHANGED <<ledgerVars, commandVars, historyVars>> PROVE Settled(a)'
    BY <1>a, <1>1 DEF Settled, ledgerVars, commandVars, historyVars
  \* The commands of a set do not hold the account.
  <1>b. ASSUME NEW c \in Commands, ~CommandHolds(c, a)
        PROVE  /\ ~(command[c] \in Working /\ found[c][a] # NotRead)
               /\ ~(command[c] \in {"transferred", "summed"} /\ closing[c] = a)
    BY <1>0, <1>b DEF CommandHolds, Typed, Shape
  <1>2. ASSUME NEW r \in Requests, Answer(r) PROVE Settled(a)'
    <2>1. UNCHANGED <<job, copy, adminVars, commandVars, emptied, lastSet>>
      BY <1>2, AnswerEffect
    <2>2. CASE UNCHANGED <<ledgerVars, spoilt, crossed>>
      BY <1>a, <2>1, <2>2 DEF Settled, ledgerVars, commandVars
    <2>3. ASSUME NEW s \in Accounts, NEW d \in Accounts, NEW amount \in Int, s # d,
                 copy[r][s] \in Row, copy[r][d] \in Row,
                 copy[r][s].status = "Open", copy[r][d].status = "Open",
                 Post(s, copy[r][s], d, copy[r][d], amount),
                 crossed' = crossed \cup
                    {b \in {s, d} : Held(b, Requests \ {r}, Admins, Commands)}
          PROVE  Settled(a)'
      <3>1. Settled(a)
        BY <1>a, <2>3
      <3>2. CASE a \notin {s, d}
        <4>1. row'[a] = row[a] /\ posted'[a] = posted[a]
          BY <1>0, <2>3, <3>2, PostEffect
        <4> QED
          BY <2>1, <3>1, <4>1 DEF Settled, commandVars
      <3>3. CASE a \in {s, d}
        <4>1. row'[a].status = "Open"
          BY <1>0, <2>3, <3>3, PostEffect
        <4>2. \A c \in Commands : ~CommandHolds(c, a)
          BY <2>3, <3>3 DEF Held
        <4> QED
          BY <1>b, <2>1, <4>1, <4>2 DEF Settled, commandVars
      <3> QED
        BY <3>2, <3>3
    <2> QED
      BY <1>2, <2>2, <2>3, AnswerEffect
  <1>3. ASSUME NEW r \in Requests, NEW b \in Accounts, Fetch(r, b) \/ Abort(r)
        PROVE  Settled(a)'
    BY <1>1, <1>3 DEF Fetch, Abort
  <1>4. ASSUME NEW m \in Admins, Load(m) \/ SumForm(m) PROVE Settled(a)'
    BY <1>1, <1>4 DEF Load, SumForm
  <1>5. ASSUME NEW m \in Admins, SaveForm(m) PROVE Settled(a)'
    <2>1. UNCHANGED <<posted, commandVars>>
      BY <1>5 DEF SaveForm
    <2>2. CASE a # change[m].account
      <3>1. row'[a] = row[a] /\ a \notin crossed
        BY <1>5, <2>2, SaveFormEffect
      <3> QED
        BY <1>a, <2>1, <3>1 DEF Settled, commandVars
    <2>3. CASE a = change[m].account
      <3>1. /\ saving[m] = "summed" /\ row'[a] = form[m]
            /\ ~Held(a, Requests, Admins \ {m}, Commands)
            /\ change[m].status = "Kept" => a \notin crossed
        BY <1>5, <2>3, SaveFormEffect
      <3>2. \A c \in Commands : ~CommandHolds(c, a)
        BY <3>1 DEF Held
      <3>3. ASSUME row'[a].status = "Closed", InitialRow[a].status # "Closed"
            PROVE  posted'[a] = 0
        <4>1. change[m].status = "Kept"
          BY <1>0, <3>1, <3>3, WorkTypes DEF Typed, Shape
        <4>2. Settled(a) /\ Agreed(a) /\ form[m].status = "Closed"
          BY <1>a, <3>1, <3>3, <4>1
        <4>3. row[a].status = "Closed"
          BY <2>3, <3>1, <4>1, <4>2 DEF Agreed
        <4> QED
          BY <2>1, <3>3, <4>2, <4>3 DEF Settled
      <3> QED
        BY <1>b, <2>1, <3>2, <3>3 DEF Settled, commandVars
    <2> QED
      BY <2>2, <2>3
  <1>6. ASSUME NEW c \in Commands, FetchLapsed(c) PROVE Settled(a)'
    BY <1>0, <1>a, <1>6 DEF FetchLapsed, Settled, ledgerVars, historyVars, TypeOK
  <1>7. ASSUME NEW c \in Commands, Find(c) PROVE Settled(a)'
    <2>1. /\ found'[c][a] = row[a] \/ found'[c][a] = NotRead
          /\ command'[c] = "looping"
          /\ \A e \in Commands \ {c} : found'[e] = found[e] /\ command'[e] = command[e]
      BY <1>0, <1>7 DEF Find, TypeOK
    <2> QED
      BY <1>a, <1>7, <2>1 DEF Find, Settled, ledgerVars, historyVars
  <1>8. ASSUME NEW c \in Commands, NEW b \in Accounts, Lapse(c, b) PROVE Settled(a)'
    <2>1. /\ b # Lapsed
          /\ found[c][b] \in Row /\ lapsed[c] \in Row /\ found[c][b].balance \in Int
          /\ found[c][b].status = "Open" /\ lapsed[c].status = "Open"
          /\ Post(b, found[c][b], Lapsed, lapsed[c], found[c][b].balance)
      BY <1>8, LapseEffect
    <2>2. /\ crossed' = crossed \cup
                {e \in {b, Lapsed} : Held(e, Requests, Admins, Commands \ {c})}
          /\ command[c] = "looping" /\ command'[c] = "transferred"
          /\ closing'[c] = b /\ found'[c][b].balance = posted'[b]
      BY <1>8, LapseEffect
    <2>3. \A e \in Accounts \ {b} : found'[c][e] = found[c][e]
      BY <1>8, LapseEffect
    <2>4. \A e \in Commands \ {c} : /\ found'[e] = found[e]
                                    /\ command'[e] = command[e]
                                    /\ closing'[e] = closing[e]
      BY <1>0, <1>8 DEF Lapse, TypeOK
    <2>5. /\ row'[b].status = "Open" /\ row'[Lapsed].status = "Open"
          /\ posted'[b] = posted[b] - found[c][b].balance
          /\ \A e \in Accounts \ {b, Lapsed} : row'[e] = row[e] /\ posted'[e] = posted[e]
      BY <1>0, <2>1, PostEffect
    <2>6. Settled(a)
      BY <1>a, <2>2
    <2>7. CASE a \notin {b, Lapsed}
      BY <2>2, <2>3, <2>4, <2>5, <2>6, <2>7 DEF Settled
    <2>8. CASE a \in {b, Lapsed}
      <3>1. \A e \in Commands \ {c} : ~CommandHolds(e, a)
        BY <2>2, <2>8 DEF Held
      <3>2. \A e \in Commands \ {c} :
                /\ ~(command'[e] \in Working /\ found'[e][a] # NotRead)
                /\ ~(command'[e] \in {"transferred", "summed"} /\ closing'[e] = a)
        BY <1>b, <2>4, <3>1
      <3>3. a = b => posted'[a] = 0
        <4>1. a = b => found[c][a].balance = posted[a]
          BY <1>0, <2>1, <2>2, <2>6 DEF Settled
        <4>2. posted[a] \in Int
          BY <1>0 DEF TypeOK
        <4> QED
          BY <2>5, <4>1, <4>2
      <3> QED
        BY <2>1, <2>2, <2>5, <2>8, <3>2, <3>3 DEF Settled
    <2> QED
      BY <2>7, <2>8
  <1>9. ASSUME NEW c \in Commands, NEW b \in Accounts, SkipAccount(c, b)
        PROVE  Settled(a)'
    <2>1. \A e \in Commands : found'[e][a] = found[e][a] \/ found'[e][a] = NotRead
      BY <1>0, <1>9 DEF SkipAccount, TypeOK
    <2> QED
      BY <1>a, <1>9, <2>1 DEF SkipAccount, Settled, ledgerVars, historyVars
  <1>10. ASSUME NEW c \in Commands, SumClosing(c) PROVE Settled(a)'
    <2>1. closing[c] \in Accounts /\ command[c] = "transferred"
          /\ command'[c] \in {"failed", "summed"}
          /\ UNCHANGED <<ledgerVars, closing, historyVars>>
      BY <1>0, <1>10 DEF SumClosing, Typed, TypeOK, Shape
    <2>2. \A e \in Commands : found'[e][a] = found[e][a] \/ (e = c /\ a = closing[c])
      <3>1. found' = found \/ \E i : found' = [found EXCEPT ![c][closing[c]] = i]
        BY <1>10 DEF SumClosing
      <3> QED
        BY <1>0, <2>1, <3>1 DEF TypeOK
    <2>3. \A e \in Commands \ {c} : command'[e] = command[e]
      BY <1>0, <1>10 DEF SumClosing, TypeOK
    <2>4. command'[c] = "summed" => found'[c][closing[c]].balance = posted[closing[c]]
      BY <1>0, <1>10, <2>1 DEF SumClosing, TypeOK
    <2>5. Settled(a)
      BY <1>a, <2>1 DEF historyVars
    <2> QED
      BY <2>1, <2>2, <2>3, <2>4, <2>5 DEF Settled, ledgerVars
  <1>11. ASSUME NEW c \in Commands, SaveClosing(c) PROVE Settled(a)'
    <2>1. posted' = posted
      BY <1>11 DEF SaveClosing
    <2>2. /\ command[c] = "summed" /\ command'[c] = "looping" /\ closing'[c] = Nobody
          /\ \A e \in Commands \ {c} : /\ found'[e] = found[e]
                                       /\ closing'[e] = closing[e]
                                       /\ command'[e] = command[e]
      BY <1>11, SaveClosingEffect
    <2>3. CASE a # closing[c]
      <3>1. row'[a] = row[a] /\ a \notin crossed /\ found'[c][a] = found[c][a]
        BY <1>11, <2>3, SaveClosingEffect
      <3> QED
        BY <1>a, <2>1, <2>2, <3>1 DEF Settled
    <2>4. CASE a = closing[c]
      <3>1. a \notin crossed /\ found'[c][a] = NotRead
        BY <1>11, <2>4, SaveClosingEffect
      <3> QED
        BY <1>a, <2>1, <2>2, <2>4, <3>1 DEF Settled
    <2> QED
      BY <2>3, <2>4
  <1>12. ASSUME NEW c \in Commands, Finish(c) \/ Die(c) PROVE Settled(a)'
    BY <1>0, <1>a, <1>12 DEF Finish, Die, Settled, ledgerVars, historyVars, TypeOK
  <1>13. CASE AllDone \/ UNCHANGED vars
    BY <1>1, <1>13 DEF AllDone, vars
  <1> QED
    BY <1>0, <1>2, <1>3, <1>4, <1>5, <1>6, <1>7, <1>8, <1>9, <1>10, <1>11, <1>12, <1>13
       DEF Next, Request, Admin, Command

\* Nothing is left in an account that was closed and it owes nothing, unless a
\* transfer and the closing overtook each other.
THEOREM ClosedIsZero == Spec => []ClosedHoldsNothing
  <1>1. Init => BalanceAgreed
    BY DEF Init, BalanceAgreed, Settled, Nothing, Working
  <1>2. BalanceAgreed => ClosedHoldsNothing
    BY DEF BalanceAgreed, Settled, ClosedHoldsNothing
  <1>3. /\ Typed /\ Sums /\ StatusAgreed /\ BalanceAgreed /\ [Next]_vars
             => BalanceAgreed'
    BY BalanceStep
  <1> QED
    BY <1>1, <1>2, <1>3, InitSums, SumsStep, InitAgreed, StatusStep, SpecTyped, PTL DEF Spec

=============================================================================
