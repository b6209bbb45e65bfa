--------------------------- MODULE PostingProofs ----------------------------
(***************************************************************************)
(* Proofs about Posting, for every set of accounts, requests and jobs.     *)
(***************************************************************************)
EXTENDS Posting, SumProofs, TLAPS

LEMMA JobTypes ==
    ASSUME job \in [Requests -> Jobs], NEW r \in Requests
    PROVE  /\ Source(r) \in Accounts
           /\ Destination(r) \in Accounts
           /\ Amount(r) \in Int
           /\ Parties(r) \subseteq Accounts
<1>1. job[r] \in Job
  BY JobsAssumption
<1>2. QED
  BY <1>1 DEF Job, Source, Destination, Amount, Parties

LEMMA InitInv == Init => Inv
<1> SUFFICES ASSUME Init PROVE Inv
  OBVIOUS
<1>1. TypeOK
  BY RowsAssumption DEF Init, TypeOK, Row, Stage
<1>2. \A r \in Requests : stage[r] = "fetching" /\ shared[r] = {} /\ excl[r] = {}
  BY DEF Init
<1>3. LocksMatchStage
  BY <1>2 DEF LocksMatchStage, InTransaction
<1>4. WritersAreAlone
  BY <1>2 DEF WritersAreAlone
<1>5. VerifiedJobs /\ SumsStayTrue
  BY <1>2 DEF VerifiedJobs, SumsStayTrue, InTransaction
<1>6. CachedBalance
  BY RowsAssumption DEF Init, CachedBalance
<1>7. QED
  BY <1>1, <1>3, <1>4, <1>5, <1>6 DEF Inv

\* Every step is a step of one request, or changes nothing.
LEMMA NextCases ==
    ASSUME [Next]_vars
    PROVE  \/ \E r \in Requests : Step(r) \/ LockWaitAbort(r) \/ Crash(r)
           \/ UNCHANGED vars
BY DEF Next, Idle

\* Every variable keeps its type.
LEMMA TypeStep ==
    ASSUME Inv, [Next]_vars
    PROVE  TypeOK'
<1> USE DEF Inv, TypeOK
<1>1. ASSUME NEW r \in Requests, NEW a \in Accounts, Fetch(r, a) PROVE TypeOK'
  BY <1>1 DEF Fetch
<1>2. ASSUME NEW r \in Requests, VerifyTransfer(r) PROVE TypeOK'
  BY <1>2 DEF VerifyTransfer, Stage, Ended
<1>3. ASSUME NEW r \in Requests, InsertTransfer(r) PROVE TypeOK'
  BY <1>3, JobTypes DEF InsertTransfer, Stage, InTransaction
<1>4. ASSUME NEW r \in Requests, NEW a \in Parties(r), NEW b \in Int,
             stage[r] \in InTransaction
      PROVE  [copy EXCEPT ![r][a].balance = b]
                \in [Requests -> [Accounts -> Row \cup {NotRead}]]
  <2>1. a \in Accounts
    BY JobTypes
  <2>2. copy[r][a] \in Row
    BY <1>4, <2>1 DEF VerifiedJobs
  <2>3. [copy[r][a] EXCEPT !.balance = b] \in Row
    BY <2>2 DEF Row
  <2>4. QED
    BY <2>1, <2>3
<1>5. ASSUME NEW r \in Requests, SumSource(r) PROVE TypeOK'
  <2>1. Source(r) \in Parties(r) /\ posted[Source(r)] - Amount(r) \in Int
    BY JobTypes DEF Parties
  <2>2. copy' \in [Requests -> [Accounts -> Row \cup {NotRead}]]
    BY <1>5, <1>4, <2>1 DEF SumSource, InTransaction
  <2>3. QED
    BY <1>5, <2>2 DEF SumSource, Stage, InTransaction
<1>6. ASSUME NEW r \in Requests, SumDestination(r) PROVE TypeOK'
  <2>1. Destination(r) \in Parties(r) /\ posted[Destination(r)] + Amount(r) \in Int
    BY JobTypes DEF Parties
  <2>2. copy' \in [Requests -> [Accounts -> Row \cup {NotRead}]]
    BY <1>6, <1>4, <2>1 DEF SumDestination, InTransaction
  <2>3. QED
    BY <1>6, <2>2 DEF SumDestination, Stage, InTransaction
<1>7. ASSUME NEW r \in Requests, UpdateSource(r) PROVE TypeOK'
  BY <1>7, JobTypes DEF UpdateSource, Stage, InTransaction
<1>8. ASSUME NEW r \in Requests, UpdateDestination(r) PROVE TypeOK'
  BY <1>8, JobTypes DEF UpdateDestination, Stage, InTransaction
<1>9. ASSUME NEW r \in Requests, Commit(r) PROVE TypeOK'
  <2>1. /\ copy[r][Source(r)] \in Row
        /\ copy[r][Destination(r)] \in Row
    BY <1>9, JobTypes DEF Commit, VerifiedJobs, InTransaction, Parties
  <2>2. row' \in [Accounts -> Row]
    BY <1>9, <2>1 DEF Commit
  <2>3. posted' \in [Accounts -> Int]
    BY <1>9, JobTypes DEF Commit
  <2>4. QED
    BY <1>9, <2>2, <2>3 DEF Commit, Stage, Ended
<1>10. ASSUME NEW r \in Requests, LockWaitAbort(r) \/ Crash(r) PROVE TypeOK'
  BY <1>10 DEF LockWaitAbort, Crash, Rollback, Stage, Ended
<1>11. ASSUME UNCHANGED vars PROVE TypeOK'
  BY <1>11 DEF vars
<1>12. QED
  BY <1>1, <1>2, <1>3, <1>5, <1>6, <1>7, <1>8, <1>9, <1>10, <1>11, NextCases
     DEF Step

\* job never changes, so neither do the operators that only read it.
LEMMA JobsAreFixed ==
    ASSUME TypeOK, [Next]_vars
    PROVE  /\ job' = job
           /\ \A r \in Requests : /\ Source(r)' = Source(r)
                                  /\ Destination(r)' = Destination(r)
                                  /\ Amount(r)' = Amount(r)
                                  /\ Parties(r)' = Parties(r)
<1>1. job' = job
  <2>1. ASSUME NEW r \in Requests, Step(r) PROVE job' = job
    BY <2>1 DEF Step, Fetch, VerifyTransfer, InsertTransfer, SumSource,
                UpdateSource, SumDestination, UpdateDestination, Commit
  <2>2. ASSUME NEW r \in Requests, LockWaitAbort(r) \/ Crash(r) PROVE job' = job
    BY <2>2 DEF LockWaitAbort, Crash, Rollback
  <2>3. QED
    BY <2>1, <2>2, NextCases DEF vars
<1>2. QED
  BY <1>1 DEF Source, Destination, Amount, Parties

\* Locks are taken and dropped with the stage that says so.
LEMMA LocksStep ==
    ASSUME Inv, [Next]_vars
    PROVE  LocksMatchStage'
<1> USE DEF Inv, TypeOK
<1>1. ASSUME NEW r \in Requests, Step(r) PROVE LocksMatchStage'
  <2> USE JobsAreFixed DEF LocksMatchStage, InTransaction
  <2>1. CASE \E a \in Accounts : Fetch(r, a)
    BY <2>1 DEF Fetch
  <2>2. CASE VerifyTransfer(r)
    BY <2>2 DEF VerifyTransfer
  <2>3. CASE InsertTransfer(r)
    BY <2>3 DEF InsertTransfer
  <2>4. CASE SumSource(r)
    BY <2>4 DEF SumSource
  <2>5. CASE UpdateSource(r)
    BY <2>5 DEF UpdateSource
  <2>6. CASE SumDestination(r)
    BY <2>6 DEF SumDestination
  <2>7. CASE UpdateDestination(r)
    BY <2>7 DEF UpdateDestination, Parties
  <2>8. CASE Commit(r)
    BY <2>8 DEF Commit
  <2>9. QED
    BY <1>1, <2>1, <2>2, <2>3, <2>4, <2>5, <2>6, <2>7, <2>8 DEF Step
<1>2. ASSUME NEW r \in Requests, LockWaitAbort(r) \/ Crash(r)
      PROVE  LocksMatchStage'
  BY <1>2, JobsAreFixed
     DEF LockWaitAbort, Crash, Rollback, LocksMatchStage, InTransaction
<1>3. ASSUME UNCHANGED vars PROVE LocksMatchStage'
  BY <1>3 DEF vars, LocksMatchStage, Parties, Source, Destination
<1>4. QED
  BY <1>1, <1>2, <1>3, NextCases

\* A row is written only when nobody else holds it, and read-locked for an
\* INSERT only when nobody else has written it.
LEMMA WritersStep ==
    ASSUME Inv, [Next]_vars
    PROVE  WritersAreAlone'
<1> USE DEF Inv, TypeOK, WritersAreAlone
<1>1. ASSUME NEW r \in Requests, Step(r) PROVE WritersAreAlone'
  <2>1. CASE \E a \in Accounts : Fetch(r, a)
    BY <2>1 DEF Fetch
  <2>2. CASE VerifyTransfer(r)
    BY <2>2 DEF VerifyTransfer
  <2>3. CASE InsertTransfer(r)
    BY <2>3 DEF InsertTransfer, NotWritten, LocksMatchStage, InTransaction
  <2>4. CASE SumSource(r)
    BY <2>4 DEF SumSource
  <2>5. CASE UpdateSource(r)
    BY <2>5 DEF UpdateSource, NotLocked, LocksMatchStage, InTransaction, Parties
  <2>6. CASE SumDestination(r)
    BY <2>6 DEF SumDestination
  <2>7. CASE UpdateDestination(r)
    BY <2>7 DEF UpdateDestination, NotLocked, LocksMatchStage, InTransaction, Parties
  <2>8. CASE Commit(r)
    BY <2>8 DEF Commit
  <2>9. QED
    BY <1>1, <2>1, <2>2, <2>3, <2>4, <2>5, <2>6, <2>7, <2>8 DEF Step
<1>2. ASSUME NEW r \in Requests, LockWaitAbort(r) \/ Crash(r)
      PROVE  WritersAreAlone'
  BY <1>2 DEF LockWaitAbort, Crash, Rollback
<1>3. ASSUME UNCHANGED vars PROVE WritersAreAlone'
  BY <1>3 DEF vars
<1>4. QED
  BY <1>1, <1>2, <1>3, NextCases

\* What verification established stays true of the request.
LEMMA VerifiedStep ==
    ASSUME Inv, [Next]_vars
    PROVE  VerifiedJobs'
<1> USE DEF Inv, TypeOK
<1>1. ASSUME NEW r \in Requests, Step(r) PROVE VerifiedJobs'
  <2> USE JobsAreFixed, JobTypes DEF VerifiedJobs, InTransaction
  <2>1. CASE \E a \in Accounts : Fetch(r, a)
    BY <2>1, NotReadAssumption DEF Fetch
  <2>2. CASE VerifyTransfer(r)
    BY <2>2 DEF VerifyTransfer, Permitted, Parties
  <2>3. CASE InsertTransfer(r)
    BY <2>3 DEF InsertTransfer
  <2>4. CASE SumSource(r)
    <3>1. [copy[r][Source(r)] EXCEPT !.balance =
              posted[Source(r)] - Amount(r)] # NotRead
      <4>1. copy[r][Source(r)] \in Row
        BY <2>4 DEF SumSource, Parties
      <4>2. QED
        BY <4>1, NotReadAssumption DEF Row
    <3>2. \A q \in Requests, a \in Accounts :
             copy[q][a] # NotRead => copy'[q][a] # NotRead
      BY <2>4, <3>1 DEF SumSource
    <3>3. QED
      BY <2>4, <3>2 DEF SumSource
  <2>5. CASE UpdateSource(r)
    BY <2>5 DEF UpdateSource
  <2>6. CASE SumDestination(r)
    <3>1. [copy[r][Destination(r)] EXCEPT !.balance =
              posted[Destination(r)] + Amount(r)] # NotRead
      <4>1. copy[r][Destination(r)] \in Row
        BY <2>6 DEF SumDestination, Parties
      <4>2. QED
        BY <4>1, NotReadAssumption DEF Row
    <3>2. \A q \in Requests, a \in Accounts :
             copy[q][a] # NotRead => copy'[q][a] # NotRead
      BY <2>6, <3>1 DEF SumDestination
    <3>3. QED
      BY <2>6, <3>2 DEF SumDestination
  <2>7. CASE UpdateDestination(r)
    BY <2>7 DEF UpdateDestination
  <2>8. CASE Commit(r)
    BY <2>8 DEF Commit
  <2>9. QED
    BY <1>1, <2>1, <2>2, <2>3, <2>4, <2>5, <2>6, <2>7, <2>8 DEF Step
<1>2. ASSUME NEW r \in Requests, LockWaitAbort(r) \/ Crash(r)
      PROVE  VerifiedJobs'
  BY <1>2, JobsAreFixed
     DEF LockWaitAbort, Crash, Rollback, VerifiedJobs, InTransaction
<1>3. ASSUME UNCHANGED vars PROVE VerifiedJobs'
  BY <1>3 DEF vars, VerifiedJobs, Parties, Source, Destination, Amount
<1>4. QED
  BY <1>1, <1>2, <1>3, NextCases

\* While a request is in its transaction, nobody else's commit can change the
\* sums of the two accounts it has locked: a commit has written both of its own
\* accounts, so nobody else has them locked.
LEMMA CommitsAreDisjoint ==
    ASSUME Inv, NEW r \in Requests, Commit(r),
           NEW q \in Requests \ {r}, stage[q] \in InTransaction
    PROVE  /\ Parties(q) \cap Parties(r) = {}
           /\ \A a \in Parties(q) : posted'[a] = posted[a]
<1> USE DEF Inv, TypeOK
<1>1. excl[r] = Parties(r) /\ shared[q] = Parties(q)
  BY DEF Commit, LocksMatchStage
<1>2. Parties(q) \cap Parties(r) = {}
  BY <1>1 DEF WritersAreAlone
<1>3. QED
  BY <1>2, JobTypes DEF Commit, Parties

\* Sums read under lock stay true.
LEMMA SumsStep ==
    ASSUME Inv, [Next]_vars
    PROVE  SumsStayTrue'
<1> USE DEF Inv, TypeOK
<1>1. ASSUME NEW r \in Requests, Step(r) PROVE SumsStayTrue'
  <2> USE JobsAreFixed, JobTypes DEF SumsStayTrue, InTransaction
  <2>1. CASE \E a \in Accounts : Fetch(r, a)
    BY <2>1 DEF Fetch
  <2>2. CASE VerifyTransfer(r)
    BY <2>2 DEF VerifyTransfer
  <2>3. CASE InsertTransfer(r)
    BY <2>3 DEF InsertTransfer
  <2>4. CASE SumSource(r)
    <3>1. copy[r][Source(r)] \in Row
      BY <2>4 DEF SumSource, VerifiedJobs, Parties
    <3>2. copy'[r][Source(r)].balance = posted[Source(r)] - Amount(r)
      BY <2>4, <3>1 DEF SumSource, Row
    <3>3. QED
      BY <2>4, <3>2 DEF SumSource
  <2>5. CASE UpdateSource(r)
    BY <2>5 DEF UpdateSource
  <2>6. CASE SumDestination(r)
    <3>1. copy[r][Destination(r)] \in Row /\ Source(r) # Destination(r)
      BY <2>6 DEF SumDestination, VerifiedJobs, Parties
    <3>2. copy'[r][Destination(r)].balance = posted[Destination(r)] + Amount(r)
      BY <2>6, <3>1 DEF SumDestination, Row
    <3>3. copy'[r][Source(r)] = copy[r][Source(r)]
      BY <2>6, <3>1 DEF SumDestination
    <3>4. QED
      BY <2>6, <3>2, <3>3 DEF SumDestination
  <2>7. CASE UpdateDestination(r)
    BY <2>7 DEF UpdateDestination
  <2>8. CASE Commit(r)
    <3>1. ASSUME NEW q \in Requests, q # r, stage[q] \in InTransaction
          PROVE  /\ posted'[Source(q)] = posted[Source(q)]
                 /\ posted'[Destination(q)] = posted[Destination(q)]
      BY <2>8, <3>1, CommitsAreDisjoint DEF Parties
    <3>2. QED
      BY <2>8, <3>1 DEF Commit
  <2>9. QED
    BY <1>1, <2>1, <2>2, <2>3, <2>4, <2>5, <2>6, <2>7, <2>8 DEF Step
<1>2. ASSUME NEW r \in Requests, LockWaitAbort(r) \/ Crash(r)
      PROVE  SumsStayTrue'
  BY <1>2, JobsAreFixed
     DEF LockWaitAbort, Crash, Rollback, SumsStayTrue, InTransaction
<1>3. ASSUME UNCHANGED vars PROVE SumsStayTrue'
  BY <1>3 DEF vars, SumsStayTrue, Source, Destination, Amount
<1>4. QED
  BY <1>1, <1>2, <1>3, NextCases

\* Only a commit changes rows and sums, and it changes both alike.
LEMMA CachedStep ==
    ASSUME Inv, [Next]_vars
    PROVE  CachedBalance'
<1> USE DEF Inv, TypeOK, CachedBalance
<1>1. ASSUME NEW r \in Requests, Commit(r) PROVE CachedBalance'
  <2>1. /\ copy[r][Source(r)].balance = posted[Source(r)] - Amount(r)
        /\ copy[r][Destination(r)].balance = posted[Destination(r)] + Amount(r)
        /\ Source(r) # Destination(r)
    BY <1>1 DEF Commit, SumsStayTrue, VerifiedJobs, InTransaction
  <2>2. QED
    BY <1>1, <2>1, JobTypes DEF Commit
<1>2. ASSUME NEW r \in Requests, Step(r) \/ LockWaitAbort(r) \/ Crash(r),
             ~Commit(r)
      PROVE  UNCHANGED <<row, posted>>
  BY <1>2 DEF Step, Fetch, VerifyTransfer, InsertTransfer, SumSource,
              UpdateSource, SumDestination, UpdateDestination,
              LockWaitAbort, Crash, Rollback
<1>3. QED
  BY <1>1, <1>2, NextCases DEF vars

LEMMA InvStep == Inv /\ [Next]_vars => Inv'
BY TypeStep, LocksStep, WritersStep, VerifiedStep, SumsStep, CachedStep DEF Inv

LEMMA SpecInv == Spec => []Inv
BY InitInv, InvStep, PTL DEF Spec

\* Every variable of the model keeps its type.
THEOREM TypeCorrect == Spec => []TypeOK
<1>1. Inv => TypeOK
  BY DEF Inv
<1>2. QED
  BY <1>1, SpecInv, PTL

\* Account.balance is the sum of the account's committed transactions after any
\* interleaving of transfers, for any number of accounts and requests.
THEOREM BalanceIsCached == Spec => []CachedBalance
<1>1. Inv => CachedBalance
  BY DEF Inv
<1>2. QED
  BY <1>1, SpecInv, PTL

LEMMA CreditTypes ==
    ASSUME NEW a \in Accounts, CreditLimit[a] # Unlimited
    PROVE  CreditLimit[a] \in Nat
BY CreditAssumption

LEMMA InitDebitor == Init => DebitorInv
BY RowsAssumption, CreditTypes
   DEF Init, DebitorInv, SoleDebitor, Row, InTransaction

LEMMA DebitorStep ==
    ASSUME Inv, DebitorInv, [Next]_vars
    PROVE  DebitorInv'
<1> USE DEF Inv, TypeOK
<1> SUFFICES ASSUME NEW a \in Accounts, NEW q \in Requests, SoleDebitor(q, a)
             PROVE  /\ posted'[a] >= -CreditLimit[a]
                    /\ Source(q) = a =>
                        /\ stage'[q] = "fetching" /\ copy'[q][a] # NotRead
                             => copy'[q][a].balance <= posted'[a]
                        /\ stage'[q] \in {"verified"} \cup InTransaction
                             => Amount(q) <= posted'[a] + CreditLimit[a]
  BY JobsAreFixed DEF DebitorInv, SoleDebitor
<1>1. /\ posted[a] >= -CreditLimit[a]
      /\ Source(q) = a =>
           /\ stage[q] = "fetching" /\ copy[q][a] # NotRead
                => copy[q][a].balance <= posted[a]
           /\ stage[q] \in {"verified"} \cup InTransaction
                => Amount(q) <= posted[a] + CreditLimit[a]
  BY DEF DebitorInv
<1>2. /\ CreditLimit[a] \in Nat /\ CreditLimit[a] # Unlimited
      /\ posted[a] \in Int /\ Amount(q) \in Int
  BY CreditTypes, JobTypes DEF SoleDebitor
<1>3. ASSUME NEW r \in Requests, NEW b \in Accounts, Fetch(r, b)
      PROVE  /\ posted' = posted /\ stage' = stage
             /\ copy'[q][a] # copy[q][a] => copy'[q][a].balance = posted[a]
  <2>1. /\ posted' = posted /\ stage' = stage
        /\ copy'[q][a] # copy[q][a] => copy'[q][a] = row[a]
    BY <1>3 DEF Fetch
  <2>2. QED
    BY <2>1 DEF CachedBalance
<1>4. CASE \E r \in Requests, b \in Accounts : Fetch(r, b)
  BY <1>1, <1>2, <1>3, <1>4 DEF InTransaction
<1>5. ASSUME NEW r \in Requests, VerifyTransfer(r)
      PROVE  Source(r) = a /\ r = q /\ stage'[r] = "verified"
               => Amount(r) <= copy[r][a].balance + CreditLimit[a]
                  /\ copy[r][a] # NotRead /\ stage[r] = "fetching"
  BY <1>5, <1>2 DEF VerifyTransfer, Permitted, IsDebitPermitted, Parties
<1>6. CASE \E r \in Requests : VerifyTransfer(r)
  <2>1. PICK r \in Requests : VerifyTransfer(r)
    BY <1>6
  <2>2. posted' = posted /\ copy' = copy
        /\ (q # r => stage'[q] = stage[q])
        /\ stage'[r] \in {"verified", "refused"}
    BY <2>1 DEF VerifyTransfer
  <2>3. CASE q # r
    BY <1>1, <2>2, <2>3
  <2>4. CASE q = r /\ Source(q) = a /\ stage'[q] = "verified"
    <3>1. copy[q][a] \in Row
      BY <1>5, <2>1, <2>4
    <3>2. Amount(q) <= posted[a] + CreditLimit[a]
      BY <1>1, <1>2, <1>5, <2>1, <2>4, <3>1 DEF Row
    <3>3. QED
      BY <1>1, <2>2, <2>4, <3>2
  <2>5. CASE q = r /\ (Source(q) # a \/ stage'[q] = "refused")
    BY <1>1, <2>2, <2>5 DEF InTransaction
  <2>6. QED
    BY <2>2, <2>3, <2>4, <2>5
<1>7. ASSUME NEW r \in Requests,
             \/ InsertTransfer(r) \/ SumSource(r) \/ UpdateSource(r)
             \/ SumDestination(r) \/ UpdateDestination(r)
             \/ LockWaitAbort(r) \/ Crash(r)
      PROVE  /\ posted' = posted
             /\ stage'[q] = "fetching" => stage[q] = "fetching"
             /\ stage'[q] \in {"verified"} \cup InTransaction
                  => stage[q] \in {"verified"} \cup InTransaction
             /\ stage[q] = "fetching" => copy'[q] = copy[q]
  BY <1>7 DEF InsertTransfer, SumSource, UpdateSource, SumDestination,
              UpdateDestination, LockWaitAbort, Crash, Rollback, InTransaction
<1>8. CASE \E r \in Requests :
             \/ InsertTransfer(r) \/ SumSource(r) \/ UpdateSource(r)
             \/ SumDestination(r) \/ UpdateDestination(r)
             \/ LockWaitAbort(r) \/ Crash(r)
  BY <1>1, <1>7, <1>8
<1>9. CASE \E r \in Requests : Commit(r)
  <2>1. PICK r \in Requests : Commit(r)
    BY <1>9
  <2>2. /\ Source(r) # Destination(r) /\ Amount(r) > 0 /\ Amount(r) \in Int
        /\ stage[r] \in InTransaction
    BY <2>1, JobTypes DEF Commit, VerifiedJobs, InTransaction
  <2>3. copy' = copy /\ (q # r => stage'[q] = stage[q]) /\ stage'[r] = "posted"
    BY <2>1 DEF Commit
  <2>4. CASE r # q
    <3>1. Source(r) # a
      BY <2>4 DEF SoleDebitor
    <3>2. posted'[a] \in Int /\ posted'[a] >= posted[a]
      BY <1>2, <2>1, <2>2, <3>1, JobTypes DEF Commit
    <3>3. copy[q][a] # NotRead => copy[q][a].balance \in Int
      BY DEF Row
    <3>4. QED
      BY <1>1, <1>2, <2>3, <2>4, <3>2, <3>3
  <2>5. CASE r = q /\ Source(q) = a
    <3>1. posted'[a] = posted[a] - Amount(q)
      BY <2>1, <2>2, <2>5, JobTypes DEF Commit
    <3>2. QED
      BY <1>1, <1>2, <2>2, <2>3, <2>5, <3>1 DEF InTransaction
  <2>6. CASE r = q /\ Source(q) # a
    <3>1. posted'[a] \in Int /\ posted'[a] >= posted[a]
      BY <1>2, <2>1, <2>2, <2>6, JobTypes DEF Commit
    <3>2. QED
      BY <1>1, <1>2, <2>3, <2>6, <3>1
  <2>7. QED
    BY <2>4, <2>5, <2>6
<1>10. CASE UNCHANGED vars
  BY <1>1, <1>10 DEF vars
<1>11. QED
  BY <1>4, <1>6, <1>8, <1>9, <1>10, NextCases DEF Step

\* An account that only one request debits never goes below its credit limit,
\* whatever the other requests do.
THEOREM SoleDebitorIsSafe == Spec => []SoleDebitorStaysInCredit
<1>1. Spec => []DebitorInv
  BY InitDebitor, DebitorStep, SpecInv, PTL DEF Spec
<1>2. DebitorInv => SoleDebitorStaysInCredit
  BY DEF DebitorInv, SoleDebitorStaysInCredit
<1>3. QED
  BY <1>1, <1>2, PTL

\* Posting implements Ledger: each step leaves the ledger alone or is one whole
\* transfer.
THEOREM PostingImplementsLedger == Spec => LedgerSpec
<1>1. Init => L!Init
  BY DEF Init, L!Init
<1>2. ASSUME Inv, [Next]_vars PROVE [L!Next]_posted
  <2>1. ASSUME NEW r \in Requests, Commit(r) PROVE L!Next
    <3>1. L!Post(Source(r), Destination(r), Amount(r))
      BY <1>2, <2>1 DEF Commit, L!Post, Inv, VerifiedJobs, InTransaction
    <3>2. Amount(r) \in {j.amount : j \in Jobs}
      BY <1>2 DEF Inv, TypeOK, Amount
    <3>3. posted'[Destination(r)] - posted[Destination(r)] = Amount(r)
      BY <1>2, <3>1, JobTypes DEF L!Post, Inv, TypeOK
    <3>4. PICK s \in Accounts, d \in Accounts : s = Source(r) /\ d = Destination(r)
      BY <1>2, JobTypes DEF Inv, TypeOK
    <3>5. LET amount == posted'[d] - posted[d]
          IN  amount \in {j.amount : j \in Jobs} /\ L!Post(s, d, amount)
      BY <3>1, <3>2, <3>3, <3>4
    <3>6. QED
      BY <3>5 DEF L!Next
  <2>2. ASSUME NEW r \in Requests, Step(r) \/ LockWaitAbort(r) \/ Crash(r),
               ~Commit(r)
        PROVE  UNCHANGED posted
    BY <2>2 DEF Step, Fetch, VerifyTransfer, InsertTransfer, SumSource,
                UpdateSource, SumDestination, UpdateDestination,
                LockWaitAbort, Crash, Rollback
  <2>3. QED
    BY <1>2, <2>1, <2>2, NextCases DEF vars
<1>3. QED
  BY <1>1, <1>2, SpecInv, PTL DEF Spec, LedgerSpec, L!Spec

(***************************************************************************)
(* Accounts that are not open.                                             *)
(***************************************************************************)

\* An account that was not open at the start is as it was, so is every copy of
\* it, and no request with such a party has passed verification.
DormantInv ==
    \A a \in Accounts :
        InitialRow[a].status # "Open" =>
            /\ row[a] = InitialRow[a]
            /\ posted[a] = InitialRow[a].balance
            /\ \A r \in Requests :
                 a \in Parties(r) =>
                     /\ stage[r] = "fetching"
                          => copy[r][a] \in {NotRead, InitialRow[a]}
                     /\ stage[r] \notin {"verified"} \cup InTransaction

LEMMA InitDormant == Init => DormantInv
BY DEF Init, DormantInv, InTransaction

\* A commit writes the rows of its own parties, none of which is dormant.
LEMMA CommitSparesDormant ==
    ASSUME Inv, DormantInv, NEW r \in Requests, Commit(r),
           NEW a \in Accounts, InitialRow[a].status # "Open"
    PROVE  row'[a] = row[a] /\ posted'[a] = posted[a]
<1>1. a # Source(r) /\ a # Destination(r)
  BY DEF Commit, DormantInv, InTransaction, Parties
<1>2. QED
  BY <1>1 DEF Commit, Inv, TypeOK

LEMMA DormantStep ==
    ASSUME Inv, DormantInv, [Next]_vars
    PROVE  DormantInv'
<1> SUFFICES ASSUME NEW a \in Accounts, InitialRow[a].status # "Open"
             PROVE  /\ row'[a] = InitialRow[a]
                    /\ posted'[a] = InitialRow[a].balance
                    /\ \A r \in Requests :
                         a \in Parties(r) =>
                             /\ stage'[r] = "fetching"
                                  => copy'[r][a] \in {NotRead, InitialRow[a]}
                             /\ stage'[r] \notin {"verified"} \cup InTransaction
  BY JobsAreFixed DEF DormantInv, Inv
<1> DEFINE Still == row'[a] = row[a] /\ posted'[a] = posted[a]
           Kept(q) == a \in Parties(q) =>
                        /\ stage'[q] = "fetching"
                             => copy'[q][a] \in {NotRead, InitialRow[a]}
                        /\ stage'[q] \notin {"verified"} \cup InTransaction
<1> USE DEF Inv, TypeOK
<1>1. ASSUME NEW r \in Requests, Step(r) \/ LockWaitAbort(r) \/ Crash(r)
      PROVE  Still /\ Kept(r)
             /\ \A q \in Requests \ {r} : stage'[q] = stage[q] /\ copy'[q] = copy[q]
  <2>1. ASSUME NEW b \in Accounts, Fetch(r, b) PROVE Kept(r)
    BY <2>1 DEF Fetch, DormantInv, InTransaction
  <2>2. ASSUME VerifyTransfer(r) PROVE Kept(r)
    <3>1. a \in Parties(r) => copy[r][a].status # "Open"
      BY <2>2 DEF VerifyTransfer, DormantInv
    <3>2. a \in Parties(r) => ~Permitted(r)
      BY <3>1 DEF Permitted, Parties
    <3>3. QED
      BY <2>2, <3>2 DEF VerifyTransfer, InTransaction
  <2>3. ASSUME \/ InsertTransfer(r) \/ SumSource(r) \/ UpdateSource(r)
               \/ SumDestination(r) \/ UpdateDestination(r) \/ Commit(r)
        PROVE  Kept(r)
    <3>1. a \notin Parties(r)
      BY <2>3 DEF InsertTransfer, SumSource, UpdateSource, SumDestination,
                  UpdateDestination, Commit, DormantInv, InTransaction
    <3>2. QED
      BY <3>1
  <2>4. ASSUME LockWaitAbort(r) \/ Crash(r) PROVE Kept(r)
    BY <2>4 DEF LockWaitAbort, Crash, Rollback, InTransaction
  <2>5. Kept(r)
    BY <1>1, <2>1, <2>2, <2>3, <2>4 DEF Step
  <2>6. Still
    BY <1>1, CommitSparesDormant
       DEF Step, Fetch, VerifyTransfer, InsertTransfer, SumSource,
           UpdateSource, SumDestination, UpdateDestination,
           LockWaitAbort, Crash, Rollback
  <2>7. \A q \in Requests \ {r} : stage'[q] = stage[q] /\ copy'[q] = copy[q]
    BY <1>1 DEF Step, Fetch, VerifyTransfer, InsertTransfer, SumSource,
                UpdateSource, SumDestination, UpdateDestination, Commit,
                LockWaitAbort, Crash, Rollback
  <2>8. QED
    BY <2>5, <2>6, <2>7
<1>2. CASE UNCHANGED vars
  BY <1>2 DEF vars, DormantInv
<1>3. QED
  BY <1>1, <1>2, NextCases DEF DormantInv

\* OnlyOpenAccountsMove: whatever is verified on whichever copies, no transfer
\* is posted to or from an account that is frozen or closed.
THEOREM OnlyOpenMove == Spec => []OnlyOpenAccountsMove
<1>1. Spec => []DormantInv
  BY InitDormant, DormantStep, SpecInv, PTL DEF Spec
<1>2. DormantInv => OnlyOpenAccountsMove
  BY DEF DormantInv, OnlyOpenAccountsMove
<1>3. QED
  BY <1>1, <1>2, PTL

(***************************************************************************)
(* The answers.                                                            *)
(***************************************************************************)

\* Only finitely many requests have been answered, so that there is a sum.
AnsweredInv == IsFiniteSet(Posted) /\ LedgerMatchesAnswers

LEMMA InitAnswered == Init => AnsweredInv
<1> SUFFICES ASSUME Init PROVE AnsweredInv
  OBVIOUS
<1>1. Posted = {}
  BY DEF Init, Posted
<1>2. \A a \in Accounts : posted[a] = InitialRow[a].balance /\ posted[a] \in Int
  BY RowsAssumption DEF Init, Row
<1> QED
  BY <1>1, <1>2, FS_EmptySet, SumOfNothing DEF AnsweredInv, LedgerMatchesAnswers

\* A request that posts is added to those that have, and moves what it says.
LEMMA CommitAnswers ==
    ASSUME Inv, AnsweredInv, NEW r \in Requests, Commit(r)
    PROVE  AnsweredInv'
<1> USE DEF Inv, TypeOK
<1>1. job' = job /\ r \notin Posted /\ Posted' = Posted \cup {r}
  BY DEF Commit, Posted
<1>2. IsFiniteSet(Posted')
  BY <1>1, FS_AddElement DEF AnsweredInv
<1>3. ASSUME NEW a \in Accounts
      PROVE  posted'[a] = InitialRow[a].balance
               + SumFunctionOnSet([q \in Requests |-> Moved(q, a)'], Posted')
  <2> DEFINE f == [q \in Requests |-> Moved(q, a)]
  <2>1. \A q \in Requests : f[q] \in Int /\ f[q] = Moved(q, a)
    BY JobTypes DEF Moved
  <2>2. f = [q \in Requests |-> Moved(q, a)']
    BY <1>1 DEF Moved, Source, Destination, Amount
  <2>3. posted'[a] = posted[a] + f[r]
    <3>1. Source(r) # Destination(r)
      BY DEF Commit, VerifiedJobs, InTransaction
    <3> QED
      BY <3>1, JobTypes DEF Commit, Moved
  <2>4. posted[a] = InitialRow[a].balance + SumFunctionOnSet(f, Posted)
    BY DEF AnsweredInv, LedgerMatchesAnswers
  <2> HIDE DEF f
  <2>5. \A q \in Posted : f[q] \in Int
    BY <2>1 DEF Posted
  <2>6. SumFunctionOnSet(f, Posted \cup {r}) = f[r] + SumFunctionOnSet(f, Posted)
    BY <1>1, <2>1, <2>5, SumWithMore DEF AnsweredInv
  <2>7. SumFunctionOnSet(f, Posted) \in Int /\ InitialRow[a].balance \in Int
    BY <2>5, SumIsInt, RowsAssumption DEF AnsweredInv, Row
  <2>8. posted'[a] = InitialRow[a].balance + SumFunctionOnSet(f, Posted')
    BY <1>1, <2>1, <2>3, <2>4, <2>6, <2>7
  <2> QED
    BY <2>2, <2>8
<1> QED
  BY <1>2, <1>3 DEF AnsweredInv, LedgerMatchesAnswers

\* Nobody else touches the ledger, or what a request that has posted did.
LEMMA OthersAnswerNothing ==
    ASSUME Inv, AnsweredInv, UNCHANGED <<posted, job>>, Posted' = Posted
    PROVE  AnsweredInv'
BY DEF AnsweredInv, LedgerMatchesAnswers, Moved, Source, Destination, Amount

LEMMA AnsweredStep ==
    ASSUME Inv, AnsweredInv, [Next]_vars
    PROVE  AnsweredInv'
<1>1. ASSUME NEW r \in Requests, Step(r) \/ LockWaitAbort(r) \/ Crash(r),
             ~Commit(r)
      PROVE  UNCHANGED <<posted, job>> /\ Posted' = Posted
  BY <1>1 DEF Step, Fetch, VerifyTransfer, InsertTransfer, SumSource,
              UpdateSource, SumDestination, UpdateDestination, LockWaitAbort,
              Waiting, Crash, Rollback, Posted, InTransaction, Inv, TypeOK
<1>2. ASSUME UNCHANGED vars
      PROVE  UNCHANGED <<posted, job>> /\ Posted' = Posted
  BY <1>2 DEF vars, Posted
<1> QED
  BY <1>1, <1>2, NextCases, CommitAnswers, OthersAnswerNothing

\* LedgerMatchesAnswers: the committed transactions of an account are those of
\* the requests that were told so, each of them once, whatever was refused,
\* aborted or crashed meanwhile.
THEOREM AnswersAreTrue == Spec => []LedgerMatchesAnswers
<1>1. Spec => []AnsweredInv
  BY InitAnswered, AnsweredStep, SpecInv, PTL DEF Spec
<1>2. AnsweredInv => LedgerMatchesAnswers
  BY DEF AnsweredInv
<1> QED
  BY <1>1, <1>2, PTL

=============================================================================
