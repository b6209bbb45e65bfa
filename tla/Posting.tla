------------------------------ MODULE Posting -------------------------------
(***************************************************************************)
(* Concurrent transfers between accounts: facade.transfer and              *)
(* PostingManager.create of oscar_accounts, one database statement at a    *)
(* time.                                                                   *)
(*                                                                         *)
(* A request reads its two accounts with plain SELECTs, verifies the       *)
(* transfer on those in-memory copies, and only then opens the database    *)
(* transaction that inserts the transfer with its two transaction rows and *)
(* saves both accounts.  The INSERTs take InnoDB shared locks on the two   *)
(* account rows (foreign keys), the UPDATEs of Account.save need exclusive *)
(* ones.                                                                   *)
(***************************************************************************)
EXTENDS Integers, Functions

CONSTANTS
    Accounts,      \* rows of the Account table
    Requests,      \* web requests and commands, one transfer each
    Jobs,          \* the transfers requests may ask for
    CreditLimit,   \* Account.credit_limit: how far below zero, or Unlimited
    Unlimited,     \* credit_limit = None
    InitialRow,    \* the Account rows at the start
    NotRead        \* an account the request has not fetched yet

Status == {"Open", "Frozen", "Closed"}
Row == [status : Status, balance : Int]
Job == [source : Accounts, destination : Accounts,
        amount : Int, authorised : BOOLEAN]

ASSUME JobsAssumption == Jobs \subseteq Job
ASSUME RowsAssumption == InitialRow \in [Accounts -> Row]
ASSUME NotReadAssumption == NotRead \notin Row
ASSUME CreditAssumption ==
    /\ Unlimited \notin Int
    /\ CreditLimit \in [Accounts -> Nat \cup {Unlimited}]

VARIABLES
    row,      \* committed Account rows
    posted,   \* per account, the sum of the committed Transaction rows
    job,      \* what each request asks for
    stage,    \* how far each request has come
    copy,     \* the request's Account instances
    shared,   \* account rows the request's transaction has read-locked
    excl      \* account rows the request's transaction has written

vars == <<row, posted, job, stage, copy, shared, excl>>

InTransaction == {"inserted", "source_summed", "source_saved",
                  "destination_summed", "destination_saved"}
Ended == {"posted", "refused", "aborted", "crashed"}
Stage == {"fetching", "verified"} \cup InTransaction \cup Ended

Source(r) == job[r].source
Destination(r) == job[r].destination
Amount(r) == job[r].amount
Parties(r) == {Source(r), Destination(r)}

Init ==
    /\ row = InitialRow
    /\ posted = [a \in Accounts |-> InitialRow[a].balance]
    /\ job \in [Requests -> Jobs]
    /\ stage = [r \in Requests |-> "fetching"]
    /\ copy = [r \in Requests |-> [a \in Accounts |-> NotRead]]
    /\ shared = [r \in Requests |-> {}]
    /\ excl = [r \in Requests |-> {}]

(***************************************************************************)
(* Before the transaction.                                                 *)
(***************************************************************************)

\* Account.objects.get, in whatever order the caller fetches the two parties.
Fetch(r, a) ==
    /\ stage[r] = "fetching"
    /\ a \in Parties(r)
    /\ copy[r][a] = NotRead
    /\ copy' = [copy EXCEPT ![r][a] = row[a]]
    /\ UNCHANGED <<row, posted, job, stage, shared, excl>>

\* Faulty variant: a limit of zero is taken for no limit.
IsDebitPermittedZeroIsNone(a, balance, amount) ==
    \/ CreditLimit[a] \in {0, Unlimited}
    \/ amount <= balance + CreditLimit[a]

IsDebitPermitted(a, balance, amount) ==
    \/ CreditLimit[a] = Unlimited
    \/ amount <= balance + CreditLimit[a]

\* Faulty variant: nobody asks whether the destination is open.
PermittedToAnyone(r) ==
    /\ Source(r) # Destination(r)
    /\ Amount(r) > 0
    /\ copy[r][Source(r)].status = "Open"
    /\ job[r].authorised
    /\ IsDebitPermitted(Source(r), copy[r][Source(r)].balance, Amount(r))

\* facade.transfer's own test and verify_transfer, on the request's copies.
Permitted(r) ==
    /\ Source(r) # Destination(r)
    /\ Amount(r) > 0
    /\ copy[r][Source(r)].status = "Open"
    /\ job[r].authorised
    /\ copy[r][Destination(r)].status = "Open"
    /\ IsDebitPermitted(Source(r), copy[r][Source(r)].balance, Amount(r))

VerifyTransfer(r) ==
    /\ stage[r] = "fetching"
    /\ \A a \in Parties(r) : copy[r][a] # NotRead
    /\ stage' = [stage EXCEPT ![r] = IF Permitted(r) THEN "verified"
                                                     ELSE "refused"]
    /\ UNCHANGED <<row, posted, job, copy, shared, excl>>

(***************************************************************************)
(* Inside the transaction.                                                 *)
(***************************************************************************)

NotWritten(r, a) == \A q \in Requests \ {r} : a \notin excl[q]
NotLocked(r, a) == \A q \in Requests \ {r} : a \notin shared[q] \cup excl[q]

\* INSERT of the transfer and of the two transactions: the foreign keys lock
\* both account rows against writers.
InsertTransfer(r) ==
    /\ stage[r] = "verified"
    /\ \A a \in Parties(r) : NotWritten(r, a)
    /\ shared' = [shared EXCEPT ![r] = Parties(r)]
    /\ stage' = [stage EXCEPT ![r] = "inserted"]
    /\ UNCHANGED <<row, posted, job, copy, excl>>

\* Faulty variants: the in-memory balance is adjusted instead of recomputed;
\* an aggregate over no rows is stored as it comes.
SumSourceInMemory(r) ==
    /\ stage[r] = "inserted"
    /\ copy' = [copy EXCEPT ![r][Source(r)].balance = @ - Amount(r)]
    /\ stage' = [stage EXCEPT ![r] = "source_summed"]
    /\ UNCHANGED <<row, posted, job, shared, excl>>

SumSourceOfNothing(r) ==
    /\ stage[r] = "inserted"
    /\ copy' = [copy EXCEPT ![r][Source(r)].balance = NotRead]
    /\ stage' = [stage EXCEPT ![r] = "source_summed"]
    /\ UNCHANGED <<row, posted, job, shared, excl>>

\* Account._balance: the committed rows and the one this transaction inserted.
SumSource(r) ==
    /\ stage[r] = "inserted"
    /\ copy' = [copy EXCEPT ![r][Source(r)].balance =
                                posted[Source(r)] - Amount(r)]
    /\ stage' = [stage EXCEPT ![r] = "source_summed"]
    /\ UNCHANGED <<row, posted, job, shared, excl>>

UpdateSource(r) ==
    /\ stage[r] = "source_summed"
    /\ NotLocked(r, Source(r))
    /\ excl' = [excl EXCEPT ![r] = @ \cup {Source(r)}]
    /\ stage' = [stage EXCEPT ![r] = "source_saved"]
    /\ UNCHANGED <<row, posted, job, copy, shared>>

SumDestination(r) ==
    /\ stage[r] = "source_saved"
    /\ copy' = [copy EXCEPT ![r][Destination(r)].balance =
                                posted[Destination(r)] + Amount(r)]
    /\ stage' = [stage EXCEPT ![r] = "destination_summed"]
    /\ UNCHANGED <<row, posted, job, shared, excl>>

UpdateDestination(r) ==
    /\ stage[r] = "destination_summed"
    /\ NotLocked(r, Destination(r))
    /\ excl' = [excl EXCEPT ![r] = @ \cup {Destination(r)}]
    /\ stage' = [stage EXCEPT ![r] = "destination_saved"]
    /\ UNCHANGED <<row, posted, job, copy, shared>>

\* Faulty variant: the credit is never inserted.
CommitDebitOnly(r) ==
    /\ stage[r] = "destination_saved"
    /\ row' = [row EXCEPT ![Source(r)] = copy[r][Source(r)]]
    /\ posted' = [posted EXCEPT ![Source(r)] = @ - Amount(r)]
    /\ stage' = [stage EXCEPT ![r] = "posted"]
    /\ shared' = [shared EXCEPT ![r] = {}]
    /\ excl' = [excl EXCEPT ![r] = {}]
    /\ UNCHANGED <<job, copy>>

\* COMMIT: both saves write every column of the copies, the status included.
Commit(r) ==
    /\ stage[r] = "destination_saved"
    /\ row' = [row EXCEPT ![Source(r)] = copy[r][Source(r)],
                          ![Destination(r)] = copy[r][Destination(r)]]
    /\ posted' = [posted EXCEPT ![Source(r)] = @ - Amount(r),
                                ![Destination(r)] = @ + Amount(r)]
    /\ stage' = [stage EXCEPT ![r] = "posted"]
    /\ shared' = [shared EXCEPT ![r] = {}]
    /\ excl' = [excl EXCEPT ![r] = {}]
    /\ UNCHANGED <<job, copy>>

\* Faulty variant: without transaction.atomic the INSERTs stay.
RollbackNothing(r, outcome) ==
    /\ posted' = IF stage[r] \notin InTransaction THEN posted
                 ELSE [posted EXCEPT ![Source(r)] = @ - Amount(r),
                                     ![Destination(r)] = @ + Amount(r)]
    /\ stage' = [stage EXCEPT ![r] = outcome]
    /\ shared' = [shared EXCEPT ![r] = {}]
    /\ excl' = [excl EXCEPT ![r] = {}]
    /\ UNCHANGED <<row, job, copy>>

Rollback(r, outcome) ==
    /\ stage' = [stage EXCEPT ![r] = outcome]
    /\ shared' = [shared EXCEPT ![r] = {}]
    /\ excl' = [excl EXCEPT ![r] = {}]
    /\ UNCHANGED <<row, posted, job, copy>>

\* Faulty variant: nobody notices a deadlock between two UPDATEs.
WaitingForInserts(r) ==
    stage[r] = "verified" /\ \E a \in Parties(r) : ~NotWritten(r, a)

Waiting(r) ==
    \/ stage[r] = "verified" /\ \E a \in Parties(r) : ~NotWritten(r, a)
    \/ stage[r] = "source_summed" /\ ~NotLocked(r, Source(r))
    \/ stage[r] = "destination_summed" /\ ~NotLocked(r, Destination(r))

\* Faulty variant: transactions are aborted that wait for nobody.
LockWaitAbortOfAnyone(r) == stage[r] \in InTransaction /\ Rollback(r, "aborted")

\* InnoDB breaks a deadlock, or ends a lock wait that takes too long, by an
\* error that rolls the transaction back; facade.transfer reports it.
LockWaitAbort(r) == Waiting(r) /\ Rollback(r, "aborted")

\* Any other error in the block, or the death of the process, at any statement.
Crash(r) ==
    /\ stage[r] \in {"fetching", "verified"} \cup InTransaction
    /\ Rollback(r, "crashed")

Step(r) ==
    \/ \E a \in Accounts : Fetch(r, a)
    \/ VerifyTransfer(r)
    \/ InsertTransfer(r)
    \/ SumSource(r)
    \/ UpdateSource(r)
    \/ SumDestination(r)
    \/ UpdateDestination(r)
    \/ Commit(r)

\* Every request has been answered.
Idle == (\A r \in Requests : stage[r] \in Ended) /\ UNCHANGED vars

Next ==
    \/ \E r \in Requests : Step(r) \/ LockWaitAbort(r) \/ Crash(r)
    \/ Idle

Fairness == \A r \in Requests : WF_vars(Step(r)) /\ WF_vars(LockWaitAbort(r))

Spec == Init /\ [][Next]_vars
FairSpec == Spec /\ Fairness

(***************************************************************************)
(* Properties.                                                             *)
(***************************************************************************)

TypeOK ==
    /\ row \in [Accounts -> Row]
    /\ posted \in [Accounts -> Int]
    /\ job \in [Requests -> Jobs]
    /\ stage \in [Requests -> Stage]
    /\ copy \in [Requests -> [Accounts -> Row \cup {NotRead}]]
    /\ shared \in [Requests -> SUBSET Accounts]
    /\ excl \in [Requests -> SUBSET Accounts]

\* The cached balance is the sum of the account's transactions, whichever
\* transfers overlap, abort or crash: Account.save recomputes it, and the locks
\* the INSERTs took keep the sum valid until the UPDATE is committed.
CachedBalance == \A a \in Accounts : row[a].balance = posted[a]

\* No two requests hold a row if one of them has written it.
WritersAreAlone ==
    \A r, q \in Requests :
        r # q => excl[r] \cap (shared[q] \cup excl[q]) = {}

\* An account within its limit at the start that nobody but r debits.
SoleDebitor(r, a) ==
    /\ CreditLimit[a] # Unlimited
    /\ InitialRow[a].balance >= -CreditLimit[a]
    /\ \A q \in Requests \ {r} : Source(q) # a

\* An account that only one request debits stays within its credit limit,
\* whatever credits, aborts and crashes happen around it.
SoleDebitorStaysInCredit ==
    \A a \in Accounts, r \in Requests :
        SoleDebitor(r, a) => posted[a] >= -CreditLimit[a]

\* No transfer ever touches an account that is frozen or closed.
OnlyOpenAccountsMove ==
    \A a \in Accounts :
        InitialRow[a].status # "Open" =>
            row[a] = InitialRow[a] /\ posted[a] = InitialRow[a].balance

\* The default credit limit "means the account cannot run a negative balance".
NoOverdraft ==
    \A a \in Accounts :
        CreditLimit[a] # Unlimited => posted[a] >= -CreditLimit[a]

\* The ledger is what the requests that report success add up to: one that
\* was refused, aborted or crashed leaves no trace, one that ended well is
\* there once.
Posted == {r \in Requests : stage[r] = "posted"}
Moved(r, a) ==
    IF a = Source(r) THEN -Amount(r)
    ELSE IF a = Destination(r) THEN Amount(r) ELSE 0

LedgerMatchesAnswers ==
    \A a \in Accounts :
        posted[a] = InitialRow[a].balance
                  + SumFunctionOnSet([r \in Requests |-> Moved(r, a)], Posted)

\* A lock wait never starves all of the transfers that wait for each other:
\* once one is verified, one is posted (or its process dies).
SomeoneGetsThrough ==
    (\E r \in Requests : stage[r] = "verified")
        ~> (\E r \in Requests : stage[r] \in {"posted", "crashed"})

\* Every request is answered, deadlocks in the database included.
EveryRequestEnds == \A r \in Requests : <>(stage[r] \in Ended)

(***************************************************************************)
(* What CachedBalance and SoleDebitorStaysInCredit rest on.                *)
(***************************************************************************)

\* Who holds which lock follows from the stage alone.
LocksMatchStage ==
    \A r \in Requests :
        /\ shared[r] = IF stage[r] \in InTransaction THEN Parties(r) ELSE {}
        /\ excl[r] = IF stage[r] = "destination_saved" THEN Parties(r)
                     ELSE IF stage[r] \in {"source_saved", "destination_summed"}
                     THEN {Source(r)} ELSE {}

\* A transfer that passed verification still has what was verified.
VerifiedJobs ==
    \A r \in Requests :
        stage[r] \in {"verified"} \cup InTransaction =>
            /\ Source(r) # Destination(r)
            /\ Amount(r) > 0
            /\ \A a \in Parties(r) : copy[r][a] # NotRead

\* A sum read inside the transaction stays true until the transaction ends.
SumsStayTrue ==
    \A r \in Requests :
        /\ stage[r] \in {"source_summed", "source_saved",
                         "destination_summed", "destination_saved"}
             => copy[r][Source(r)].balance = posted[Source(r)] - Amount(r)
        /\ stage[r] \in {"destination_summed", "destination_saved"}
             => copy[r][Destination(r)].balance =
                    posted[Destination(r)] + Amount(r)

Inv ==
    /\ TypeOK
    /\ LocksMatchStage
    /\ WritersAreAlone
    /\ VerifiedJobs
    /\ SumsStayTrue
    /\ CachedBalance

DebitorInv ==
    \A a \in Accounts, r \in Requests :
        SoleDebitor(r, a) =>
            /\ posted[a] >= -CreditLimit[a]
            /\ Source(r) = a =>
                 /\ stage[r] = "fetching" /\ copy[r][a] # NotRead
                      => copy[r][a].balance <= posted[a]
                 /\ stage[r] \in {"verified"} \cup InTransaction
                      => Amount(r) <= posted[a] + CreditLimit[a]

L == INSTANCE Ledger WITH
        Amounts <- {j.amount : j \in Jobs},
        Opening <- [a \in Accounts |-> InitialRow[a].balance]

\* Concurrent transfers look like transfers made one after the other.
LedgerSpec == L!Spec

=============================================================================
