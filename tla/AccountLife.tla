---------------------------- MODULE AccountLife -----------------------------
(***************************************************************************)
(* The status of an account: freezing, thawing and editing it in the       *)
(* dashboard, the command that closes expired accounts, and the transfers  *)
(* made meanwhile.                                                         *)
(*                                                                         *)
(* A transfer is one step from verification to COMMIT here: Posting shows  *)
(* that the row locks allow no other writer in between.  Saves outside a   *)
(* transfer take no lock until their UPDATE: Account.save first reads      *)
(* SUM(transactions), and whatever commits before the UPDATE is not in it. *)
(***************************************************************************)
EXTENDS Integers

CONSTANTS
    Accounts,    \* rows of the Account table
    Lapsed,      \* where the command transfers what expired accounts have
    Expired,     \* accounts whose end_date has passed
    CreditLimit, \* Account.credit_limit, or Unlimited
    Unlimited,   \* credit_limit = None
    InitialRow,  \* the Account rows at the start
    Requests,    \* transfers asked for: redemptions, top-ups, withdrawals
    Jobs,        \* what they may be
    Admins,      \* saves of an account by the dashboard
    Changes,     \* what they may change
    Commands,    \* runs of close_expired_accounts
    NotRead,     \* no instance loaded
    Nobody       \* the command works on no account

Status == {"Open", "Frozen", "Closed"}
Row == [status : Status, balance : Int]
Job == [source : Accounts, destination : Accounts, amount : Int]
\* A dashboard form sets the status, or ("Kept") fields that are not modelled.
Change == [account : Accounts, status : {"Frozen", "Open", "Kept"}]

ASSUME AccountsAssumption ==
    /\ Lapsed \in Accounts
    /\ Expired \subseteq Accounts
    /\ InitialRow \in [Accounts -> Row]
    /\ CreditLimit \in [Accounts -> Nat \cup {Unlimited}]
    /\ Unlimited \notin Int
ASSUME WorkAssumption == Jobs \subseteq Job /\ Changes \subseteq Change
ASSUME NothingAssumption == NotRead \notin Row /\ Nobody \notin Accounts

VARIABLES
    row,       \* committed Account rows
    posted,    \* per account, the sum of the committed Transaction rows
    job,       \* what each request asks for
    copy,      \* the Account instances of each request
    answer,    \* "pending" until the request is answered
    change,    \* what each dashboard save changes
    form,      \* its Account instance
    saving,    \* how far it is
    command,   \* where each run of the command is
    found,     \* the instances it has loaded and not yet closed
    lapsed,    \* its instance of the Lapsed account
    closing,   \* the account it is working on
    spoilt,    \* accounts saved around a transfer that committed meanwhile
    emptied,   \* accounts the command has transferred to Lapsed
    lastSet,   \* the status each account was last given on purpose
    crossed    \* accounts written while somebody else held an instance

ledgerVars == <<row, posted>>
requestVars == <<job, copy, answer>>
adminVars == <<change, form, saving>>
commandVars == <<command, found, lapsed, closing>>
historyVars == <<spoilt, emptied, lastSet, crossed>>
vars == <<ledgerVars, requestVars, adminVars, commandVars, historyVars>>

Nothing == [a \in Accounts |-> NotRead]

Init ==
    /\ row = InitialRow
    /\ posted = [a \in Accounts |-> InitialRow[a].balance]
    /\ job \in [Requests -> Jobs]
    /\ copy = [r \in Requests |-> Nothing]
    /\ answer = [r \in Requests |-> "pending"]
    /\ change \in [Admins -> Changes]
    /\ form = [m \in Admins |-> NotRead]
    /\ saving = [m \in Admins |-> "requested"]
    /\ command = [c \in Commands |-> "waiting"]
    /\ found = [c \in Commands |-> Nothing]
    /\ lapsed = [c \in Commands |-> NotRead]
    /\ closing = [c \in Commands |-> Nobody]
    /\ spoilt = {}
    /\ emptied = {}
    /\ lastSet = [a \in Accounts |-> InitialRow[a].status]
    /\ crossed = {}

(***************************************************************************)
(* Who has read the row of an account and may still write it.              *)
(***************************************************************************)

RequestHolds(r, a) == answer[r] = "pending" /\ copy[r][a] # NotRead

SaveHolds(m, a) == saving[m] \in {"loaded", "summed"} /\ change[m].account = a

CommandHolds(c, a) ==
    \/ command[c] \in {"looping", "transferred", "summed"} /\ found[c][a] # NotRead
    \/ command[c] \in {"finding", "looping", "transferred", "summed"} /\ a = Lapsed

Held(a, requests, admins, commands) ==
    \/ \E r \in requests : RequestHolds(r, a)
    \/ \E m \in admins : SaveHolds(m, a)
    \/ \E c \in commands : CommandHolds(c, a)

(***************************************************************************)
(* A transfer, from verify_transfer to COMMIT.                             *)
(***************************************************************************)

IsDebitPermitted(a, balance, amount) ==
    CreditLimit[a] = Unlimited \/ amount <= balance + CreditLimit[a]

\* Faulty variant: the status of the destination is not tested.
PermittedIntoAny(s, sRow, d, dRow, amount) ==
    /\ s # d
    /\ amount > 0
    /\ sRow.status = "Open"
    /\ IsDebitPermitted(s, sRow.balance, amount)

\* verify_transfer, and the test of facade.transfer, on instances sRow and dRow.
Permitted(s, sRow, d, dRow, amount) ==
    /\ s # d
    /\ amount > 0
    /\ sRow.status = "Open"
    /\ dRow.status = "Open"
    /\ IsDebitPermitted(s, sRow.balance, amount)

\* A save of a that has read its sum and has not written it yet.
SummedSave(a) ==
    \/ \E m \in Admins : saving[m] = "summed" /\ change[m].account = a
    \/ \E c \in Commands : command[c] = "summed" /\ closing[c] = a

\* Faulty variant: the balances in memory are adjusted, not recomputed.
PostInMemory(s, sRow, d, dRow, amount) ==
    /\ posted' = [posted EXCEPT ![s] = @ - amount, ![d] = @ + amount]
    /\ row' = [row EXCEPT ![s] = [sRow EXCEPT !.balance = @ - amount],
                          ![d] = [dRow EXCEPT !.balance = @ + amount]]
    /\ spoilt' = (spoilt \ {s, d}) \cup {a \in {s, d} : SummedSave(a)}

\* Two Transaction rows, and both instances saved with their stale status.
Post(s, sRow, d, dRow, amount) ==
    /\ posted' = [posted EXCEPT ![s] = @ - amount, ![d] = @ + amount]
    /\ row' = [row EXCEPT
                  ![s] = [sRow EXCEPT !.balance = posted[s] - amount],
                  ![d] = [dRow EXCEPT !.balance = posted[d] + amount]]
    /\ spoilt' = (spoilt \ {s, d}) \cup {a \in {s, d} : SummedSave(a)}

(***************************************************************************)
(* Requests.                                                               *)
(***************************************************************************)

Fetch(r, a) ==
    /\ answer[r] = "pending"
    /\ a \in {job[r].source, job[r].destination}
    /\ copy[r][a] = NotRead
    /\ copy' = [copy EXCEPT ![r][a] = row[a]]
    /\ UNCHANGED <<ledgerVars, job, answer, adminVars, commandVars, historyVars>>

\* Verified and posted, or refused.
Answer(r) ==
    LET s == job[r].source
        d == job[r].destination
    IN  /\ answer[r] = "pending"
        /\ copy[r][s] # NotRead /\ copy[r][d] # NotRead
        /\ IF Permitted(s, copy[r][s], d, copy[r][d], job[r].amount)
           THEN /\ Post(s, copy[r][s], d, copy[r][d], job[r].amount)
                /\ answer' = [answer EXCEPT ![r] = "posted"]
                /\ crossed' = crossed \cup
                      {a \in {s, d} : Held(a, Requests \ {r}, Admins, Commands)}
           ELSE /\ answer' = [answer EXCEPT ![r] = "failed"]
                /\ UNCHANGED <<ledgerVars, spoilt, crossed>>
        /\ UNCHANGED <<job, copy, adminVars, commandVars, emptied, lastSet>>

\* Somebody else may hold a lock.
OthersAtWork(r, c) ==
    \/ \E q \in Requests \ {r} : answer[q] = "pending"
    \/ \E m \in Admins : saving[m] # "saved"
    \/ \E b \in Commands \ {c} : command[b] \notin {"done", "failed"}

\* A deadlock or a lock wait that took too long.
Abort(r) ==
    /\ answer[r] = "pending"
    /\ OthersAtWork(r, Nobody)
    /\ answer' = [answer EXCEPT ![r] = "failed"]
    /\ UNCHANGED <<ledgerVars, job, copy, adminVars, commandVars, historyVars>>

(***************************************************************************)
(* Saves by the dashboard.                                                 *)
(***************************************************************************)

Load(m) ==
    /\ saving[m] = "requested"
    /\ form' = [form EXCEPT ![m] = row[change[m].account]]
    /\ saving' = [saving EXCEPT ![m] = "loaded"]
    /\ UNCHANGED <<ledgerVars, requestVars, change, commandVars, historyVars>>

\* Faulty variant: an account without transactions gets no balance.
SumFormOfNothing(m) ==
    /\ saving[m] = "loaded"
    /\ form' = [form EXCEPT ![m].balance = NotRead]
    /\ saving' = [saving EXCEPT ![m] = "summed"]
    /\ UNCHANGED <<ledgerVars, requestVars, change, commandVars, historyVars>>

\* Account.save: self.balance = self._balance()
SumForm(m) ==
    /\ saving[m] = "loaded"
    /\ form' = [form EXCEPT ![m] =
          [status |-> IF change[m].status = "Kept" THEN @.status
                                                   ELSE change[m].status,
           balance |-> posted[change[m].account]]]
    /\ saving' = [saving EXCEPT ![m] = "summed"]
    /\ UNCHANGED <<ledgerVars, requestVars, change, commandVars, historyVars>>

\* A status set while nobody else holds an instance is there to stay.
Settles(m) ==
    LET a == change[m].account
    IN  /\ lastSet' = IF change[m].status = "Kept" THEN lastSet
                      ELSE [lastSet EXCEPT ![a] = change[m].status]
        /\ crossed' = IF Held(a, Requests, Admins \ {m}, Commands)
                         THEN crossed \cup {a}
                      ELSE IF change[m].status # "Kept" /\ a \notin spoilt
                         THEN crossed \ {a}
                      ELSE crossed

\* Faulty variant: UPDATE of the balance alone.
SaveFormBalance(m) ==
    /\ saving[m] = "summed"
    /\ row' = [row EXCEPT ![change[m].account].balance = form[m].balance]
    /\ saving' = [saving EXCEPT ![m] = "saved"]
    /\ Settles(m)
    /\ UNCHANGED <<posted, requestVars, change, form, commandVars, spoilt,
                   emptied>>

\* The UPDATE.
SaveForm(m) ==
    /\ saving[m] = "summed"
    /\ row' = [row EXCEPT ![change[m].account] = form[m]]
    /\ saving' = [saving EXCEPT ![m] = "saved"]
    /\ Settles(m)
    /\ UNCHANGED <<posted, requestVars, change, form, commandVars, spoilt,
                   emptied>>

(***************************************************************************)
(* close_expired_accounts.                                                 *)
(***************************************************************************)

\* core.lapsed_account(); the queryset is evaluated after it, in one SELECT.
FetchLapsed(c) ==
    /\ command[c] = "waiting"
    /\ lapsed' = [lapsed EXCEPT ![c] = row[Lapsed]]
    /\ command' = [command EXCEPT ![c] = "finding"]
    /\ UNCHANGED <<ledgerVars, requestVars, adminVars, found, closing, historyVars>>

Find(c) ==
    /\ command[c] = "finding"
    /\ found' = [found EXCEPT ![c] =
          [a \in Accounts |-> IF a \in Expired /\ row[a].status = "Open"
                              THEN row[a] ELSE NotRead]]
    /\ command' = [command EXCEPT ![c] = "looping"]
    /\ UNCHANGED <<ledgerVars, requestVars, adminVars, lapsed, closing, historyVars>>

\* transfer(account, destination, balance): the balance is that of the SELECT.
\* The transaction recomputes the balance of both instances.
Lapse(c, a) ==
    LET amount == found[c][a].balance
    IN  /\ command[c] = "looping"
        /\ found[c][a] # NotRead
        /\ Permitted(a, found[c][a], Lapsed, lapsed[c], amount)
        /\ Post(a, found[c][a], Lapsed, lapsed[c], amount)
        /\ found' = [found EXCEPT ![c][a].balance = posted[a] - amount]
        /\ lapsed' = [lapsed EXCEPT ![c].balance = posted[Lapsed] + amount]
        /\ emptied' = emptied \cup {a}
        /\ crossed' = crossed \cup
              {b \in {a, Lapsed} : Held(b, Requests, Admins, Commands \ {c})}
        /\ closing' = [closing EXCEPT ![c] = a]
        /\ command' = [command EXCEPT ![c] = "transferred"]
        /\ UNCHANGED <<requestVars, adminVars, lastSet>>

\* Faulty variant: close() is called whether the transfer was made or not.
SkipAccountAndClose(c, a) ==
    /\ command[c] = "looping"
    /\ found[c][a] # NotRead
    /\ ~Permitted(a, found[c][a], Lapsed, lapsed[c], found[c][a].balance)
    /\ closing' = [closing EXCEPT ![c] = a]
    /\ command' = [command EXCEPT ![c] = "transferred"]
    /\ UNCHANGED <<ledgerVars, requestVars, adminVars, found, lapsed,
                   historyVars>>

\* The transfer is refused, or the database rolls it back: that is logged.
SkipAccount(c, a) ==
    /\ command[c] = "looping"
    /\ found[c][a] # NotRead
    /\ \/ ~Permitted(a, found[c][a], Lapsed, lapsed[c], found[c][a].balance)
       \/ OthersAtWork(Nobody, c)
    /\ found' = [found EXCEPT ![c][a] = NotRead]
    /\ UNCHANGED <<ledgerVars, requestVars, adminVars, command, lapsed, closing,
                   historyVars>>

\* account.close(): AccountNotEmpty ends the command, else save() is called.
SumClosing(c) ==
    LET a == closing[c]
    IN  /\ command[c] = "transferred"
        /\ IF found[c][a].balance > 0
           THEN /\ command' = [command EXCEPT ![c] = "failed"]
                /\ UNCHANGED found
           ELSE /\ command' = [command EXCEPT ![c] = "summed"]
                /\ found' = [found EXCEPT ![c][a] =
                                [status |-> "Closed", balance |-> posted[a]]]
        /\ UNCHANGED <<ledgerVars, requestVars, adminVars, lapsed, closing,
                       historyVars>>

SaveClosing(c) ==
    LET a == closing[c]
    IN  /\ command[c] = "summed"
        /\ row' = [row EXCEPT ![a] = found[c][a]]
        /\ lastSet' = [lastSet EXCEPT ![a] = "Closed"]
        /\ crossed' = IF Held(a, Requests, Admins, Commands \ {c})
                      THEN crossed \cup {a} ELSE crossed
        /\ found' = [found EXCEPT ![c][a] = NotRead]
        /\ closing' = [closing EXCEPT ![c] = Nobody]
        /\ command' = [command EXCEPT ![c] = "looping"]
        /\ UNCHANGED <<posted, requestVars, adminVars, lapsed, spoilt, emptied>>

Finish(c) ==
    /\ command[c] = "looping"
    /\ found[c] = Nothing
    /\ command' = [command EXCEPT ![c] = "done"]
    /\ UNCHANGED <<ledgerVars, requestVars, adminVars, found, lapsed, closing,
                   historyVars>>

\* The process dies.
Die(c) ==
    /\ command[c] \in {"finding", "looping", "transferred", "summed"}
    /\ command' = [command EXCEPT ![c] = "failed"]
    /\ UNCHANGED <<ledgerVars, requestVars, adminVars, found, lapsed, closing,
                   historyVars>>

Request(r) == Answer(r) \/ Abort(r) \/ \E a \in Accounts : Fetch(r, a)
Admin(m) == Load(m) \/ SumForm(m) \/ SaveForm(m)
Command(c) ==
    \/ FetchLapsed(c) \/ Find(c) \/ SumClosing(c) \/ SaveClosing(c) \/ Finish(c)
    \/ \E a \in Accounts : Lapse(c, a) \/ SkipAccount(c, a)
    \/ Die(c)

AllDone ==
    /\ \A r \in Requests : answer[r] # "pending"
    /\ \A m \in Admins : saving[m] = "saved"
    /\ \A c \in Commands : command[c] \in {"done", "failed"}
    /\ UNCHANGED vars

Next ==
    \/ \E r \in Requests : Request(r)
    \/ \E m \in Admins : Admin(m)
    \/ \E c \in Commands : Command(c)
    \/ AllDone

Spec == Init /\ [][Next]_vars

(***************************************************************************)
(* Properties.                                                             *)
(***************************************************************************)

TypeOK ==
    /\ row \in [Accounts -> Row]
    /\ posted \in [Accounts -> Int]
    /\ job \in [Requests -> Jobs]
    /\ copy \in [Requests -> [Accounts -> Row \cup {NotRead}]]
    /\ answer \in [Requests -> {"pending", "posted", "failed"}]
    /\ change \in [Admins -> Changes]
    /\ form \in [Admins -> Row \cup {NotRead}]
    /\ saving \in [Admins -> {"requested", "loaded", "summed", "saved"}]
    /\ command \in [Commands -> {"waiting", "finding", "looping", "transferred",
                                 "summed", "done", "failed"}]
    /\ found \in [Commands -> [Accounts -> Row \cup {NotRead}]]
    /\ lapsed \in [Commands -> Row \cup {NotRead}]
    /\ closing \in [Commands -> Accounts \cup {Nobody}]
    /\ spoilt \subseteq Accounts
    /\ emptied \subseteq Accounts
    /\ lastSet \in [Accounts -> Status]
    /\ crossed \subseteq Accounts

\* "Ensure the balance is always correct when saving".
CachedBalance == \A a \in Accounts : row[a].balance = posted[a]

\* A cached balance is wrong only if a save had read the sum before a transfer
\* committed and wrote it after; the next transfer of the account heals it.
SpoiltOnlyByOverlap ==
    \A a \in Accounts : row[a].balance # posted[a] => a \in spoilt

\* An account gets closed only after what it had went to the Lapsed account.
ClosedWereEmptied ==
    \A a \in Accounts :
        row[a].status = "Closed" => a \in emptied \/ InitialRow[a].status = "Closed"

\* An account keeps the status it was given - frozen, thawed, closed - unless
\* somebody held an instance of it when it was written: transfers and edits save
\* the whole row as they read it.
StatusIsAsSet ==
    \A a \in Accounts : row[a].status # lastSet[a] => a \in crossed

\* Nothing is left in an account that was closed and nothing is owed by it, with
\* the same exception: close() and transfers can overtake each other.
ClosedHoldsNothing ==
    \A a \in Accounts :
        row[a].status = "Closed" /\ InitialRow[a].status # "Closed"
            => posted[a] = 0 \/ a \in crossed

\* "Close expired, open accounts and transfer any remaining balance": all that
\* were there when the command ran, if nothing else happened.
CommandClosesExpired ==
    \A c \in Commands :
        command[c] = "done" => \A a \in Expired : row[a].status # "Open"

=============================================================================
