---------------------------- MODULE PolicyRunner ----------------------------
(***************************************************************************)
(* The life of a trading policy: the create, update and delete views, the  *)
(* row of the policy table, the Celery message and the worker that runs    *)
(* the policy until it ends.  The three kinds of policy (duiqiao, sanjiao, *)
(* limitbuy) share this code but for what they trade and for the tolerance *)
(* of limitbuy, whose tasks may start a little early.                      *)
(*                                                                         *)
(* Task and views load a row, work on the instance, and save every column  *)
(* of it; Model.save of a row that is gone inserts it again.               *)
(***************************************************************************)
EXTENDS Integers, Sequences, FiniteSets

CONSTANTS
    Policies,    \* ids the database can give to policies
    Workers,     \* slots of the Celery worker, which serves other users, too
    MaxTime,     \* the clock stops here, after every end time
    BoughtFrom,  \* QuantPolicyOrder.policy_start_time of the user
    BoughtUntil, \* QuantPolicyOrder.policy_end_time of the user
    Tolerance,   \* how early a policy may start: 100 microseconds for limitbuy
    MaxEdits,    \* bound on the number of update requests
    NoRow,       \* no such row, or nothing loaded
    NoPolicy     \* an idle worker's policy

ASSUME TimeAssumption ==
    /\ MaxTime \in Nat
    /\ BoughtFrom \in 0..MaxTime
    /\ BoughtUntil \in 0..MaxTime
    /\ MaxEdits \in Nat
    /\ Tolerance \in [Policies -> Nat]
ASSUME NoPolicyAssumption == NoPolicy \notin Policies

Times == 0..(MaxTime - 1)        \* what users enter: the clock passes them all
RUN_STATUSS == {"unstart", "run", "stop"}
OPS == {0, 1}                    \* 0 run, 1 stop
Row == [start_time : Times, end_time : Times,
        status : RUN_STATUSS, operation : OPS]

ASSUME NoRowAssumption == NoRow \notin Row

VARIABLES
    now,      \* timezone.now()
    table,    \* the policy table
    creating, \* policies saved by the create view but not yet sent to Celery
    editing,  \* the update view's instance of a policy, or NoRow
    edits,    \* how many update requests there were
    edited,   \* policies an update request has saved
    queue,    \* messages in the broker
    at,       \* where in the loop of run_..._policy each worker is; "lent" while
              \* it runs a policy of another user
    policy,   \* policy_id of each worker's task
    copy,     \* the task's instance of its policy, while it is used
    since,    \* nowtime of the task's decision to trade
    used,     \* ids given to policies so far
    lost      \* policies whose task died, or was never sent

vars == <<now, table, creating, editing, edits, edited, queue, at, policy, copy,
          since, used, lost>>
taskVars == <<at, policy, copy, since>>
viewVars == <<creating, editing, edits, edited, used>>

Init ==
    /\ now = 0
    /\ table = [p \in Policies |-> NoRow]
    /\ creating = {}
    /\ editing = [p \in Policies |-> NoRow]
    /\ edits = 0
    /\ edited = {}
    /\ queue = <<>>
    /\ at \in [Workers -> {"idle", "lent"}] /\ \E w \in Workers : at[w] = "idle"
    /\ policy = [w \in Workers |-> NoPolicy]
    /\ copy = [w \in Workers |-> NoRow]
    /\ since = [w \in Workers |-> 0]
    /\ used = {}
    /\ lost = {}

(***************************************************************************)
(* The views.                                                              *)
(***************************************************************************)

\* For the mutation of Create: what was bought is not looked up.
CreateUnpaid(p, start, end) ==
    /\ p \notin used
    /\ used' = used \cup {p}
    /\ table' = [table EXCEPT ![p] =
                    [start_time |-> start, end_time |-> end,
                     status |-> "unstart", operation |-> 0]]
    /\ creating' = creating \cup {p}
    /\ UNCHANGED <<now, editing, edits, edited, queue, taskVars, lost>>

\* form_valid of the create views, up to form.save().  A period outside what was
\* bought raises ValidationError; no order, or two, UnboundLocalError.
Create(p, start, end) ==
    /\ p \notin used
    /\ end <= BoughtUntil
    /\ start >= BoughtFrom
    /\ used' = used \cup {p}
    /\ table' = [table EXCEPT ![p] =
                    [start_time |-> start, end_time |-> end,
                     status |-> "unstart", operation |-> 0]]
    /\ creating' = creating \cup {p}
    /\ UNCHANGED <<now, editing, edits, edited, queue, taskVars, lost>>

\* run_..._policy.delay(self.object.id)
Delay(p) ==
    /\ p \in creating
    /\ creating' = creating \ {p}
    /\ queue' = Append(queue, p)
    /\ UNCHANGED <<now, table, editing, edits, edited, taskVars, used, lost>>

\* The web process dies, or the broker refuses, between save() and delay().
DelayFails(p) ==
    /\ p \in creating
    /\ creating' = creating \ {p}
    /\ lost' = lost \cup {p}
    /\ UNCHANGED <<now, table, editing, edits, edited, queue, taskVars, used>>

\* UpdateView.post: get_object, and later form.save() with the posted times.
EditLoad(p) ==
    /\ table[p] # NoRow
    /\ editing[p] = NoRow
    /\ edits < MaxEdits
    /\ edits' = edits + 1
    /\ editing' = [editing EXCEPT ![p] = table[p]]
    /\ UNCHANGED <<now, table, creating, edited, queue, taskVars, used, lost>>

\* For the mutation of EditSave: the update view starts the policy, too.
EditSaveAndDelay(p, start, end) ==
    /\ editing[p] # NoRow
    /\ table' = [table EXCEPT ![p] = [editing[p] EXCEPT !.start_time = start,
                                                        !.end_time = end]]
    /\ editing' = [editing EXCEPT ![p] = NoRow]
    /\ edited' = edited \cup {p}
    /\ queue' = Append(queue, p)
    /\ UNCHANGED <<now, creating, edits, taskVars, used, lost>>

\* For the mutation of EditSave: new times for a policy that has stopped start
\* it once more.
EditSaveRestarts(p, start, end) ==
    /\ editing[p] # NoRow
    /\ table' = [table EXCEPT ![p] = [editing[p] EXCEPT !.start_time = start,
                                                        !.end_time = end]]
    /\ editing' = [editing EXCEPT ![p] = NoRow]
    /\ edited' = edited \cup {p}
    /\ queue' = IF editing[p].status = "stop" THEN Append(queue, p) ELSE queue
    /\ UNCHANGED <<now, creating, edits, taskVars, used, lost>>

EditSave(p, start, end) ==
    /\ editing[p] # NoRow
    /\ table' = [table EXCEPT ![p] = [editing[p] EXCEPT !.start_time = start,
                                                        !.end_time = end]]
    /\ editing' = [editing EXCEPT ![p] = NoRow]
    /\ edited' = edited \cup {p}
    /\ UNCHANGED <<now, creating, edits, queue, taskVars, used, lost>>

\* DeleteView.post
Delete(p) ==
    /\ table[p] # NoRow
    /\ table' = [table EXCEPT ![p] = NoRow]
    /\ UNCHANGED <<now, viewVars, queue, taskVars, lost>>

\* No view writes the operation column: an operator does, in the database.
RequestStop(p) ==
    /\ table[p] # NoRow
    /\ table[p].operation = 0
    /\ table' = [table EXCEPT ![p].operation = 1]
    /\ UNCHANGED <<now, viewVars, queue, taskVars, lost>>

(***************************************************************************)
(* The task.                                                               *)
(***************************************************************************)

Take(w) ==
    /\ at[w] = "idle"
    /\ queue # <<>>
    /\ queue' = Tail(queue)
    /\ at' = [at EXCEPT ![w] = "reading"]
    /\ policy' = [policy EXCEPT ![w] = Head(queue)]
    /\ UNCHANGED <<now, table, viewVars, copy, since, lost>>

\* The worker slot is free again.
Leave(w) ==
    /\ at' = [at EXCEPT ![w] = "idle"]
    /\ policy' = [policy EXCEPT ![w] = NoPolicy]
    /\ copy' = [copy EXCEPT ![w] = NoRow]
    /\ since' = [since EXCEPT ![w] = 0]

\* objects.get(id=policy_id); the task ends if the row is gone.
Read(w) ==
    /\ at[w] = "reading"
    /\ table[policy[w]] # NoRow
    /\ copy' = [copy EXCEPT ![w] = table[policy[w]]]
    /\ at' = [at EXCEPT ![w] = "deciding"]
    /\ UNCHANGED <<now, table, viewVars, queue, policy, since, lost>>

ReadNothing(w) ==
    /\ at[w] = "reading"
    /\ table[policy[w]] = NoRow
    /\ Leave(w)
    /\ UNCHANGED <<now, table, viewVars, queue, lost>>

\* For the mutation of SaveAs: a status that is none of RUN_STATUSS, which
\* save() does not check.
SaveAsRunning(w, status) ==
    table' = [table EXCEPT ![policy[w]] = [copy[w] EXCEPT !.status = "running"]]

\* policy.status = status; policy.save()
SaveAs(w, status) ==
    table' = [table EXCEPT ![policy[w]] = [copy[w] EXCEPT !.status = status]]

IsStopped(w) == copy[w].operation = 1
IsEarly(w) ==
    ~IsStopped(w) /\ copy[w].start_time > now + Tolerance[policy[w]]

\* For the mutation of IsOver: the end of the period is never met.
IsOverNever(w) == ~IsStopped(w) /\ ~IsEarly(w) /\ copy[w].end_time > MaxTime

IsOver(w) == ~IsStopped(w) /\ ~IsEarly(w) /\ copy[w].end_time < now

\* sleep and continue
WaitForStart(w) ==
    /\ at[w] = "deciding"
    /\ IsEarly(w)
    /\ at' = [at EXCEPT ![w] = "reading"]
    /\ copy' = [copy EXCEPT ![w] = NoRow]
    /\ UNCHANGED <<now, table, viewVars, queue, policy, since, lost>>

\* For the mutations of Finish: without the break, and without the save.
FinishAndGoOn(w) ==
    /\ at[w] = "deciding"
    /\ IsStopped(w) \/ IsOver(w)
    /\ SaveAs(w, "stop")
    /\ at' = [at EXCEPT ![w] = "reading"]
    /\ copy' = [copy EXCEPT ![w] = NoRow]
    /\ UNCHANGED <<now, viewVars, queue, policy, since, lost>>

FinishUnsaved(w) ==
    /\ at[w] = "deciding"
    /\ IsStopped(w) \/ IsOver(w)
    /\ Leave(w)
    /\ UNCHANGED <<now, table, viewVars, queue, lost>>

\* The row says stop, or its end is past, which it is for good: it makes no
\* difference that the save comes later than nowtime.
Finish(w) ==
    /\ at[w] = "deciding"
    /\ IsStopped(w) \/ IsOver(w)
    /\ SaveAs(w, "stop")
    /\ Leave(w)
    /\ UNCHANGED <<now, viewVars, queue, lost>>

\* nowtime is inside the row's period.
DecideToTrade(w) ==
    /\ at[w] = "deciding"
    /\ ~IsStopped(w) /\ ~IsEarly(w) /\ ~IsOver(w)
    /\ at' = [at EXCEPT ![w] = "starting"]
    /\ since' = [since EXCEPT ![w] = now]
    /\ UNCHANGED <<now, table, viewVars, queue, policy, copy, lost>>

\* The row is saved, some time after nowtime was read, and quant.run() called.
Start(w) ==
    /\ at[w] = "starting"
    /\ SaveAs(w, "run")
    /\ at' = [at EXCEPT ![w] = "trading"]
    /\ copy' = [copy EXCEPT ![w] = NoRow]
    /\ UNCHANGED <<now, viewVars, queue, policy, since, lost>>

\* quant.run() returns and the loop starts again.
Trade(w) ==
    /\ at[w] = "trading"
    /\ at' = [at EXCEPT ![w] = "reading"]
    /\ since' = [since EXCEPT ![w] = 0]
    /\ UNCHANGED <<now, table, viewVars, queue, policy, copy, lost>>

\* An exception leaves the task, or its process dies, and nobody runs it again:
\* Celery acknowledges a message when its task starts.  The settings ask for the
\* opposite (task_acks_late, task_reject_on_worker_lost), but in lower case, and
\* settings in lower case do not count.
TaskDies(w) ==
    /\ at[w] \notin {"idle", "lent"}
    /\ Leave(w)
    /\ lost' = lost \cup {policy[w]}
    /\ UNCHANGED <<now, table, viewVars, queue>>

\* The task of another user's policy, run by the same slots, ends: maybe long
\* after MaxTime, so nothing is assumed of when it does.
Return(w) ==
    /\ at[w] = "lent"
    /\ at' = [at EXCEPT ![w] = "idle"]
    /\ UNCHANGED <<now, table, viewVars, queue, policy, copy, since, lost>>

Tick ==
    /\ now < MaxTime
    /\ now' = now + 1
    /\ UNCHANGED <<table, viewVars, queue, taskVars, lost>>

Task(w) ==
    \/ Take(w) \/ Read(w) \/ ReadNothing(w)
    \/ Finish(w) \/ WaitForStart(w) \/ DecideToTrade(w) \/ Start(w) \/ Trade(w)

View(p) ==
    \/ \E start, end \in Times : Create(p, start, end) \/ EditSave(p, start, end)
    \/ Delay(p) \/ DelayFails(p) \/ EditLoad(p) \/ Delete(p)

\* The time of the model is over and nothing is left to do.
Over ==
    /\ now = MaxTime
    /\ used = Policies /\ creating = {}
    /\ \A p \in Policies : table[p] = NoRow /\ editing[p] = NoRow
    /\ queue = <<>> /\ \A w \in Workers : at[w] = "idle"
    /\ UNCHANGED vars

Next ==
    \/ \E p \in Policies : View(p) \/ RequestStop(p)
    \/ \E w \in Workers : Task(w) \/ TaskDies(w) \/ Return(w)
    \/ Tick
    \/ Over

Fairness ==
    /\ WF_vars(Tick)
    /\ \A w \in Workers : WF_vars(Task(w))
    /\ \A p \in Policies : WF_vars(Delay(p) \/ DelayFails(p))

Spec == Init /\ [][Next]_vars
FairSpec == Spec /\ Fairness

(***************************************************************************)
(* Properties.                                                             *)
(***************************************************************************)

TypeOK ==
    /\ now \in 0..MaxTime
    /\ table \in [Policies -> Row \cup {NoRow}]
    /\ creating \subseteq Policies
    /\ editing \in [Policies -> Row \cup {NoRow}]
    /\ edits \in 0..MaxEdits
    /\ edited \subseteq Policies
    /\ queue \in Seq(Policies)
    /\ at \in [Workers -> {"idle", "lent", "reading", "deciding", "starting",
                       "trading"}]
    /\ policy \in [Workers -> Policies \cup {NoPolicy}]
    /\ copy \in [Workers -> Row \cup {NoRow}]
    /\ since \in [Workers -> Nat]
    /\ used \subseteq Policies
    /\ lost \subseteq Policies

RunsOn(p) == {w \in Workers : policy[w] = p}
IsQueued(p) == \E i \in 1..Len(queue) : queue[i] = p

\* A policy is run by one worker at most, however often it is edited, deleted
\* or written back: two would trade twice on the user's exchange account.
OneTaskPerPolicy ==
    \A p \in Policies :
        /\ \A v, w \in RunsOn(p) : v = w
        /\ IsQueued(p) => RunsOn(p) = {}
        /\ \A i, j \in 1..Len(queue) : queue[i] = p /\ queue[j] = p => i = j

\* The list shows "stop" only for a policy nobody runs or will run, although
\* stale instances of it are saved from all sides.
StoppedMeansIdle ==
    \A p \in Policies :
        table[p] # NoRow /\ table[p].status = "stop"
            => p \notin creating /\ ~IsQueued(p) /\ RunsOn(p) = {}

\* The list shows "run" only for a policy some worker runs, unless its task
\* died on it, or an update request has saved the status it once read.
RunMeansWorked ==
    \A p \in Policies :
        table[p] # NoRow /\ table[p].status = "run"
            => RunsOn(p) # {} \/ p \in lost \cup edited

\* A round of trading is decided on inside the period the user has paid for, or,
\* before its beginning, within the tolerance of the kind of policy: the task and
\* the create view see to that.  The update view does not; and how long the save
\* and the round itself take after the decision, nobody says.
DecidedInWindow ==
    \A w \in Workers :
        at[w] \in {"starting", "trading"} /\ policy[w] \notin edited
            => BoughtFrom <= since[w] + Tolerance[policy[w]] /\ since[w] <= BoughtUntil

\* The task of a policy is waited for, runs once, and is never started again:
\* whatever views and tasks save, lose or delete, the workers implement TaskLife.
IsWaitedFor(p) == p \in creating \/ IsQueued(p)
Life == INSTANCE TaskLife WITH
          waiting <- {p \in Policies : IsWaitedFor(p)},
          running <- policy,
          over <- {p \in used : ~IsWaitedFor(p) /\ RunsOn(p) = {}}
LifeSpec == Life!Spec

\* A policy never has a worker slot for good: its task ends.
EveryTaskEnds == \A w \in Workers : policy[w] # NoPolicy ~> policy[w] = NoPolicy

\* A policy whose message is queued while other policies hold all the slots gets
\* its turn, be there only one slot that this user's policies share one after the
\* other; or its create view never reached the broker.
EveryPolicyStarts ==
    \A p \in Policies :
        p \in creating ~> RunsOn(p) # {} \/ p \in lost

\* A policy that was deleted is not inserted again by the task that goes on to
\* trade for it.
DeletedDoesNotRun ==
    [][\A p \in used :
          table[p] = NoRow => table'[p] = NoRow \/ table'[p].status # "run"]_vars

=============================================================================
