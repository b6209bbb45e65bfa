------------------------------ MODULE TaskLife ------------------------------
(***************************************************************************)
(* What the workers promise of the task of a policy: it is waited for,     *)
(* then run in one worker slot, then over, and a policy whose task is over *)
(* never gets another one.                                                 *)
(***************************************************************************)
CONSTANTS
    Policies,
    Workers,    \* slots, each of which runs one task at a time
    NoPolicy

VARIABLES
    waiting,    \* policies that were ordered and not yet started
    running,    \* the policy each slot runs
    over        \* policies whose task has ended, or will never start

vars == <<waiting, running, over>>

Init ==
    /\ waiting = {}
    /\ running = [w \in Workers |-> NoPolicy]
    /\ over = {}

Order(p) ==
    /\ p \notin waiting \cup over /\ \A w \in Workers : running[w] # p
    /\ waiting' = waiting \cup {p}
    /\ UNCHANGED <<running, over>>

Drop(p) ==
    /\ p \in waiting
    /\ waiting' = waiting \ {p}
    /\ over' = over \cup {p}
    /\ UNCHANGED running

Begin(w, p) ==
    /\ p \in waiting /\ running[w] = NoPolicy
    /\ waiting' = waiting \ {p}
    /\ running' = [running EXCEPT ![w] = p]
    /\ UNCHANGED over

End(w) ==
    /\ running[w] # NoPolicy
    /\ over' = over \cup {running[w]}
    /\ running' = [running EXCEPT ![w] = NoPolicy]
    /\ UNCHANGED waiting

Next ==
    \/ \E p \in Policies : Order(p) \/ Drop(p) \/ \E w \in Workers : Begin(w, p)
    \/ \E w \in Workers : End(w)

Spec == Init /\ [][Next]_vars

=============================================================================
