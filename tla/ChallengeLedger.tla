--------------------------- MODULE ChallengeLedger ---------------------------
(***************************************************************************)
(* What an account promises its owner, with every operation in one step:   *)
(* at most MaxActive challenges run at a time, a running challenge takes   *)
(* one log a day, finishing it pays its value for every day logged, once,  *)
(* and a reward is paid from the balance.                                  *)
(***************************************************************************)
EXTENDS Integers, Sequences, FiniteSets, Bags

CONSTANTS Challenge, Value, Price, ChallengeDays, MaxActive

VARIABLES
    date,       \* the current day
    running,    \* the running challenges
    paid,       \* bag of the finished ones: challenge and points
    balance     \* points in hand

ledgerVars == <<date, running, paid, balance>>

Init ==
    /\ date = 0
    /\ running = {}
    /\ paid = EmptyBag
    /\ balance = 0

Tomorrow ==
    /\ date' = date + 1
    /\ UNCHANGED <<running, paid, balance>>

Start(c) ==
    /\ Cardinality(running) < MaxActive
    /\ \A r \in running : r.id # c
    /\ running' = running \cup {[id |-> c, start |-> date, days |-> <<>>]}
    /\ UNCHANGED <<date, paid, balance>>

\* One log a day, on the day it is made.
Log(r) ==
    /\ \A i \in DOMAIN r.days : r.days[i] < date
    /\ running' = (running \ {r}) \cup {[r EXCEPT !.days = Append(@, date)]}
    /\ UNCHANGED <<date, paid, balance>>

\* Not before the end date.
Finish(r) ==
    LET points == Value[r.id] * Len(r.days) IN
    /\ date >= r.start + ChallengeDays
    /\ running' = running \ {r}
    /\ paid' = paid (+) SetToBag({[id |-> r.id, sp |-> points]})
    /\ balance' = balance + points
    /\ UNCHANGED date

Spend(p) ==
    /\ p <= balance
    /\ balance' = balance - p
    /\ UNCHANGED <<date, running, paid>>

Next ==
    \/ Tomorrow
    \/ \E c \in Challenge : Start(c)
    \/ \E r \in running : Log(r) \/ Finish(r)
    \/ \E p \in Price : Spend(p)

Spec == Init /\ [][Next]_ledgerVars
=============================================================================
