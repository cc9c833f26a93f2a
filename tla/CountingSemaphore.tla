-------------------------- MODULE CountingSemaphore --------------------------
(***************************************************************************)
(* What a semaphore promises: a stock of units, to which a post adds one   *)
(* and from which a successful wait takes one.  A post may hand its unit   *)
(* straight to a waiter, who has it from then on (got) and whose wait      *)
(* returns later.  Waits that time out leave no trace.                     *)
(***************************************************************************)
EXTENDS Naturals

CONSTANTS Threads, InitialValue

VARIABLES
    value,    \* units in stock
    got,      \* threads that have been handed a unit and have not returned yet
    alive     \* not destroyed yet

vars == <<value, got, alive>>

Init == value = InitialValue /\ got = {} /\ alive = TRUE

Post == alive /\ value' = value + 1 /\ UNCHANGED <<got, alive>>

PostTo(t) ==
    /\ alive
    /\ t \notin got
    /\ got' = got \cup {t}
    /\ UNCHANGED <<value, alive>>

Take == alive /\ value > 0 /\ value' = value - 1 /\ UNCHANGED <<got, alive>>

Return(t) == t \in got /\ got' = got \ {t} /\ UNCHANGED <<value, alive>>

Destroy == alive /\ alive' = FALSE /\ value' = 0 /\ UNCHANGED got

Next == Post \/ Take \/ Destroy \/ \E t \in Threads : PostTo(t) \/ Return(t)

Spec == Init /\ [][Next]_vars
=============================================================================
