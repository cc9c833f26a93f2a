----------------------------- MODULE MCThreadLife -----------------------------
(***************************************************************************)
(* Module ThreadLife for TLC.                                              *)
(***************************************************************************)
EXTENDS ThreadLife

CONSTANTS t1, t2, c1, c2

const_Threads == {t1, t2}
const_Callers == {c1, c2}

\* t1 has an owner, who joins or detaches it at any time; t2 is joined by one
\* caller and detached by the other one, before it is dead.
const_Joiners == [t \in Threads |-> {c1}]
const_Detachers == [t \in Threads |-> IF t = t1 THEN {c1} ELSE {c2}]
const_DetachIn ==
    [t \in Threads |-> IF t = t1 THEN {"SUSPENDED", "RUNNING", "DEATH"} ELSE {"SUSPENDED", "RUNNING"}]
=============================================================================
