------------------------------- MODULE PageMap -------------------------------
(***************************************************************************)
(* What the boot memory allocator promises: a map of who holds each page.  *)
(* A call gives one run of free pages away, takes one run back from its    *)
(* holder, or hands a held run over under another mapping; it never        *)
(* touches a page outside that run, and never a page somebody else holds.  *)
(***************************************************************************)
EXTENDS Integers

CONSTANTS
    Dram,       \* the pages of the machine
    Mappings,   \* how the kernel is to map a reserved page
    Free        \* the holder of a page nobody has reserved

VARIABLE holder

Holders == Mappings \cup {Free}

\* The nonempty runs of pages.
Runs == {a..b : a, b \in Dram} \ {{}}

Give(run, to) == holder' = [p \in Dram |-> IF p \in run THEN to ELSE holder[p]]

HeldAlike(run) == \A p, q \in run : holder[p] = holder[q]

\* One run of pages changes hands: free pages are reserved, or held ones are
\* released or mapped differently.
Move ==
    \E run \in Runs, to \in Holders :
        /\ HeldAlike(run)
        /\ Give(run, to)

Init == holder \in [Dram -> Holders]

Spec == Init /\ [][Move]_holder
=============================================================================
