------------------------------ MODULE MCMblock ------------------------------
(***************************************************************************)
(* Module Mblock for TLC: six pages from page 4, with 4G at page 8, so   *)
(* that a block may lie on both sides of it.                               *)
(***************************************************************************)
EXTENDS Mblock

\* One rank, or two that the preloader hands over with a record of its own.
const_Maps ==
    {[mblock |-> <<[start |-> 4, size |-> 6]>>, reserved |-> << >>],
     [mblock |-> <<[start |-> 4, size |-> 1], [start |-> 6, size |-> 2],
                   [start |-> 8, size |-> 2]>>,
      reserved |-> <<[start |-> 5, size |-> 1, mapping |-> 1]>>]}

NoLimit == 20

const_Requests ==
    {[size |-> 1, align |-> 1, lower |-> 0, limit |-> NoLimit, expected |-> 0],
     [size |-> 2, align |-> 2, lower |-> 0, limit |-> NoLimit, expected |-> 0],
     [size |-> 3, align |-> 1, lower |-> 5, limit |-> 9, expected |-> 0],
     [size |-> 3, align |-> 1, lower |-> 0, limit |-> NoLimit, expected |-> 0],
     [size |-> 2, align |-> 1, lower |-> 0, limit |-> NoLimit, expected |-> 5]}
=============================================================================
