------------------------------ MODULE AutoEvent ------------------------------
(***************************************************************************)
(* An event with EVENT_FLAG_AUTOUNSIGNAL that one thread waits for, as a   *)
(* value: what module Event leaves of kernel/event.c when nobody destroys  *)
(* the event or waits with a timeout.  A signal that finds the thread      *)
(* asleep wakes it and leaves the event unsignaled; a second signal, even  *)
(* before the thread runs, stays.                                          *)
(***************************************************************************)

Events == [signaled : BOOLEAN, wait : {"none", "blocked", "woken"}]

event_init(initial) == [signaled |-> initial, wait |-> "none"]

event_signal(e) ==
    IF e.wait = "blocked" THEN [e EXCEPT !.wait = "woken"]
                          ELSE [e EXCEPT !.signaled = TRUE]

event_unsignal(e) == [e EXCEPT !.signaled = FALSE]

\* event_wait in two pieces: the thread goes to sleep, or it gets through,
\* at once or after it has been woken.
MustBlock(e) == ~e.signaled /\ e.wait = "none"
event_wait_block(e) == [e EXCEPT !.wait = "blocked"]

MayPass(e) == (e.signaled /\ e.wait = "none") \/ e.wait = "woken"
event_wait_pass(e) == [signaled |-> e.signaled /\ e.wait = "woken", wait |-> "none"]
=============================================================================
