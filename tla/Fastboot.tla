------------------------------- MODULE Fastboot -------------------------------
(***************************************************************************)
(* app/fastboot/fastboot.c with app/fastboot/usb/usb.c: the command loop,  *)
(* the usb transfers it makes, and of platform/mediatek/common/ssusb what  *)
(* completes them.  The host, the cable and the power supply are the       *)
(* environment.                                                            *)
(*                                                                         *)
(* The fastboot thread is at `pc`.  While it is in usb_read or usb_write   *)
(* for the purpose pc, xfer says how far it is: udc_request_queue looks    *)
(* whether the host is there ("queue"), has seen it and is about to hand   *)
(* over the request ("post"), or the request is waited for ("wait").       *)
(***************************************************************************)
EXTENDS Bootctrl, AutoEvent

CONSTANTS
    MaxCommands,   \* commands the host sends
    Pieces         \* transfers of MAX_USBFS_BULK_SIZE that a download takes

ASSUME FastbootAssumption == MaxCommands \in Nat /\ Pieces \in Nat \ {0}

VARIABLES
    idle_timeout,     \* whether fastboot_idle_timeout > 0; never changes
    calm,             \* the host reads every answer within WRITE_CMD_TIMEOUT, and sets a
                      \* configuration only while no command is handled; never changes
    fastboot_state,
    pc, xfer,
    idle_timer,       \* fastboot_idle_timer is set
    buffer,           \* what came last over usb
    command,          \* the command being handled
    metadata,         \* of set_active_slot
    pieces,           \* of a download, received so far
    reply,            \* what fastboot_ack sends: [code, id]
    in, out,          \* the request queued on each endpoint, or None
    txn_done, txn_status, usb_online,
    online,           \* g_u3d.usb_online
    asked,            \* the command the host waits for the answer to, or None
    left,             \* pieces of a download the host has not sent yet
    count,            \* commands sent so far
    active            \* the slot that an OKAY said is active, or None

bcvars == <<misc, region>>
usb == <<in, out, txn_done, txn_status>>
host == <<asked, left, count, active>>
rigid == <<idle_timeout, calm>>
vars == <<bcvars, rigid, fastboot_state, pc, xfer, idle_timer, buffer, command, metadata,
          pieces, reply, usb, usb_online, online, host>>

None == [op |-> "none", slot |-> "a", id |-> 0]
Ops == {"getvar", "download", "continue", "set_active",
        "silent",     \* a handler that does not answer, or may not be called
        "unknown"}
NoReply == [code |-> "", id |-> 0]

\* Where a boot into fastboot starts.  fastboot_init: usb is up, no host yet.
Restart ==
    /\ fastboot_state' = "OFFLINE" /\ pc' = "offline" /\ xfer' = "none"
    /\ idle_timer' = FALSE
    /\ buffer' = None /\ command' = None /\ reply' = NoReply /\ pieces' = 0
    /\ in' = None /\ out' = None
    /\ txn_done' = event_init(FALSE) /\ txn_status' = 0
    /\ usb_online' = event_init(FALSE) /\ online' = FALSE
    /\ asked' = None /\ left' = 0
    /\ metadata' = initDefaultBootControl
    /\ UNCHANGED <<bcvars, rigid, count, active>>

Init ==
    /\ misc \in Metadata
    /\ region \in Slots
    /\ metadata = initDefaultBootControl
    /\ idle_timeout \in BOOLEAN /\ calm \in BOOLEAN
    /\ fastboot_state = "OFFLINE" /\ pc = "offline" /\ xfer = "none"
    /\ idle_timer = FALSE
    /\ buffer = None /\ command = None /\ reply = NoReply /\ pieces = 0
    /\ in = None /\ out = None
    /\ txn_done = event_init(FALSE) /\ txn_status = 0
    /\ usb_online = event_init(FALSE) /\ online = FALSE
    /\ asked = None /\ left = 0 /\ count = 0 /\ active = "none"
-----------------------------------------------------------------------------
\* usb.c

Reads == {"command", "data"}

\* The end of a transfer that failed: STATE_ERROR, and nothing more is sent.
Oops ==
    /\ fastboot_state' = "ERROR"
    /\ xfer' = "none"
    /\ pc' = CASE pc = "command" -> "again"
               [] pc = "data" -> "reply"
               [] OTHER -> "handled"
    /\ reply' = IF pc = "data" THEN [reply EXCEPT !.code = "FAIL"] ELSE reply

\* udc_request_queue up to where it masks the interrupt of the controller.
udc_request_queue ==
    /\ xfer = "queue"
    /\ IF fastboot_state = "ERROR" \/ ~online
       THEN Oops
       ELSE xfer' = "post" /\ UNCHANGED <<fastboot_state, pc, reply>>
    /\ UNCHANGED <<bcvars, rigid, idle_timer, buffer, command, metadata, pieces, usb, usb_online,
                   online, host>>

\* The rest, whether or not the host is still there.
request_post ==
    /\ xfer = "post"
    /\ xfer' = "wait"
    /\ IF pc \in Reads
       THEN out' = [None EXCEPT !.op = "read"] /\ UNCHANGED in
       ELSE in' = [None EXCEPT !.op = reply.code, !.id = reply.id] /\ UNCHANGED out
    /\ UNCHANGED <<bcvars, rigid, fastboot_state, pc, idle_timer, buffer, command, metadata,
                   pieces, reply, txn_done, txn_status, usb_online, online, host>>

txn_wait_block ==
    /\ xfer = "wait"
    /\ MustBlock(txn_done)
    /\ txn_done' = event_wait_block(txn_done)
    /\ UNCHANGED <<bcvars, rigid, fastboot_state, pc, xfer, idle_timer, buffer, command, metadata,
                   pieces, reply, in, out, txn_status, usb_online, online, host>>

\* event_wait_timeout gives up; the request stays queued.
txn_wait_timeout ==
    /\ ~calm
    /\ xfer = "wait" /\ pc = "ack"
    /\ txn_done.wait = "blocked"
    /\ txn_done' = [txn_done EXCEPT !.wait = "none"]
    /\ Oops
    /\ UNCHANGED <<bcvars, rigid, idle_timer, buffer, command, metadata, pieces, in, out,
                   txn_status, usb_online, online, host>>

\* What follows a transfer that succeeded, by its purpose.
txn_wait_pass ==
    /\ xfer = "wait"
    /\ MayPass(txn_done)
    /\ txn_done' = event_wait_pass(txn_done)
    /\ \/ txn_status < 0 /\ Oops /\ UNCHANGED <<idle_timer, command, pieces>>
       \/ /\ txn_status >= 0
          /\ pc = "command"
          /\ idle_timer' = FALSE
          /\ fastboot_state' = "COMMAND"
          /\ command' = buffer
          /\ pc' = "dispatch" /\ xfer' = "none"
          /\ UNCHANGED <<pieces, reply>>
       \/ /\ txn_status >= 0
          /\ pc = "ack"
          /\ pc' = "handled" /\ xfer' = "none"
          /\ UNCHANGED <<fastboot_state, idle_timer, command, pieces, reply>>
       \/ /\ txn_status >= 0
          /\ pc = "DATA"
          /\ pc' = "data" /\ xfer' = "queue"
          /\ pieces' = 0
          /\ UNCHANGED <<fastboot_state, idle_timer, command, reply>>
       \/ /\ txn_status >= 0
          /\ pc = "data"
          /\ pieces' = pieces + 1
          /\ IF buffer.op = "short" \/ pieces' = Pieces
             THEN /\ pc' = "reply" /\ xfer' = "none"
                  /\ reply' = [code |-> IF buffer.op = "short" THEN "FAIL" ELSE "OKAY",
                               id |-> command.id]
             ELSE xfer' = "queue" /\ UNCHANGED <<pc, reply>>
          /\ UNCHANGED <<fastboot_state, idle_timer, command>>
    /\ UNCHANGED <<bcvars, rigid, buffer, metadata, in, out, txn_status, usb_online, online, host>>
-----------------------------------------------------------------------------
\* fastboot.c

\* fastboot_handler between two command loops.
handler_block ==
    /\ pc = "offline"
    /\ MustBlock(usb_online)
    /\ usb_online' = event_wait_block(usb_online)
    /\ UNCHANGED <<bcvars, rigid, fastboot_state, pc, xfer, idle_timer, buffer, command, metadata,
                   pieces, reply, usb, online, host>>

handler_pass ==
    /\ pc = "offline"
    /\ MayPass(usb_online)
    /\ usb_online' = event_wait_pass(usb_online)
    /\ pc' = "again"
    /\ UNCHANGED <<bcvars, rigid, fastboot_state, xfer, idle_timer, buffer, command, metadata,
                   pieces, reply, usb, online, host>>

\* The head of the loop in fastboot_command_loop, and its end.
again ==
    /\ pc = "again"
    /\ \/ /\ fastboot_state \notin {"ERROR", "RETURN"}
          /\ IF idle_timeout /\ idle_timer
             THEN pc' = "panic" /\ UNCHANGED <<xfer, idle_timer>>
             ELSE /\ idle_timer' = idle_timeout
                  /\ pc' = "command" /\ xfer' = "queue"
          /\ UNCHANGED fastboot_state
       \/ /\ fastboot_state = "ERROR"
          /\ fastboot_state' = "OFFLINE"
          /\ pc' = "offline"
          /\ UNCHANGED <<xfer, idle_timer>>
       \/ /\ fastboot_state = "RETURN"
          /\ pc' = "stopped"
          /\ UNCHANGED <<fastboot_state, xfer, idle_timer>>
    /\ UNCHANGED <<bcvars, rigid, buffer, command, metadata, pieces, reply, usb, usb_online,
                   online, host>>

\* The handlers, up to their answer.
dispatch ==
    /\ pc = "dispatch"
    /\ pc' = CASE command.op \in {"getvar", "continue", "unknown"} -> "reply"
               [] command.op = "set_active" -> "slot_read"
               [] command.op = "download" -> "DATA"
               [] OTHER -> "handled"
    /\ xfer' = IF command.op = "download" THEN "queue" ELSE "none"
    /\ reply' = [id |-> command.id, code |-> CASE command.op = "download" -> "DATA"
                                               [] command.op = "unknown" -> "FAIL"
                                               [] OTHER -> "OKAY"]
    /\ UNCHANGED <<bcvars, rigid, fastboot_state, idle_timer, buffer, command, metadata, pieces,
                   usb, usb_online, online, host>>

\* A mutant that leaves the state as it is.
fastboot_ack_NotComplete ==
    /\ pc = "reply"
    /\ IF fastboot_state # "COMMAND"
       THEN pc' = "handled" /\ UNCHANGED xfer
       ELSE pc' = "ack" /\ xfer' = "queue"
    /\ UNCHANGED <<bcvars, rigid, fastboot_state, idle_timer, buffer, command, metadata, pieces,
                   reply, usb, usb_online, online, host>>

fastboot_ack ==
    /\ pc = "reply"
    /\ IF fastboot_state # "COMMAND"
       THEN pc' = "handled" /\ UNCHANGED <<fastboot_state, xfer>>
       ELSE /\ fastboot_state' = "COMPLETE"
            /\ pc' = "ack" /\ xfer' = "queue"
    /\ UNCHANGED <<bcvars, rigid, idle_timer, buffer, command, metadata, pieces, reply, usb,
                   usb_online, online, host>>

\* The locals of the handlers are gone.
Return ==
    /\ command' = None /\ metadata' = initDefaultBootControl /\ pieces' = 0
    /\ reply' = NoReply

\* A mutant that does not answer for a handler that has not.
handled_NoAnswer ==
    /\ pc = "handled"
    /\ fastboot_state' = IF command.op = "continue" THEN "RETURN" ELSE fastboot_state
    /\ pc' = "again" /\ Return
    /\ UNCHANGED <<bcvars, rigid, xfer, idle_timer, buffer, usb, usb_online, online, host>>

\* Back in the loop: cmd_continue has called fastboot_exit; a command without an
\* answer is answered.
handled ==
    /\ pc = "handled"
    /\ fastboot_state' = IF command.op = "continue" THEN "RETURN" ELSE fastboot_state
    /\ IF fastboot_state' = "COMMAND"
       THEN /\ pc' = "reply" /\ reply' = [code |-> "FAIL", id |-> command.id]
            /\ UNCHANGED <<command, metadata, pieces>>
       ELSE pc' = "again" /\ Return
    /\ UNCHANGED <<bcvars, rigid, xfer, idle_timer, buffer, usb, usb_online, online, host>>

\* cmd_set_active: set_active_slot and the answer.
Answer(code) == pc' = "reply" /\ reply' = [code |-> code, id |-> command.id]

slot_read ==
    /\ pc = "slot_read"
    /\ \/ Answer("FAIL") /\ UNCHANGED <<metadata, misc>>
       \/ /\ \E found \in Metadata, after \in Metadata :
                /\ ReadPartition(found, after)
                /\ misc' = after
                /\ metadata' = Activated(found, command.slot)
          /\ pc' = "slot_region"
          /\ UNCHANGED reply
    /\ UNCHANGED <<region, rigid, fastboot_state, xfer, idle_timer, buffer, command, pieces, usb,
                   usb_online, online, host>>

slot_region ==
    /\ pc = "slot_region"
    /\ \/ Answer("FAIL") /\ UNCHANGED region
       \/ region' = command.slot /\ pc' = "slot_write" /\ UNCHANGED reply
    /\ UNCHANGED <<misc, rigid, fastboot_state, xfer, idle_timer, buffer, command, metadata,
                   pieces, usb, usb_online, online, host>>

slot_write ==
    /\ pc = "slot_write"
    /\ \/ Answer("FAIL") /\ UNCHANGED misc
       \/ Answer("OKAY") /\ misc' = metadata
    /\ UNCHANGED <<region, rigid, fastboot_state, xfer, idle_timer, buffer, command, metadata,
                   pieces, usb, usb_online, online, host>>
-----------------------------------------------------------------------------
\* The host, the cable, the power; and what handle_ept_complete makes of them.

HostSend(op, slot) ==
    LET c == [op |-> op, slot |-> slot, id |-> count + 1]
    IN /\ online /\ out # None
       /\ asked = None
       /\ count < MaxCommands
       /\ op # "set_active" => slot = "a"
       /\ count' = count + 1
       /\ asked' = c
       /\ active' = IF op = "set_active" THEN "none" ELSE active
       /\ buffer' = c
       /\ out' = None /\ txn_status' = 0 /\ txn_done' = event_signal(txn_done)
       /\ UNCHANGED <<bcvars, rigid, fastboot_state, pc, xfer, idle_timer, command, metadata,
                      pieces, reply, in, usb_online, online, left>>

\* The next piece of a download.  The host may have less than it announced.
HostData(kind) ==
    /\ online /\ out # None
    /\ left > 0
    /\ left' = IF kind = "short" THEN 0 ELSE left - 1
    /\ buffer' = [None EXCEPT !.op = kind]
    /\ out' = None /\ txn_status' = 0 /\ txn_done' = event_signal(txn_done)
    /\ UNCHANGED <<bcvars, rigid, fastboot_state, pc, xfer, idle_timer, command, metadata,
                   pieces, reply, in, usb_online, online, asked, count, active>>

\* OKAY and FAIL end the command the host waits for, if there is one.
HostRead ==
    /\ online /\ in # None
    /\ IF in.op = "DATA"
       THEN left' = (IF asked = None THEN 0 ELSE Pieces) /\ UNCHANGED <<asked, active>>
       ELSE /\ left' = 0
            /\ asked' = None
            /\ active' = IF asked.op = "set_active" /\ in.op = "OKAY" THEN asked.slot ELSE active
    /\ in' = None /\ txn_status' = 0 /\ txn_done' = event_signal(txn_done)
    /\ UNCHANGED <<bcvars, rigid, fastboot_state, pc, xfer, idle_timer, buffer, command, metadata,
                   pieces, reply, out, usb_online, online, count>>

\* mtu3_suspend: offline, and every pending request fails.
Unplug ==
    LET once == event_signal(txn_done)
    IN /\ online' = FALSE
       /\ usb_online' = event_unsignal(usb_online)
       /\ in' = None /\ out' = None
       /\ txn_status' = IF in # None \/ out # None THEN -1 ELSE txn_status
       /\ txn_done' = IF in # None /\ out # None THEN event_signal(once)
                      ELSE IF in # None \/ out # None THEN once
                      ELSE txn_done
       /\ asked' = None /\ left' = 0
       /\ UNCHANGED <<bcvars, rigid, fastboot_state, pc, xfer, idle_timer, buffer, command,
                      metadata, pieces, reply, count, active>>

\* The thread waits for the host, or for a command that has not come.
AtRest == pc = "offline" \/ (pc = "command" /\ ~(xfer = "wait" /\ MayPass(txn_done)))

\* SET_CONFIGURATION, with 1 after the cable is plugged in or the bus was reset; what is
\* pending stays.  The host starts from nothing.  usb is stopped once the loop has ended.
SetConfiguration(value) ==
    /\ pc \notin {"stopped", "panic"}
    /\ calm => AtRest
    /\ online' = (value # 0)
    /\ usb_online' = IF value = 1 THEN event_signal(usb_online) ELSE event_unsignal(usb_online)
    /\ asked' = None /\ left' = 0
    /\ UNCHANGED <<bcvars, rigid, fastboot_state, pc, xfer, idle_timer, buffer, command, metadata,
                   pieces, reply, usb, count, active>>

PowerLoss == Restart

fastboot_idle_reboot == idle_timer /\ pc # "panic" /\ Restart
-----------------------------------------------------------------------------
Thread ==
    \/ udc_request_queue \/ request_post \/ txn_wait_block \/ txn_wait_timeout \/ txn_wait_pass
    \/ handler_block \/ handler_pass \/ again \/ dispatch \/ fastboot_ack \/ handled
    \/ slot_read \/ slot_region \/ slot_write

HostAnswers == HostRead \/ \E kind \in {"full", "short"} : HostData(kind)

Next ==
    \/ Thread
    \/ \E op \in Ops, slot \in Slots : HostSend(op, slot)
    \/ HostAnswers
    \/ Unplug
    \/ \E value \in {0, 1} : SetConfiguration(value)
    \/ PowerLoss \/ fastboot_idle_reboot

(***************************************************************************)
(* The thread runs whenever it can; the host reads what it is sent and     *)
(* sends the data it announced.  Nothing has to be sent, plugged in or     *)
(* unplugged.                                                              *)
(***************************************************************************)
Spec == Init /\ [][Next]_vars /\ WF_vars(Thread) /\ WF_vars(HostAnswers)
-----------------------------------------------------------------------------
\* With a calm host each command gets one answer, and its own: through handlers that
\* give none, downloads that come short, cables that are cut between the check and the
\* queueing of a request, configurations set again and reboots.  (A host that takes an
\* answer late, or starts again while its command is handled, can get the old answer.)
AnswersMatch ==
    [][calm /\ HostRead /\ in.op # "DATA" => asked # None /\ in.id = asked.id]_vars

\* What the host was told lasts: after OKAY to set_active the boot region and the
\* metadata in misc both say that slot, through commands that fail half way, loss
\* of power and reboots, until the host asks for another.
SlotDurable == calm /\ active # "none" => region = active /\ get_suffix(misc) = active

\* With a calm host a command whose sender stays connected is answered, whatever its
\* handler does.
Answered == calm /\ asked # None ~> asked = None
=============================================================================
