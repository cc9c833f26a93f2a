---------------------------- MODULE BootProofs ----------------------------
(***************************************************************************)
(* The boot-time components for every value of their constants: the        *)
(* command loop and transport of module Fastboot, the handshake between    *)
(* the receiving and the flashing thread of module Transfer, and the boot  *)
(* memory allocator of module Mblock.                                      *)
(***************************************************************************)
EXTENDS Fastboot, Transfer, Mblock, ListProofs, TLAPS

\* A wait on the event that would get through.
Token(e) == e.signaled \/ e.wait = "woken"

Types ==
    /\ txn_done \in Events
    /\ txn_done.wait = "blocked" => ~txn_done.signaled
    /\ txn_status \in {-1, 0}
    /\ buffer.slot \in Slots
    /\ command.slot \in Slots
    /\ reply = [code |-> reply.code, id |-> reply.id]

\* Where the thread is in a transfer, which state it is in by then, and what it has
\* got to say.
ThreadInv ==
    /\ xfer \in {"none", "queue", "post", "wait"}
    /\ xfer # "none" => pc \in {"command", "data", "DATA", "ack"}
    /\ pc = "offline" => fastboot_state = "OFFLINE"
    /\ pc = "command" => fastboot_state # "ERROR"
    /\ pc = "ack" => fastboot_state = "COMPLETE"
    /\ pc = "reply" => fastboot_state \in {"COMMAND", "ERROR"}
    /\ pc \in {"dispatch", "slot_read", "slot_region", "slot_write", "DATA", "data"}
          => fastboot_state = "COMMAND"
    /\ pc = "handled" /\ fastboot_state = "COMMAND" => command.op # "continue"
    /\ pc \in {"reply", "ack", "DATA", "data"} => reply.id = command.id
    /\ pc \in {"reply", "ack"} => reply.code \in {"OKAY", "FAIL"}
    /\ pc \in {"DATA", "data"} => reply.code = "DATA" /\ command.op = "download"

\* A transfer that is waited for is either pending or has ended, and its end has been
\* signaled once; no other signal is about.  A transfer that fails was cut off.
TransferInv ==
    /\ in # None => xfer = "wait" /\ pc \in {"ack", "DATA"}
    /\ in # None => in.op = reply.code /\ in.id = reply.id
    /\ out # None => xfer = "wait" /\ pc \in Reads
    /\ Token(txn_done) <=> xfer = "wait" /\ in = None /\ out = None
    /\ ~(txn_done.signaled /\ txn_done.wait = "woken")
    /\ xfer = "wait" /\ Token(txn_done) /\ txn_status < 0 => ~online
    /\ online => fastboot_state # "ERROR"

\* The command has come, but the thread has not got it yet.
Arrived == pc = "command" /\ xfer = "wait" /\ Token(txn_done) /\ txn_status >= 0

\* The thread has got the command and not answered it yet.
Working ==
    \/ pc \in {"dispatch", "slot_read", "slot_region", "slot_write", "reply", "DATA", "data"}
    \/ pc = "ack" /\ (xfer \in {"queue", "post"} \/ in # None)
    \/ pc = "handled" /\ fastboot_state = "COMMAND"

\* The host waits for the answer to the very command that has come or that the thread
\* works at, as long as it is connected.
HostInv ==
    /\ asked # None => online /\ (Arrived \/ Working)
    /\ asked # None /\ Arrived => buffer = asked
    /\ asked # None /\ Working => command = asked
    /\ online /\ (Arrived \/ Working) => asked # None
    /\ left > 0 => asked # None

\* How far a set_active has got; while it is under way nothing is promised.
SlotInv ==
    /\ Arrived /\ buffer.op = "set_active" => active = "none"
    /\ Working /\ command.op = "set_active" => active = "none"
    /\ pc \in {"slot_read", "slot_region", "slot_write"} => command.op = "set_active"
    /\ pc \in {"slot_region", "slot_write"} => get_suffix(metadata) = command.slot
    /\ pc = "slot_write" => region = command.slot
    /\ pc \in {"reply", "ack"} /\ command.op = "set_active" /\ reply.code = "OKAY"
          => region = command.slot /\ get_suffix(misc) = command.slot
    /\ active # "none" => region = active /\ get_suffix(misc) = active

IInv ==
    /\ Types
    /\ ThreadInv
    /\ calm => TransferInv /\ HostInv /\ SlotInv

-----------------------------------------------------------------------------
\* What the operations on txn_done do.
LEMMA EventSteps ==
    ASSUME NEW e \in Events, e.wait = "blocked" => ~e.signaled
    PROVE  /\ event_signal(e) \in Events
           /\ event_signal(e).wait = "blocked" => ~event_signal(e).signaled
           /\ event_wait_pass(e) \in Events
           /\ event_wait_pass(e).wait = "none"
           /\ MustBlock(e) => /\ event_wait_block(e) \in Events
                              /\ ~event_wait_block(e).signaled
           /\ [e EXCEPT !.wait = "none"] \in Events
           /\ [e EXCEPT !.wait = "none"].wait = "none"
           /\ event_init(FALSE) \in Events
           /\ event_init(FALSE).wait = "none"
BY DEF Events, event_signal, event_wait_pass, MustBlock, event_wait_block, event_init

\* The records that EXCEPT makes of a request or an answer.
LEMMA RequestTypes ==
    /\ None.slot \in Slots
    /\ NoReply = [code |-> NoReply.code, id |-> NoReply.id]
    /\ \A op, id : [None EXCEPT !.op = op, !.id = id] = [op |-> op, slot |-> "a", id |-> id]
    /\ \A op : [None EXCEPT !.op = op] = [op |-> op, slot |-> "a", id |-> 0]
    /\ \A r : r = [code |-> r.code, id |-> r.id] =>
          [r EXCEPT !.code = "FAIL"] = [code |-> "FAIL", id |-> r.id]
<1>1. None.slot \in Slots
  BY DEF None, Slots
<1>2. NoReply = [code |-> NoReply.code, id |-> NoReply.id]
  BY DEF NoReply
<1>3. \A op, id : [None EXCEPT !.op = op, !.id = id] = [op |-> op, slot |-> "a", id |-> id]
  <2>1. ASSUME NEW op, NEW id
        PROVE  [None EXCEPT !.op = op, !.id = id] = [op |-> op, slot |-> "a", id |-> id]
    <3>1. [None EXCEPT !.op = op] = [op |-> op, slot |-> "a", id |-> 0]
      BY DEF None
    <3>2. [[op |-> op, slot |-> "a", id |-> 0] EXCEPT !.id = id]
            = [op |-> op, slot |-> "a", id |-> id]
      OBVIOUS
    <3>3. QED
      BY <3>1, <3>2
  <2>2. QED
    BY <2>1
<1>4. \A op : [None EXCEPT !.op = op] = [op |-> op, slot |-> "a", id |-> 0]
  BY DEF None
<1>5. ASSUME NEW r, r = [code |-> r.code, id |-> r.id]
      PROVE  [r EXCEPT !.code = "FAIL"] = [code |-> "FAIL", id |-> r.id]
  <2> DEFINE c == r.code
             i == r.id
  <2> HIDE DEF c, i
  <2>1. [[code |-> c, id |-> i] EXCEPT !.code = "FAIL"] = [code |-> "FAIL", id |-> i]
    OBVIOUS
  <2>2. QED
    BY <1>5, <2>1 DEF c, i
<1>6. QED
  BY <1>1, <1>2, <1>3, <1>4, <1>5

\* A slot that has been made active is the one that is booted.
LEMMA ActivatedSuffix ==
    ASSUME NEW found \in Metadata, NEW slot \in Slots
    PROVE  get_suffix(Activated(found, slot)) = slot
<1> DEFINE after == Activated(found, slot)
<1>1. /\ after.magic = "BOOTCTRL_MAGIC"
      /\ \A s \in Slots : after.priority[s] = IF s = slot THEN MaxPri
                                              ELSE IF found.priority[s] >= MaxPri THEN MaxPri - 1
                                              ELSE found.priority[s]
  BY DEF Activated
<1> HIDE DEF after
<1>2. \A s \in Slots : found.priority[s] \in Nat
  <2>1. CASE found \in Valid
    BY <2>1, MaxPriAssumption DEF Valid, Priorities
  <2>2. CASE found \notin Valid
    BY <2>2 DEF Metadata
  <2>3. QED
    BY <2>1, <2>2
<1>3. after.priority[slot] = MaxPri
  BY <1>1
<1>4. \A s \in Slots \ {slot} : after.priority[s] \in Int /\ after.priority[s] < MaxPri
  BY <1>1, <1>2, MaxPriAssumption
<1>5. get_suffix(after) = slot
  BY <1>1, <1>3, <1>4, MaxPriAssumption DEF get_suffix, Slots
<1>6. QED
  BY <1>5 DEF after

\* The steps of usb_read and usb_write keep the invariant.
LEMMA UsbIInv ==
    ASSUME IInv, \/ udc_request_queue \/ request_post
                 \/ txn_wait_block \/ txn_wait_timeout \/ txn_wait_pass
    PROVE  IInv'
<1> USE DEF IInv
<1>0. CASE udc_request_queue
  <2> USE <1>0 DEF udc_request_queue, Oops, rigid, usb, host, bcvars
  <2>1. Types'
    BY RequestTypes DEF Types
  <2>2. ThreadInv'
    BY DEF ThreadInv, Types
  <2>3. ASSUME calm PROVE TransferInv'
    BY <2>3 DEF TransferInv, ThreadInv
  <2>4. ASSUME calm PROVE HostInv'
    BY <2>4 DEF HostInv, Arrived, Working, TransferInv, ThreadInv
  <2>5. ASSUME calm PROVE SlotInv'
    BY <2>5 DEF SlotInv, Arrived, Working, TransferInv, ThreadInv
  <2>6. calm' = calm
    OBVIOUS
  <2>7. QED
    BY <2>1, <2>2, <2>3, <2>4, <2>5, <2>6
<1>1. CASE request_post
  <2>0. /\ xfer = "post" /\ xfer' = "wait"
        /\ UNCHANGED <<misc, region, calm, buffer, command, metadata, txn_done, txn_status,
                       online, asked, left, active, fastboot_state, pc, reply>>
        /\ \/ /\ pc \in Reads
              /\ out' = [op |-> "read", slot |-> "a", id |-> 0]
              /\ UNCHANGED in
           \/ /\ pc \notin Reads
              /\ in' = [op |-> reply.code, slot |-> "a", id |-> reply.id]
              /\ UNCHANGED out
    BY <1>1, RequestTypes DEF request_post, rigid, host, bcvars
  <2> USE <2>0
  <2>1. Types'
    BY RequestTypes DEF Types
  <2>2. ThreadInv'
    BY DEF ThreadInv, Types
  <2>3. ASSUME calm PROVE TransferInv'
    BY <2>3 DEF TransferInv, ThreadInv, Reads, None
  <2>4. ASSUME calm PROVE HostInv'
    <3>1. pc = "ack" => in' # None
      BY DEF Reads, ThreadInv, None
    <3>2. in = None /\ (pc \in Reads => out' # None)
      BY <2>4 DEF None, TransferInv
    <3>3. ~Token(txn_done)
      BY <2>4 DEF TransferInv
    <3>4. QED
      BY <2>4, <3>1, <3>2, <3>3 DEF HostInv, Arrived, Working, ThreadInv
  <2>5. ASSUME calm PROVE SlotInv'
    BY <2>5 DEF SlotInv, Arrived, Working, TransferInv, ThreadInv
  <2>6. calm' = calm
    OBVIOUS
  <2>7. QED
    BY <2>1, <2>2, <2>3, <2>4, <2>5, <2>6
<1>2. CASE txn_wait_block
  <2> USE <1>2 DEF txn_wait_block, rigid, usb, host, bcvars
  <2>1. Types'
    BY EventSteps DEF Types
  <2>2. ThreadInv'
    BY DEF ThreadInv
  <2>3. ASSUME calm PROVE TransferInv'
    BY <2>3 DEF TransferInv, Types, Token, Events, event_wait_block, MustBlock
  <2>4. ASSUME calm PROVE HostInv'
    BY <2>3, <2>4 DEF HostInv, Arrived, Working, TransferInv
  <2>5. ASSUME calm PROVE SlotInv'
    BY <2>3, <2>5 DEF SlotInv, Arrived, Working, TransferInv
  <2>6. calm' = calm
    OBVIOUS
  <2>7. QED
    BY <2>1, <2>2, <2>3, <2>4, <2>5, <2>6
<1>3. CASE txn_wait_timeout
  <2> USE <1>3 DEF txn_wait_timeout, Oops, rigid, usb, host, bcvars
  <2>1. Types'
    BY EventSteps, RequestTypes DEF Types
  <2>2. ThreadInv'
    BY DEF ThreadInv
  <2>3. ASSUME calm PROVE TransferInv'
    BY <2>3
  <2>4. ASSUME calm PROVE HostInv'
    BY <2>4
  <2>5. ASSUME calm PROVE SlotInv'
    BY <2>5
  <2>6. calm' = calm
    OBVIOUS
  <2>7. QED
    BY <2>1, <2>2, <2>3, <2>4, <2>5, <2>6
<1>4. CASE txn_wait_pass
  <2> USE <1>4 DEF txn_wait_pass, Oops, rigid, usb, host, bcvars
  <2>1. Types'
    <3>1. /\ txn_done' \in Events
          /\ txn_done'.wait = "blocked" => ~txn_done'.signaled
      BY EventSteps DEF Types
    <3>2. buffer' = buffer /\ txn_status' = txn_status
      OBVIOUS
    <3>3. command' = command \/ command' = buffer
      OBVIOUS
    <3>4. reply' = [code |-> reply'.code, id |-> reply'.id]
      <4>1. \/ reply' \in {reply, [reply EXCEPT !.code = "FAIL"]}
            \/ \E code, id : reply' = [code |-> code, id |-> id]
        OBVIOUS
      <4>2. QED
        BY <4>1, RequestTypes DEF Types
    <3>5. QED
      BY <3>1, <3>2, <3>3, <3>4 DEF Types
  <2>2. ThreadInv'
    BY DEF ThreadInv, Types
  <2>3. ASSUME calm PROVE TransferInv'
    BY <2>3 DEF TransferInv, ThreadInv, Types, Token, event_wait_pass, MayPass
  <2>4. ASSUME calm PROVE HostInv'
    BY <2>4 DEF HostInv, Arrived, Working, TransferInv, ThreadInv, Token, MayPass
  <2>5. ASSUME calm PROVE SlotInv'
    BY <2>5 DEF SlotInv, Arrived, Working, TransferInv, ThreadInv, Token, MayPass
  <2>6. calm' = calm
    OBVIOUS
  <2>7. QED
    BY <2>1, <2>2, <2>3, <2>4, <2>5, <2>6
<1>5. QED
  BY <1>0, <1>1, <1>2, <1>3, <1>4

\* The steps of the command loop keep the invariant.
LEMMA LoopIInv ==
    ASSUME IInv, handler_block \/ handler_pass \/ again \/ dispatch \/ fastboot_ack \/ handled
    PROVE  IInv'
<1> USE DEF IInv
<1>1. CASE handler_block
  <2> USE <1>1 DEF handler_block, rigid, usb, host, bcvars
  <2>1. Types'
    BY DEF Types
  <2>2. ThreadInv'
    BY DEF ThreadInv
  <2>3. ASSUME calm PROVE TransferInv'
    BY <2>3 DEF TransferInv, ThreadInv
  <2>4. ASSUME calm PROVE HostInv'
    BY <2>4 DEF HostInv, Arrived, Working, TransferInv, ThreadInv
  <2>5. ASSUME calm PROVE SlotInv'
    BY <2>5 DEF SlotInv, Arrived, Working, ThreadInv
  <2>6. calm' = calm
    OBVIOUS
  <2>7. QED
    BY <2>1, <2>2, <2>3, <2>4, <2>5, <2>6
<1>2. CASE handler_pass
  <2> USE <1>2 DEF handler_pass, rigid, usb, host, bcvars
  <2>1. Types'
    BY DEF Types
  <2>2. ThreadInv'
    BY DEF ThreadInv
  <2>3. ASSUME calm PROVE TransferInv'
    BY <2>3 DEF TransferInv, ThreadInv
  <2>4. ASSUME calm PROVE HostInv'
    BY <2>4 DEF HostInv, Arrived, Working, TransferInv, ThreadInv
  <2>5. ASSUME calm PROVE SlotInv'
    BY <2>5 DEF SlotInv, Arrived, Working, ThreadInv
  <2>6. calm' = calm
    OBVIOUS
  <2>7. QED
    BY <2>1, <2>2, <2>3, <2>4, <2>5, <2>6
<1>3. CASE again
  <2> USE <1>3 DEF again, rigid, usb, host, bcvars
  <2>1. Types'
    BY DEF Types
  <2>2. ThreadInv'
    BY DEF ThreadInv
  <2>3. ASSUME calm PROVE TransferInv'
    BY <2>3 DEF TransferInv, ThreadInv
  <2>4. ASSUME calm PROVE HostInv'
    BY <2>4 DEF HostInv, Arrived, Working, TransferInv, ThreadInv
  <2>5. ASSUME calm PROVE SlotInv'
    BY <2>5 DEF SlotInv, Arrived, Working, ThreadInv
  <2>6. calm' = calm
    OBVIOUS
  <2>7. QED
    BY <2>1, <2>2, <2>3, <2>4, <2>5, <2>6
<1>4. CASE dispatch
  <2> USE <1>4 DEF dispatch, rigid, usb, host, bcvars
  <2>1. Types'
    BY DEF Types
  <2>2. ThreadInv'
    BY DEF ThreadInv
  <2>3. ASSUME calm PROVE TransferInv'
    BY <2>3 DEF TransferInv, ThreadInv
  <2>4. ASSUME calm PROVE HostInv'
    BY <2>4 DEF HostInv, Arrived, Working, TransferInv, ThreadInv
  <2>5. ASSUME calm PROVE SlotInv'
    BY <2>5 DEF SlotInv, Arrived, Working, ThreadInv
  <2>6. calm' = calm
    OBVIOUS
  <2>7. QED
    BY <2>1, <2>2, <2>3, <2>4, <2>5, <2>6
<1>5. CASE fastboot_ack
  <2> USE <1>5 DEF fastboot_ack, rigid, usb, host, bcvars
  <2>1. Types'
    BY DEF Types
  <2>2. ThreadInv'
    BY DEF ThreadInv
  <2>3. ASSUME calm PROVE TransferInv'
    BY <2>3 DEF TransferInv, ThreadInv
  <2>4. ASSUME calm PROVE HostInv'
    BY <2>4 DEF HostInv, Arrived, Working, TransferInv, ThreadInv
  <2>5. ASSUME calm PROVE SlotInv'
    BY <2>5 DEF SlotInv, Arrived, Working, ThreadInv
  <2>6. calm' = calm
    OBVIOUS
  <2>7. QED
    BY <2>1, <2>2, <2>3, <2>4, <2>5, <2>6
<1>6. CASE handled
  <2> USE <1>6 DEF handled, Return, rigid, usb, host, bcvars
  <2>1. Types'
    <3>1. reply' = [code |-> reply'.code, id |-> reply'.id]
      <4>1. reply' = NoReply \/ \E code, id : reply' = [code |-> code, id |-> id]
        OBVIOUS
      <4>2. QED
        BY <4>1, RequestTypes
    <3>2. command'.slot \in Slots
      BY RequestTypes DEF Types
    <3>3. UNCHANGED <<txn_done, txn_status, buffer>>
      OBVIOUS
    <3>4. QED
      BY <3>1, <3>2, <3>3 DEF Types
  <2>2. ThreadInv'
    BY DEF ThreadInv
  <2>3. ASSUME calm PROVE TransferInv'
    BY <2>3 DEF TransferInv, ThreadInv
  <2>4. ASSUME calm PROVE HostInv'
    BY <2>4 DEF HostInv, Arrived, Working, TransferInv, ThreadInv
  <2>5. ASSUME calm PROVE SlotInv'
    BY <2>5 DEF SlotInv, Arrived, Working, ThreadInv
  <2>6. calm' = calm
    OBVIOUS
  <2>7. QED
    BY <2>1, <2>2, <2>3, <2>4, <2>5, <2>6
<1>7. QED
  BY <1>1, <1>2, <1>3, <1>4, <1>5, <1>6

\* The steps of set_active_slot keep the invariant: its two writes and their failures.
LEMMA SetActiveIInv ==
    ASSUME IInv, slot_read \/ slot_region \/ slot_write
    PROVE  IInv'
<1> USE DEF IInv
<1>1. CASE slot_read
  <2> USE <1>1 DEF slot_read, Answer, rigid, usb, host, bcvars
  <2>1. Types'
    BY DEF Types
  <2>2. ThreadInv'
    BY DEF ThreadInv
  <2>3. ASSUME calm PROVE TransferInv'
    BY <2>3 DEF TransferInv, ThreadInv
  <2>4. ASSUME calm PROVE HostInv'
    BY <2>4 DEF HostInv, Arrived, Working, TransferInv, ThreadInv
  <2>5. ASSUME calm PROVE SlotInv'
    BY <2>3, <2>4, <2>5, ActivatedSuffix
       DEF SlotInv, HostInv, Arrived, Working, TransferInv, ThreadInv, Types, None
  <2>6. calm' = calm
    OBVIOUS
  <2>7. QED
    BY <2>1, <2>2, <2>3, <2>4, <2>5, <2>6
<1>2. CASE slot_region
  <2> USE <1>2 DEF slot_region, Answer, rigid, usb, host, bcvars
  <2>1. Types'
    BY DEF Types
  <2>2. ThreadInv'
    BY DEF ThreadInv
  <2>3. ASSUME calm PROVE TransferInv'
    BY <2>3 DEF TransferInv, ThreadInv
  <2>4. ASSUME calm PROVE HostInv'
    BY <2>4 DEF HostInv, Arrived, Working, TransferInv, ThreadInv
  <2>5. ASSUME calm PROVE SlotInv'
    BY <2>5 DEF SlotInv, Arrived, Working, ThreadInv
  <2>6. calm' = calm
    OBVIOUS
  <2>7. QED
    BY <2>1, <2>2, <2>3, <2>4, <2>5, <2>6
<1>3. CASE slot_write
  <2> USE <1>3 DEF slot_write, Answer, rigid, usb, host, bcvars
  <2>1. Types'
    BY DEF Types
  <2>2. ThreadInv'
    BY DEF ThreadInv
  <2>3. ASSUME calm PROVE TransferInv'
    BY <2>3 DEF TransferInv, ThreadInv
  <2>4. ASSUME calm PROVE HostInv'
    BY <2>4 DEF HostInv, Arrived, Working, TransferInv, ThreadInv
  <2>5. ASSUME calm PROVE SlotInv'
    BY <2>5 DEF SlotInv, Arrived, Working, ThreadInv
  <2>6. calm' = calm
    OBVIOUS
  <2>7. QED
    BY <2>1, <2>2, <2>3, <2>4, <2>5, <2>6
<1>4. QED
  BY <1>1, <1>2, <1>3

\* Unplugging, setting a configuration, loss of power and the idle reboot keep the invariant.
LEMMA CableIInv ==
    ASSUME IInv, NEW value \in {0, 1},
           Unplug \/ SetConfiguration(value) \/ PowerLoss \/ fastboot_idle_reboot
    PROVE  IInv'
<1> USE DEF IInv
<1>1. CASE Unplug
  <2> USE <1>1 DEF Unplug, rigid, usb, host, bcvars
  <2>1. Types'
    <3> DEFINE once == event_signal(txn_done)
    <3>1. /\ once \in Events
          /\ once.wait = "blocked" => ~once.signaled
      BY EventSteps DEF Types
    <3>2. /\ event_signal(once) \in Events
          /\ event_signal(once).wait = "blocked" => ~event_signal(once).signaled
      BY <3>1, EventSteps
    <3>3. txn_done' \in {txn_done, once, event_signal(once)}
      OBVIOUS
    <3>4. txn_status' \in {-1, 0} /\ UNCHANGED <<buffer, command, reply>>
      BY DEF Types
    <3> HIDE DEF once
    <3>5. QED
      BY <3>1, <3>2, <3>3, <3>4 DEF Types
  <2>2. ThreadInv'
    BY DEF ThreadInv
  <2>3. ASSUME calm PROVE TransferInv'
    BY <2>3 DEF TransferInv, Types, Reads, Token, Events, event_signal
  <2>4. ASSUME calm PROVE HostInv'
    BY <2>4 DEF HostInv
  <2>5. ASSUME calm PROVE SlotInv'
    BY <2>3, <2>5 DEF SlotInv, Arrived, Working, TransferInv, Types
  <2>6. calm' = calm
    OBVIOUS
  <2>7. QED
    BY <2>1, <2>2, <2>3, <2>4, <2>5, <2>6
<1>2. CASE SetConfiguration(value)
  <2> USE <1>2 DEF SetConfiguration, rigid, usb, host, bcvars
  <2>1. Types'
    BY DEF Types
  <2>2. ThreadInv'
    BY DEF ThreadInv
  <2>3. ASSUME calm PROVE /\ pc \in {"offline", "command"} /\ ~Arrived
                          /\ ~(xfer = "wait" /\ Token(txn_done))
    <3>1. MayPass(txn_done) <=> Token(txn_done)
      BY DEF Types, Events, MayPass, Token
    <3>2. QED
      BY <2>3, <3>1 DEF AtRest, ThreadInv, Arrived
  <2>4. ASSUME calm PROVE TransferInv'
    BY <2>3, <2>4 DEF TransferInv, ThreadInv
  <2>5. ASSUME calm PROVE HostInv'
    BY <2>3, <2>5 DEF HostInv, Arrived, Working
  <2>6. ASSUME calm PROVE SlotInv'
    BY <2>3, <2>6 DEF SlotInv, Arrived, Working
  <2>7. calm' = calm
    OBVIOUS
  <2>8. QED
    BY <2>1, <2>2, <2>4, <2>5, <2>6, <2>7
<1>3. CASE PowerLoss
  <2> USE <1>3 DEF PowerLoss, Restart, rigid, usb, host, bcvars
  <2>1. Types'
    BY EventSteps, RequestTypes DEF Types
  <2>2. ThreadInv'
    BY DEF ThreadInv
  <2>3. ASSUME calm PROVE TransferInv'
    BY <2>3 DEF TransferInv, Token, event_init
  <2>4. ASSUME calm PROVE HostInv'
    BY <2>4 DEF HostInv
  <2>5. ASSUME calm PROVE SlotInv'
    BY <2>5 DEF SlotInv, Arrived, Working
  <2>6. calm' = calm
    OBVIOUS
  <2>7. QED
    BY <2>1, <2>2, <2>3, <2>4, <2>5, <2>6
<1>4. CASE fastboot_idle_reboot
  <2> USE <1>4 DEF fastboot_idle_reboot, Restart, rigid, usb, host, bcvars
  <2>1. Types'
    BY EventSteps, RequestTypes DEF Types
  <2>2. ThreadInv'
    BY DEF ThreadInv
  <2>3. ASSUME calm PROVE TransferInv'
    BY <2>3 DEF TransferInv, Token, event_init
  <2>4. ASSUME calm PROVE HostInv'
    BY <2>4 DEF HostInv
  <2>5. ASSUME calm PROVE SlotInv'
    BY <2>5 DEF SlotInv, Arrived, Working
  <2>6. calm' = calm
    OBVIOUS
  <2>7. QED
    BY <2>1, <2>2, <2>3, <2>4, <2>5, <2>6
<1>5. QED
  BY <1>1, <1>2, <1>3, <1>4

\* What the host sends and reads keeps the invariant.
LEMMA HostIInv ==
    ASSUME IInv, NEW op \in Ops, NEW slot \in Slots, NEW kind \in {"full", "short"},
           HostSend(op, slot) \/ HostData(kind) \/ HostRead
    PROVE  IInv'
<1> USE DEF IInv
<1>1. CASE HostSend(op, slot)
  <2> USE <1>1 DEF HostSend, rigid, usb, host, bcvars
  <2>1. Types'
    BY EventSteps DEF Types
  <2>2. ThreadInv'
    BY DEF ThreadInv
  <2>3. ASSUME calm PROVE TransferInv'
    BY <2>3 DEF TransferInv, Types, Reads, Token, Events, event_signal
  <2>4. ASSUME calm PROVE HostInv'
    BY <2>3, <2>4 DEF HostInv, Arrived, Working, TransferInv, Reads, None, Ops
  <2>5. ASSUME calm PROVE SlotInv'
    BY <2>3, <2>5 DEF SlotInv, HostInv, Arrived, Working, TransferInv, Reads
  <2>6. calm' = calm
    OBVIOUS
  <2>7. QED
    BY <2>1, <2>2, <2>3, <2>4, <2>5, <2>6
<1>2. CASE HostData(kind)
  <2> USE <1>2 DEF HostData, rigid, usb, host, bcvars
  <2>1. Types'
    <3>1. /\ txn_done' \in Events
          /\ txn_done'.wait = "blocked" => ~txn_done'.signaled
      BY EventSteps DEF Types
    <3>2. buffer'.slot \in Slots
      BY DEF None, Slots
    <3>3. txn_status' = 0 /\ UNCHANGED <<command, reply>>
      OBVIOUS
    <3>4. QED
      BY <3>1, <3>2, <3>3 DEF Types
  <2>2. ThreadInv'
    BY DEF ThreadInv
  <2>3. ASSUME calm PROVE TransferInv'
    BY <2>3 DEF TransferInv, Types, Reads, Token, Events, event_signal
  <2>4. ASSUME calm PROVE HostInv'
    <3>1. asked # None /\ online /\ out # None
      BY <2>4 DEF HostInv
    <3>2. ~Arrived /\ Working /\ command = asked
      BY <2>4, <3>1 DEF HostInv, TransferInv, Arrived
    <3>3. pc # "command" /\ Working'
      BY <3>2 DEF Working
    <3>4. QED
      BY <3>1, <3>2, <3>3 DEF HostInv, Arrived
  <2>5. ASSUME calm PROVE SlotInv'
    BY <2>5 DEF SlotInv, HostInv, Arrived, Working, TransferInv, Reads
  <2>6. calm' = calm
    OBVIOUS
  <2>7. QED
    BY <2>1, <2>2, <2>3, <2>4, <2>5, <2>6
<1>3. CASE HostRead
  <2> USE <1>3 DEF HostRead, rigid, usb, host, bcvars
  <2>1. Types'
    BY EventSteps DEF Types
  <2>2. ThreadInv'
    BY DEF ThreadInv
  <2>3. ASSUME calm PROVE TransferInv'
    BY <2>3 DEF TransferInv, Types, Reads, Token, Events, event_signal
  <2>4. ASSUME calm PROVE HostInv'
    BY <2>4 DEF HostInv, Arrived, Working, TransferInv, ThreadInv
  <2>5. ASSUME calm PROVE SlotInv'
    BY <2>5 DEF SlotInv, HostInv, Arrived, Working, TransferInv, ThreadInv
  <2>6. calm' = calm
    OBVIOUS
  <2>7. QED
    BY <2>1, <2>2, <2>3, <2>4, <2>5, <2>6
<1>4. QED
  BY <1>1, <1>2, <1>3

-----------------------------------------------------------------------------
\* The invariant is inductive.
THEOREM FastbootInvariant == Spec => []IInv
<1>1. Init => IInv
  <2> SUFFICES ASSUME Init PROVE IInv
    OBVIOUS
  <2> USE DEF Init
  <2>1. Types
    BY EventSteps, RequestTypes DEF Types, Events, event_init
  <2>2. ThreadInv
    BY DEF ThreadInv
  <2>3. TransferInv
    BY DEF TransferInv, Token, event_init
  <2>4. HostInv /\ SlotInv
    BY DEF HostInv, SlotInv, Arrived, Working
  <2>5. QED
    BY <2>1, <2>2, <2>3, <2>4 DEF IInv
<1>2. IInv /\ [Next]_vars => IInv'
  <2> SUFFICES ASSUME IInv, [Next]_vars PROVE IInv'
    OBVIOUS
  <2>1. CASE UNCHANGED vars
    BY <2>1 DEF vars, rigid, usb, host, bcvars, IInv, Types, ThreadInv, TransferInv, HostInv,
                SlotInv, Arrived, Working
  <2>2. CASE Thread
    BY <2>2, UsbIInv, LoopIInv, SetActiveIInv DEF Thread
  <2>3. CASE (\E op \in Ops, slot \in Slots : HostSend(op, slot)) \/ HostAnswers
    <3>1. "full" \in {"full", "short"} /\ "unknown" \in Ops /\ "a" \in Slots
      BY DEF Ops, Slots
    <3>2. QED
      BY <2>3, <3>1, HostIInv DEF HostAnswers
  <2>4. CASE \/ Unplug \/ PowerLoss \/ fastboot_idle_reboot
             \/ \E value \in {0, 1} : SetConfiguration(value)
    <3>1. 0 \in {0, 1}
      OBVIOUS
    <3>2. QED
      BY <2>4, <3>1, CableIInv
  <2>5. QED
    BY <2>1, <2>2, <2>3, <2>4 DEF Next
<1>3. QED
  BY <1>1, <1>2, PTL DEF Spec

\* After OKAY to set_active the boot region and the metadata in misc both name that slot,
\* through commands that fail half way, cut cables, loss of power and reboots, until the
\* host asks for another slot: nothing is promised while the two writes are under way, and
\* OKAY is sent only after both.
THEOREM FastbootSlotDurable == Spec => []SlotDurable
<1>1. IInv => SlotDurable
  BY DEF IInv, SlotInv, SlotDurable
<1>2. QED
  BY <1>1, FastbootInvariant, PTL

\* A calm host, one that takes every answer in time and sets a configuration only while no
\* command is handled, reads only the answer to the command it waits for: there is at most
\* one transfer, its end is signaled once, and a request that is queued after the host has
\* gone is never served to another.
THEOREM FastbootAnswersMatch == Spec => AnswersMatch
<1> DEFINE A == calm /\ HostRead /\ in.op # "DATA" => asked # None /\ in.id = asked.id
<1>1. IInv /\ [Next]_vars => [A]_vars
  <2> SUFFICES ASSUME IInv, calm, HostRead, in.op # "DATA"
               PROVE  asked # None /\ in.id = asked.id
    OBVIOUS
  <2> USE DEF IInv
  <2>1. online /\ in # None
    BY DEF HostRead
  <2>2. pc = "ack" /\ Working /\ in.id = reply.id
    BY <2>1 DEF TransferInv, ThreadInv, Working
  <2>3. asked # None /\ command = asked /\ reply.id = command.id
    BY <2>1, <2>2 DEF HostInv, ThreadInv
  <2>4. QED
    BY <2>2, <2>3
<1>2. QED
  BY <1>1, FastbootInvariant, PTL DEF Spec, AnswersMatch
-----------------------------------------------------------------------------
(***************************************************************************)
(* Module Transfer, the handshake of the two threads of a download: for    *)
(* every image, every page size, every partition and everything an earlier *)
(* download may have left behind.                                          *)
(***************************************************************************)

\* Neither thread has begun to stop: only until then does a signal of an event of a
\* buffer mean that buffer.
Running ==
    /\ reader \in {"wait", "last", "read", "signal"}
    /\ writer \in {"wait", "write", "decode", "bulk", "written"}

\* The four uses of buffer i: free, being filled from usb, full, being written out.
Vacant(i) == Token(cache_available[i])
Filling(i) == reader \in {"read", "signal"} /\ flipIdxW = i
Full(i) == Token(content_available[i])
Draining(i) == writer \in {"write", "decode", "bulk", "written"} /\ flipIdxR = i

OneUse(i) ==
    /\ Vacant(i) \/ Filling(i) \/ Full(i) \/ Draining(i)
    /\ Vacant(i) => ~Filling(i) /\ ~Full(i) /\ ~Draining(i)
    /\ Filling(i) => ~Full(i) /\ ~Draining(i)
    /\ Full(i) => ~Draining(i)

\* Nobody sleeps on a signaled event.
Awake(e) == e.wait = "blocked" => ~e.signaled

\* The event would let one wait through, not two.
OneToken(e) == ~(e.signaled /\ e.wait = "woken")

HandshakeTypes ==
    /\ flipIdxR \in Caches
    /\ flipIdxW \in Caches
    /\ cache_available \in [Caches -> Events]
    /\ content_available \in [Caches -> Events]
    /\ \A i \in Caches : Awake(cache_available[i]) /\ Awake(content_available[i])

\* As long as both threads run, every buffer has one use, and one signal at most is
\* under way for it.
BufferInv ==
    Running => \A i \in Caches :
                  /\ OneUse(i)
                  /\ OneToken(cache_available[i])
                  /\ OneToken(content_available[i])

HandshakeInv == HandshakeTypes /\ BufferInv

\* The consumer's end is reported only by a consumer that is through.
EndInv ==
    /\ thrR_end_ev \in Events
    /\ Token(thrR_end_ev) => writer = "exit"
    /\ reader = "done" => writer = "exit"

-----------------------------------------------------------------------------
\* What the operations on events do to tokens.
LEMMA HandshakeEvents ==
    ASSUME NEW e \in Events, Awake(e)
    PROVE  /\ event_signal(e) \in Events
           /\ Awake(event_signal(e))
           /\ Token(event_signal(e))
           /\ ~Token(e) => OneToken(event_signal(e))
           /\ MustBlock(e) => /\ event_wait_block(e) \in Events
                              /\ Awake(event_wait_block(e))
                              /\ ~Token(event_wait_block(e))
                              /\ OneToken(event_wait_block(e))
           /\ event_wait_pass(e) \in Events
           /\ Awake(event_wait_pass(e))
           /\ MayPass(e) => Token(e)
           /\ OneToken(e) => ~Token(event_wait_pass(e)) /\ OneToken(event_wait_pass(e))
BY DEF Events, Awake, Token, OneToken, event_signal, MustBlock, event_wait_block,
       MayPass, event_wait_pass

\* One event of a buffer changes as one of the operations on events has it, the other
\* events of buffers do not: the types are kept.
LEMMA OneEventTypes ==
    ASSUME NEW evs \in [Caches -> Events], NEW evs1,
           NEW j \in Caches, NEW e \in Events, evs1 = [evs EXCEPT ![j] = e],
           \A i \in Caches : Awake(evs[i]), Awake(e)
    PROVE  /\ evs1 \in [Caches -> Events]
           /\ \A i \in Caches : Awake(evs1[i])
           /\ evs1[j] = e
           /\ \A i \in Caches \ {j} : evs1[i] = evs[i]
<1>1. evs1 \in [Caches -> Events] /\ evs1[j] = e /\ \A i \in Caches \ {j} : evs1[i] = evs[i]
  OBVIOUS
<1>2. QED
  BY <1>1

\* The steps of the reader that leave both threads running, or stop the reader.
LEMMA ReaderIInv ==
    ASSUME HandshakeInv, Reader
    PROVE  HandshakeInv'
<1> USE DEF HandshakeInv
<1>1. CASE reader_block
  <2> DEFINE j == flipIdxW
  <2>1. /\ cache_available' = [cache_available EXCEPT ![j] = event_wait_block(cache_available[j])]
        /\ MustBlock(cache_available[j])
        /\ UNCHANGED <<content_available, flipIdxR, flipIdxW, reader, writer>>
    BY <1>1 DEF reader_block, shared
  <2>2. j \in Caches /\ cache_available[j] \in Events /\ Awake(cache_available[j])
    BY DEF HandshakeTypes
  <2>3. /\ HandshakeTypes'
        /\ ~Token(cache_available'[j]) /\ OneToken(cache_available'[j])
        /\ \A i \in Caches \ {j} : cache_available'[i] = cache_available[i]
    BY <2>1, <2>2, HandshakeEvents, OneEventTypes DEF HandshakeTypes
  <2>4. ~Token(cache_available[j])
    BY <2>1 DEF Token, MustBlock
  <2>5. BufferInv'
    BY <2>1, <2>2, <2>3, <2>4 DEF BufferInv, Running, OneUse, Vacant, Filling, Full, Draining
  <2>6. QED
    BY <2>3, <2>5
<1>2. CASE reader_take
  <2> DEFINE j == flipIdxW
  <2>1. /\ cache_available' = [cache_available EXCEPT ![j] = event_wait_pass(cache_available[j])]
        /\ MayPass(cache_available[j])
        /\ reader \in {"wait", "last"}
        /\ reader' \in {"read", "signal"}
        /\ UNCHANGED <<content_available, flipIdxR, flipIdxW, writer>>
    BY <1>2 DEF reader_take
  <2>2. j \in Caches /\ cache_available[j] \in Events /\ Awake(cache_available[j])
    BY DEF HandshakeTypes
  <2>3. /\ HandshakeTypes'
        /\ OneToken(cache_available[j]) =>
              ~Token(cache_available'[j]) /\ OneToken(cache_available'[j])
        /\ \A i \in Caches \ {j} : cache_available'[i] = cache_available[i]
    BY <2>1, <2>2, HandshakeEvents, OneEventTypes DEF HandshakeTypes
  <2>4. Token(cache_available[j])
    BY <2>1, <2>2, HandshakeEvents
  <2>5. BufferInv'
    BY <2>1, <2>2, <2>3, <2>4 DEF BufferInv, Running, OneUse, Vacant, Filling, Full, Draining
  <2>6. QED
    BY <2>3, <2>5
<1>3. ASSUME NEW ok \in BOOLEAN, usb_read(ok) PROVE HandshakeInv'
  <2>1. /\ reader = "read" /\ reader' \in {"stop1", "signal"}
        /\ UNCHANGED <<content_available, cache_available, flipIdxR, flipIdxW, writer>>
    BY <1>3 DEF usb_read, events
  <2>2. HandshakeTypes'
    BY <2>1 DEF HandshakeTypes
  <2>3. BufferInv'
    BY <2>1 DEF BufferInv, Running, OneUse, Vacant, Filling, Full, Draining
  <2>4. QED
    BY <2>2, <2>3
<1>4. CASE reader_signal
  <2> DEFINE j == flipIdxW
  <2>1. /\ content_available' = [content_available EXCEPT ![j] = event_signal(content_available[j])]
        /\ reader = "signal"
        /\ \/ reader' = "stop1" /\ flipIdxW' = flipIdxW
           \/ reader' \in {"wait", "last"} /\ flipIdxW' = cache_shift(flipIdxW)
        /\ UNCHANGED <<cache_available, flipIdxR, writer>>
    BY <1>4 DEF reader_signal
  <2>2. /\ j \in Caches /\ content_available[j] \in Events /\ Awake(content_available[j])
        /\ flipIdxW' \in Caches
    BY <2>1 DEF HandshakeTypes, Caches, cache_shift
  <2>3. /\ HandshakeTypes'
        /\ Token(content_available'[j])
        /\ ~Token(content_available[j]) => OneToken(content_available'[j])
        /\ \A i \in Caches \ {j} : content_available'[i] = content_available[i]
    BY <2>1, <2>2, HandshakeEvents, OneEventTypes DEF HandshakeTypes
  <2>4. BufferInv'
    BY <2>1, <2>2, <2>3 DEF BufferInv, Running, OneUse, Vacant, Filling, Full, Draining
  <2>5. QED
    BY <2>3, <2>4
<1>5. CASE stop_engine_provider
  <2>1. /\ reader' \in {"stop2", "stop3", "join"}
        /\ UNCHANGED <<cache_available, flipIdxR, flipIdxW>>
        /\ \/ content_available' = content_available
           \/ \E j \in Caches : content_available' =
                 [content_available EXCEPT ![j] = event_signal(content_available[j])]
    BY <1>5 DEF stop_engine_provider, shared, Caches
  <2>2. ASSUME NEW j \in Caches,
               content_available' =
                 [content_available EXCEPT ![j] = event_signal(content_available[j])]
        PROVE  /\ content_available' \in [Caches -> Events]
               /\ \A i \in Caches : Awake(content_available'[i])
    BY <2>2, HandshakeEvents, OneEventTypes DEF HandshakeTypes
  <2>3. HandshakeTypes'
    BY <2>1, <2>2 DEF HandshakeTypes
  <2>4. QED
    BY <2>1, <2>3 DEF BufferInv, Running
<1>6. CASE download_data_block \/ download_data_end
  <2>1. /\ reader' \in {"join", "done"}
        /\ UNCHANGED <<cache_available, content_available, flipIdxR, flipIdxW>>
    BY <1>6 DEF download_data_block, download_data_end, shared
  <2>2. QED
    BY <2>1 DEF HandshakeTypes, BufferInv, Running
<1>7. QED
  BY <1>1, <1>2, <1>3, <1>4, <1>5, <1>6 DEF Reader

\* The steps of the writer.
LEMMA WriterIInv ==
    ASSUME HandshakeInv, Writer
    PROVE  HandshakeInv'
<1> USE DEF HandshakeInv
<1>1. CASE writer_block
  <2> DEFINE j == flipIdxR
  <2>1. /\ content_available' =
             [content_available EXCEPT ![j] = event_wait_block(content_available[j])]
        /\ MustBlock(content_available[j])
        /\ UNCHANGED <<cache_available, flipIdxR, flipIdxW, reader, writer>>
    BY <1>1 DEF writer_block, shared
  <2>2. j \in Caches /\ content_available[j] \in Events /\ Awake(content_available[j])
    BY DEF HandshakeTypes
  <2>3. /\ HandshakeTypes'
        /\ ~Token(content_available'[j]) /\ OneToken(content_available'[j])
        /\ \A i \in Caches \ {j} : content_available'[i] = content_available[i]
    BY <2>1, <2>2, HandshakeEvents, OneEventTypes DEF HandshakeTypes
  <2>4. ~Token(content_available[j])
    BY <2>1 DEF Token, MustBlock
  <2>5. BufferInv'
    BY <2>1, <2>2, <2>3, <2>4 DEF BufferInv, Running, OneUse, Vacant, Filling, Full, Draining
  <2>6. QED
    BY <2>3, <2>5
<1>2. CASE writer_take
  <2> DEFINE j == flipIdxR
  <2>1. /\ content_available' =
             [content_available EXCEPT ![j] = event_wait_pass(content_available[j])]
        /\ MayPass(content_available[j])
        /\ writer = "wait"
        /\ writer' \in {"stop1", "write"}
        /\ UNCHANGED <<cache_available, flipIdxR, flipIdxW, reader>>
    BY <1>2 DEF writer_take, shared
  <2>2. j \in Caches /\ content_available[j] \in Events /\ Awake(content_available[j])
    BY DEF HandshakeTypes
  <2>3. /\ HandshakeTypes'
        /\ OneToken(content_available[j]) =>
              ~Token(content_available'[j]) /\ OneToken(content_available'[j])
        /\ \A i \in Caches \ {j} : content_available'[i] = content_available[i]
    BY <2>1, <2>2, HandshakeEvents, OneEventTypes DEF HandshakeTypes
  <2>4. Token(content_available[j])
    BY <2>1, <2>2, HandshakeEvents
  <2>5. BufferInv'
    BY <2>1, <2>2, <2>3, <2>4 DEF BufferInv, Running, OneUse, Vacant, Filling, Full, Draining
  <2>6. QED
    BY <2>3, <2>5
<1>3. CASE write_data \/ write_data_decode \/ write_data_sparse_end \/ write_data_bulk
  <2>1. /\ writer \in {"write", "decode", "bulk", "written"}
        /\ writer' \in {"write", "decode", "bulk", "written"}
        /\ UNCHANGED <<content_available, cache_available, flipIdxR, flipIdxW, reader>>
    BY <1>3 DEF write_data, write_data_decode, write_data_sparse_end, write_data_bulk, events,
                shared
  <2>2. HandshakeTypes'
    BY <2>1 DEF HandshakeTypes
  <2>3. BufferInv'
    BY <2>1 DEF BufferInv, Running, OneUse, Vacant, Filling, Full, Draining
  <2>4. QED
    BY <2>2, <2>3
<1>4. CASE writer_next
  <2> DEFINE j == flipIdxR
  <2>1. CASE writer' = "stop1" /\ UNCHANGED <<cache_available, flipIdxR>>
    <3>1. UNCHANGED <<content_available, flipIdxW>>
      BY <1>4 DEF writer_next
    <3>2. QED
      BY <2>1, <3>1 DEF HandshakeTypes, BufferInv, Running
  <2>2. CASE /\ cache_available' = [cache_available EXCEPT ![j] = event_signal(cache_available[j])]
             /\ flipIdxR' = cache_shift(flipIdxR)
             /\ writer' = "wait"
    <3>1. writer = "written" /\ UNCHANGED <<content_available, flipIdxW, reader>>
      BY <1>4 DEF writer_next
    <3>2. /\ j \in Caches /\ cache_available[j] \in Events /\ Awake(cache_available[j])
          /\ flipIdxR' \in Caches
      BY <2>2 DEF HandshakeTypes, Caches, cache_shift
    <3>3. /\ HandshakeTypes'
          /\ Token(cache_available'[j])
          /\ ~Token(cache_available[j]) => OneToken(cache_available'[j])
          /\ \A i \in Caches \ {j} : cache_available'[i] = cache_available[i]
      BY <2>2, <3>1, <3>2, HandshakeEvents, OneEventTypes DEF HandshakeTypes
    <3>4. BufferInv'
      BY <2>2, <3>1, <3>2, <3>3 DEF BufferInv, Running, OneUse, Vacant, Filling, Full, Draining
    <3>5. QED
      BY <3>3, <3>4
  <2>3. QED
    BY <1>4, <2>1, <2>2 DEF writer_next
<1>5. CASE stop_engine_consumer
  <2>1. /\ writer' \in {"stop2", "stop3", "exit"}
        /\ UNCHANGED <<content_available, flipIdxR, flipIdxW>>
        /\ \/ cache_available' = cache_available
           \/ \E j \in Caches : cache_available' =
                 [cache_available EXCEPT ![j] = event_signal(cache_available[j])]
    BY <1>5 DEF stop_engine_consumer, shared, Caches
  <2>2. ASSUME NEW j \in Caches,
               cache_available' = [cache_available EXCEPT ![j] = event_signal(cache_available[j])]
        PROVE  /\ cache_available' \in [Caches -> Events]
               /\ \A i \in Caches : Awake(cache_available'[i])
    BY <2>2, HandshakeEvents, OneEventTypes DEF HandshakeTypes
  <2>3. HandshakeTypes'
    BY <2>1, <2>2 DEF HandshakeTypes
  <2>4. QED
    BY <2>1, <2>3 DEF BufferInv, Running
<1>6. QED
  BY <1>1, <1>2, <1>3, <1>4, <1>5 DEF Writer

\* The invariant of the handshake is inductive.
THEOREM TransferInvariant == FlashSpec => []HandshakeInv
<1>1. FlashInit => HandshakeInv
  <2> SUFFICES ASSUME FlashInit PROVE HandshakeInv
    OBVIOUS
  <2> USE DEF FlashInit, init_engine_context, event_init
  <2>1. HandshakeTypes
    BY DEF HandshakeTypes, Caches, Events, Awake
  <2>2. BufferInv
    BY DEF BufferInv, OneUse, OneToken, Token, Vacant, Filling, Full, Draining, Caches
  <2>3. QED
    BY <2>1, <2>2 DEF HandshakeInv
<1>2. HandshakeInv /\ [FlashNext]_flash_vars => HandshakeInv'
  <2> SUFFICES ASSUME HandshakeInv, [FlashNext]_flash_vars PROVE HandshakeInv'
    OBVIOUS
  <2>1. CASE UNCHANGED flash_vars
    BY <2>1 DEF flash_vars, events, shared, HandshakeInv, HandshakeTypes, BufferInv, Running, OneUse, Vacant,
                Filling, Full, Draining
  <2>2. QED
    BY <2>1, ReaderIInv, WriterIInv DEF FlashNext
<1>3. QED
  BY <1>1, <1>2, PTL DEF FlashSpec

\* A buffer is never filled from usb while it is being written to storage, for every
\* image and wherever either side gives up: a thread that has begun to stop touches no
\* buffer again, and until then each buffer has one use.
THEOREM TransferBuffersNotShared == FlashSpec => []BuffersNotShared
<1>1. HandshakeInv => BuffersNotShared
  BY DEF HandshakeInv, HandshakeTypes, BufferInv, Running, OneUse, Filling, Draining, BuffersNotShared
<1>2. QED
  BY <1>1, TransferInvariant, PTL

\* download_data returns only after the writer's last access to the context on its
\* stack: the signal it waits for is the last thing the writer does.
THEOREM TransferContextOutlivesWriter == FlashSpec => []ContextOutlivesWriter
<1>1. FlashInit => EndInv
  BY DEF FlashInit, init_engine_context, event_init, EndInv, Events, Token
<1>2. EndInv /\ [FlashNext]_flash_vars => EndInv'
  <2> SUFFICES ASSUME EndInv, [FlashNext]_flash_vars PROVE EndInv'
    OBVIOUS
  <2> USE DEF EndInv
  <2>1. CASE UNCHANGED <<thrR_end_ev, writer>> /\ (reader' = "done" => reader = "done")
    BY <2>1
  <2>2. CASE UNCHANGED flash_vars
    BY <2>1, <2>2 DEF flash_vars, events
  <2>3. CASE reader_block \/ reader_take \/ (\E ok \in BOOLEAN : usb_read(ok))
             \/ reader_signal \/ stop_engine_provider
    BY <2>1, <2>3 DEF reader_block, reader_take, usb_read, reader_signal, stop_engine_provider,
                      events
  <2>4. CASE download_data_block
    BY <2>4 DEF download_data_block, MustBlock, event_wait_block, Events, Token
  <2>5. CASE download_data_end
    BY <2>5 DEF download_data_end, MayPass, event_wait_pass, Events, Token
  <2>6. CASE Writer
    <3>1. CASE stop_engine_consumer
      <4>1. writer # "exit" /\ reader' = reader
        BY <3>1 DEF stop_engine_consumer
      <4>2. \/ writer' = "exit" /\ thrR_end_ev' = event_signal(thrR_end_ev)
            \/ thrR_end_ev' = thrR_end_ev
        BY <3>1 DEF stop_engine_consumer
      <4>3. event_signal(thrR_end_ev) \in Events
        BY DEF event_signal, Events
      <4>4. QED
        BY <4>1, <4>2, <4>3
    <3>2. CASE Writer /\ ~stop_engine_consumer
      <4>1. writer # "exit" /\ UNCHANGED <<thrR_end_ev, reader>>
        BY <3>2 DEF Writer, writer_block, writer_take, write_data, write_data_decode,
                    write_data_sparse_end, write_data_bulk, writer_next, events
      <4>2. QED
        BY <4>1
    <3>3. QED
      BY <2>6, <3>1, <3>2
  <2>7. QED
    BY <2>2, <2>3, <2>4, <2>5, <2>6 DEF FlashNext, Reader
<1>3. EndInv => ContextOutlivesWriter
  BY DEF EndInv, ContextOutlivesWriter
<1>4. QED
  BY <1>1, <1>2, <1>3, PTL DEF FlashSpec
-----------------------------------------------------------------------------
(* The free blocks. *)

\* The page p is in a block of the sequence s.
FreeAt(s, p) == \E k \in 1 .. Len(s) : p \in PagesOf(s[k])

\* The blocks are sorted and do not overlap, empty ones included; and between any two
\* of them there is a page that is not free.
Sorted(s) == \A j, k \in 1 .. Len(s) : j < k => End(s[j]) <= s[k].start
Apart(s) == \A j, k \in 1 .. Len(s) : j < k => End(s[j]) < s[k].start

\* Every block of r starts where a block of s starts, or at x.
StartsFrom(r, s, x) ==
    \A k \in 1 .. Len(r) : r[k].start = x \/ \E j \in 1 .. Len(s) : r[k].start = s[j].start

\* The arithmetic of blocks.
LEMMA BlockFacts ==
    ASSUME NEW b \in Blocks
    PROVE  /\ b.start \in Nat /\ b.start \in Int /\ b.size \in Nat
           /\ End(b) = b.start + b.size /\ End(b) \in Int /\ b.start <= End(b)
           /\ \A p : p \in PagesOf(b) <=> p \in Int /\ b.start <= p /\ p < End(b)
<1>1. b.start \in Nat /\ b.start \in Int /\ b.size \in Nat
  BY DEF Blocks
<1>2. QED
  BY <1>1 DEF End, PagesOf

\* A block in place of another.
LEMMA BlockReplaced ==
    ASSUME NEW s \in Seq(Blocks), NEW k \in 1 .. Len(s), NEW b \in Blocks, NEW r,
           r = [s EXCEPT ![k] = b]
    PROVE  /\ r \in Seq(Blocks)
           /\ Len(r) = Len(s)
           /\ r[k] = b
           /\ \A j \in 1 .. Len(s) : j # k => r[j] = s[j]
  OBVIOUS

\* What mblock_merge has made of the first n blocks of s.
Merged(d, s, n) ==
    /\ d \in Seq(Blocks)
    /\ Apart(d)
    /\ \A p \in Int : FreeAt(d, p) <=> \E j \in 1 .. n : p \in PagesOf(s[j])
    /\ \A k \in 1 .. Len(d) : \E j \in 1 .. n : d[k].start = s[j].start
    /\ \A k \in 1 .. Len(d), j \in n + 1 .. Len(s) : End(d[k]) <= s[j].start
    /\ n # 0 => Len(d) # 0

\* One turn of the loop of mblock_merge.
LEMMA JoinOne ==
    ASSUME NEW s \in Seq(Blocks), Sorted(s), NEW n \in Nat, n + 1 <= Len(s),
           NEW d, Merged(d, s, n)
    PROVE  Merged(Join(d, s[n + 1]), s, n + 1)
<1>0. PICK b : b = s[n + 1]
  OBVIOUS
<1>1. /\ n + 1 \in 1 .. Len(s) /\ Len(s) \in Nat /\ n + 1 \in n + 1 .. Len(s)
      /\ b \in Blocks /\ b.start \in Int /\ b.size \in Nat /\ End(b) = b.start + b.size
      /\ b.start <= End(b) /\ End(b) \in Int
      /\ \A j \in 1 .. Len(s) : s[j] \in Blocks
  <2>1. /\ n + 1 \in 1 .. Len(s) /\ Len(s) \in Nat /\ n + 1 \in n + 1 .. Len(s)
        /\ \A j \in 1 .. Len(s) : s[j] \in Blocks
    OBVIOUS
  <2>2. QED
    BY <1>0, <2>1, BlockFacts
<1>2. /\ d \in Seq(Blocks) /\ Len(d) \in Nat
      /\ \A k \in 1 .. Len(d) : d[k] \in Blocks /\ d[k].start \in Int /\ d[k].size \in Nat
                                /\ End(d[k]) = d[k].start + d[k].size /\ End(d[k]) \in Int
  <2>1. d \in Seq(Blocks) /\ Len(d) \in Nat /\ \A k \in 1 .. Len(d) : d[k] \in Blocks
    BY DEF Merged
  <2>2. QED
    BY <2>1, BlockFacts
<1>3. \A k \in 1 .. Len(d) : End(d[k]) <= b.start
  BY <1>0, <1>1 DEF Merged
<1>4. \A j \in (n + 1) + 1 .. Len(s) : End(b) <= s[j].start /\ s[j].start \in Int /\ b.start <= s[j].start
  <2>1. ASSUME NEW j \in (n + 1) + 1 .. Len(s) PROVE j \in 1 .. Len(s) /\ n + 1 < j
    BY <1>1
  <2>2. ASSUME NEW j \in (n + 1) + 1 .. Len(s) PROVE End(b) <= s[j].start /\ s[j].start \in Int
    BY <2>1, <1>0, <1>1 DEF Sorted, Blocks
  <2>3. QED
    BY <1>1, <2>2
<1>5. /\ \A j \in 1 .. n + 1 : j = n + 1 \/ j \in 1 .. n
      /\ \A j \in 1 .. n : j \in 1 .. n + 1
      /\ n + 1 \in 1 .. n + 1
  BY <1>1
<1>6. \A p : (\E j \in 1 .. n + 1 : p \in PagesOf(s[j])) <=> (\E j \in 1 .. n : p \in PagesOf(s[j])) \/ p \in PagesOf(b)
  BY <1>0, <1>1, <1>5
<1>7. \A x : x = b.start \/ (\E j \in 1 .. n : x = s[j].start) => \E j \in 1 .. n + 1 : x = s[j].start
  BY <1>0, <1>1, <1>5
<1>8. \A p \in Int : FreeAt(d, p) <=> \E j \in 1 .. n : p \in PagesOf(s[j])
  BY DEF Merged
<1>9. \A k \in 1 .. Len(d) : \E j \in 1 .. n : d[k].start = s[j].start
  BY DEF Merged
<1>10. \A k \in 1 .. Len(d), j \in (n + 1) + 1 .. Len(s) : End(d[k]) <= s[j].start
  BY <1>1, <1>2, <1>3, <1>4
<1>11. Apart(d)
  BY DEF Merged
\* It is enough to show what becomes of the blocks so far and of the new one.
<1>12. ASSUME NEW r \in Seq(Blocks), Apart(r), Len(r) # 0,
              \A p \in Int : FreeAt(r, p) <=> FreeAt(d, p) \/ p \in PagesOf(b),
              \A k \in 1 .. Len(r) : r[k].start = b.start
                                     \/ \E j \in 1 .. Len(d) : r[k].start = d[j].start,
              \A k \in 1 .. Len(r) : \/ End(r[k]) = End(b)
                                     \/ \E j \in 1 .. Len(d) : End(r[k]) = End(d[j])
       PROVE  Merged(r, s, n + 1)
  <2>1. \A p \in Int : FreeAt(r, p) <=> \E j \in 1 .. n + 1 : p \in PagesOf(s[j])
    BY <1>6, <1>8, <1>12
  <2>2. ASSUME NEW k \in 1 .. Len(r) PROVE \E j \in 1 .. n + 1 : r[k].start = s[j].start
    <3>1. r[k].start = b.start \/ \E j \in 1 .. n : r[k].start = s[j].start
      BY <1>9, <1>12
    <3>2. QED
      BY <1>7, <3>1
  <2>3. \A k \in 1 .. Len(r), j \in (n + 1) + 1 .. Len(s) : End(r[k]) <= s[j].start
    BY <1>4, <1>10, <1>12
  <2>4. r \in Seq(Blocks) /\ Apart(r) /\ Len(r) # 0
    BY ONLY <1>12
  <2>5. \A k \in 1 .. Len(r) : \E j \in 1 .. n + 1 : r[k].start = s[j].start
    BY ONLY <2>2
  <2>6. PICK m : m = n + 1
    OBVIOUS
  <2>7. /\ \A p \in Int : FreeAt(r, p) <=> \E j \in 1 .. m : p \in PagesOf(s[j])
        /\ \A k \in 1 .. Len(r) : \E j \in 1 .. m : r[k].start = s[j].start
        /\ \A k \in 1 .. Len(r), j \in m + 1 .. Len(s) : End(r[k]) <= s[j].start
    BY ONLY <2>1, <2>3, <2>5, <2>6
  <2>8. Merged(r, s, m)
    BY ONLY <2>4, <2>7, Zenon DEF Merged
  <2>9. QED
    BY ONLY <2>6, <2>8
<1>13. CASE d = << >>
  <2>0. PICK r : r = <<b>>
    OBVIOUS
  <2>1. r \in Seq(Blocks) /\ Len(r) = 1 /\ r[1] = b /\ Len(d) = 0
    BY <1>1, <1>13, <2>0
  <2>2. Apart(r)
    BY <2>1 DEF Apart
  <2>3. \A k \in 1 .. Len(r) : r[k] = b
    BY <2>1
  <2>4. \A p \in Int : FreeAt(r, p) <=> FreeAt(d, p) \/ p \in PagesOf(b)
    BY <2>1, <2>3 DEF FreeAt
  <2>5. Len(r) # 0 /\ \A k \in 1 .. Len(r) : r[k].start = b.start /\ End(r[k]) = End(b)
    BY <2>1, <2>3
  <2>6. r \in Seq(Blocks)
    BY <2>1
  <2>7. Merged(r, s, n + 1)
    BY ONLY <1>12, <2>2, <2>4, <2>5, <2>6
  <2>8. QED
    BY <1>0, <1>13, <2>0, <2>7 DEF Join
<1>14. CASE d # << >>
  <2>0. PICK l : l = Len(d)
    OBVIOUS
  <2>1. l \in 1 .. Len(d) /\ Last(d) = d[l] /\ l \in Nat /\ d[l] \in Blocks /\ d[l].start \in Int /\ d[l].size \in Nat
        /\ End(d[l]) = d[l].start + d[l].size
    BY <1>2, <1>14, <2>0 DEF Last
  <2>2. CASE b.start = End(d[l])
    <3>0. PICK c : c = [d[l] EXCEPT !.size = @ + b.size]
      OBVIOUS
    <3>1. c \in Blocks /\ c.start = d[l].start /\ c.size = d[l].size + b.size
      <4>1. d[l] \in [start : Nat, size : Nat] /\ b.size \in Nat
        BY <1>1, <2>1 DEF Blocks
      <4>2. c.start = d[l].start /\ c.size = d[l].size + b.size
        BY ONLY <3>0, <4>1
      <4>3. c \in [start : Nat, size : Nat]
        BY ONLY <3>0, <4>1
      <4>4. QED
        BY <4>2, <4>3 DEF Blocks
    <3>2. PICK r : r = [d EXCEPT ![l] = c]
      OBVIOUS
    <3>3. Join(d, b) = r
      BY <1>14, <2>0, <2>1, <2>2, <3>0, <3>2 DEF Join
    <3>4. r \in Seq(Blocks) /\ Len(r) = Len(d) /\ r[l] = c /\ \A j \in 1 .. Len(d) : j # l => r[j] = d[j]
      BY <1>2, <2>1, <3>1, <3>2, BlockReplaced
    <3>5. End(c) = End(b) /\ \A p \in Int : p \in PagesOf(c) <=> p \in PagesOf(d[l]) \/ p \in PagesOf(b)
      <4>1. End(c) = c.start + c.size
        BY <3>1, BlockFacts
      <4>2. End(c) = End(b) /\ End(d[l]) = b.start /\ End(b) \in Int /\ b.start <= End(b) /\ d[l].start <= b.start
        BY <1>1, <2>1, <2>2, <3>1, <4>1, SMTT(30)
      <4>3. \A p \in Int : (p \in PagesOf(c) <=> c.start <= p /\ p < End(c))
              /\ (p \in PagesOf(d[l]) <=> d[l].start <= p /\ p < End(d[l]))
              /\ (p \in PagesOf(b) <=> b.start <= p /\ p < End(b))
        BY <1>1, <2>1, <3>1, BlockFacts
      <4>4. QED
        BY <1>1, <2>1, <3>1, <4>2, <4>3
    <3>6. Apart(r)
      <4> SUFFICES ASSUME NEW j \in 1 .. Len(d), NEW k \in 1 .. Len(d), j < k
                   PROVE  End(r[j]) < r[k].start
        BY <3>4 DEF Apart
      <4>1. j # l /\ r[j] = d[j] /\ r[k].start = d[k].start
        BY <2>0, <2>1, <3>1, <3>4
      <4>2. QED
        BY <1>11, <4>1 DEF Apart
    <3>7. \A p \in Int : FreeAt(r, p) <=> FreeAt(d, p) \/ p \in PagesOf(b)
      BY <2>1, <3>4, <3>5 DEF FreeAt
    <3>8. \A k \in 1 .. Len(r) : r[k].start = d[k].start /\ (End(r[k]) = End(b) \/ End(r[k]) = End(d[k]))
      BY <3>1, <3>4, <3>5
    <3>9. Merged(r, s, n + 1)
      BY <1>12, <2>1, <3>4, <3>6, <3>7, <3>8
    <3>10. QED
      BY <1>0, <3>3, <3>9
  <2>3. CASE b.start # End(d[l]) /\ b.size = 0
    <3>1. Join(d, b) = d
      BY <1>14, <2>1, <2>3 DEF Join
    <3>2. \A p \in Int : p \notin PagesOf(b)
      BY <1>1, <2>3 DEF PagesOf
    <3>3. Merged(d, s, n + 1)
      BY <1>2, <1>11, <1>12, <2>1, <3>2
    <3>4. QED
      BY <1>0, <3>1, <3>3
  <2>4. CASE b.start # End(d[l]) /\ b.size # 0
    <3>0. PICK r : r = Append(d, b)
      OBVIOUS
    <3>1. Join(d, b) = r
      BY <1>14, <2>1, <2>4, <3>0 DEF Join
    <3>2. r \in Seq(Blocks) /\ Len(r) = Len(d) + 1 /\ r[Len(d) + 1] = b /\ \A j \in 1 .. Len(d) : r[j] = d[j]
      BY <1>1, <1>2, <3>0
    <3>3. \A k \in 1 .. Len(r) : k = Len(d) + 1 \/ k \in 1 .. Len(d)
      BY <1>2, <3>2
    <3>4. Apart(r)
      <4> SUFFICES ASSUME NEW j \in 1 .. Len(r), NEW k \in 1 .. Len(r), j < k
                   PROVE  End(r[j]) < r[k].start
        BY DEF Apart
      <4>1. j \in 1 .. Len(d) /\ r[j] = d[j]
        BY <1>2, <3>2, <3>3
      <4>2. CASE k \in 1 .. Len(d)
        BY <1>11, <3>2, <4>1, <4>2 DEF Apart
      <4>3. CASE k = Len(d) + 1
        <5>1. End(d[l]) < b.start
          BY <1>1, <1>2, <1>3, <2>1, <2>4, SMTT(30)
        <5>2. j # l => End(d[j]) < d[l].start
          BY <1>11, <2>0, <2>1, <4>1 DEF Apart
        <5>3. CASE j = l
          BY <3>2, <4>1, <4>3, <5>1, <5>3
        <5>4. CASE j # l
          <6>1. End(d[j]) \in Int /\ d[l].start \in Int /\ d[l].start <= End(d[l]) /\ End(d[l]) \in Int
            <7>1. d[j] \in Blocks /\ d[l] \in Blocks
              BY <1>2, <2>1, <4>1
            <7>2. QED
              BY <7>1, BlockFacts
          <6>2. End(d[j]) < b.start
            BY ONLY <1>1, <5>1, <5>2, <5>4, <6>1
          <6>3. QED
            BY <3>2, <4>1, <4>3, <6>2
        <5>5. QED
          BY <5>3, <5>4
      <4>4. QED
        BY <3>3, <4>2, <4>3
    <3>5. \A p \in Int : FreeAt(r, p) <=> FreeAt(d, p) \/ p \in PagesOf(b)
      <4>1. Len(d) + 1 \in 1 .. Len(r) /\ \A j \in 1 .. Len(d) : j \in 1 .. Len(r)
        BY <1>2, <3>2
      <4>2. QED
        BY <3>2, <3>3, <4>1 DEF FreeAt
    <3>6. \A k \in 1 .. Len(r) : r[k] = b \/ (k \in 1 .. Len(d) /\ r[k] = d[k])
      BY <3>2, <3>3
    <3>7. Len(r) # 0
      BY <1>2, <3>2
    <3>8. Merged(r, s, n + 1)
      BY <1>2, <1>12, <3>2, <3>4, <3>5, <3>6, <3>7
    <3>9. QED
      BY <1>0, <3>1, <3>8
  <2>5. QED
    BY <2>2, <2>3, <2>4
<1>15. QED
  BY <1>13, <1>14

\* mblock_merge leaves the same pages free, in blocks that are apart.
LEMMA MergeBlocks ==
    ASSUME NEW s \in Seq(Blocks), Sorted(s), NEW r, r = mblock_merge(s)
    PROVE  /\ r \in Seq(Blocks)
           /\ Apart(r)
           /\ \A p \in Int : FreeAt(r, p) <=> FreeAt(s, p)
           /\ \A k \in 1 .. Len(r) : \E j \in 1 .. Len(s) : r[k].start = s[j].start
           /\ Len(s) # 0 => Len(r) # 0
<1> DEFINE n == Len(s)
           Step(q, i) == IF i = 0 THEN << >> ELSE Join(q[i - 1], s[i])
           IsFold(q, m) == q = [i \in 0 .. m |-> Step(q, i)]
<1>1. n \in Nat /\ \A i \in 1 .. n : s[i] \in Blocks
  OBVIOUS
<1>2. \E q : IsFold(q, n)
  <2> DEFINE E == {m \in Nat : \E q : IsFold(q, m)}
  <2>1. 0 \in E
    <3> DEFINE q == [i \in 0 .. 0 |-> << >>]
    <3>1. q = [i \in 0 .. 0 |-> Step(q, i)]
      OBVIOUS
    <3>2. QED
      BY <3>1
  <2>2. ASSUME NEW m \in E PROVE m + 1 \in E
    <3>1. PICK g : IsFold(g, m)
      OBVIOUS
    <3> DEFINE h == [i \in 0 .. m + 1 |-> IF i <= m THEN g[i] ELSE Step(g, i)]
    <3>2. m \in Nat
      OBVIOUS
    <3>3. ASSUME NEW i \in 0 .. m + 1 PROVE h[i] = Step(g, i)
      <4> HIDE DEF Step
      <4>1. CASE i <= m
        <5>1. i \in 0 .. m
          BY <3>2, <4>1
        <5>2. QED
          BY <3>1, <4>1, <5>1
      <4>2. CASE ~(i <= m)
        BY <4>2
      <4>3. QED
        BY <4>1, <4>2
    <3>4. ASSUME NEW i \in 0 .. m + 1 PROVE h[i] = Step(h, i)
      <4>1. CASE i = 0
        BY <3>3, <4>1
      <4>2. CASE i # 0
        <5>1. i - 1 \in 0 .. m /\ i - 1 <= m /\ i - 1 \in 0 .. m + 1
          BY <3>2, <4>2
        <5>2. h[i - 1] = g[i - 1]
          BY <5>1
        <5>3. QED
          BY <3>3, <5>2
      <4>3. QED
        BY <4>1, <4>2
    <3>5. h = [i \in 0 .. m + 1 |-> Step(h, i)]
      <4> HIDE DEF Step
      <4>1. [i \in 0 .. m + 1 |-> IF i <= m THEN g[i] ELSE Step(g, i)]
              = [i \in 0 .. m + 1 |-> Step(h, i)]
        BY <3>4
      <4>2. QED
        BY <4>1
    <3>6. IsFold(h, m + 1)
      BY <3>5
    <3> HIDE DEF IsFold, h
    <3>7. QED
      BY <3>2, <3>6
  <2>3. E \in SUBSET Nat
    OBVIOUS
  <2> HIDE DEF E
  <2>4. E = Nat
    BY <2>1, <2>2, <2>3, SetInduction
  <2> USE DEF E
  <2> HIDE DEF IsFold
  <2>5. QED
    BY <1>1, <2>4
<1> DEFINE q == CHOOSE q : IsFold(q, n)
<1>3. IsFold(q, n)
  <2> HIDE DEF IsFold
  <2>1. QED
    BY <1>2
<1>4. r = q[n]
  BY DEF mblock_merge
<1> HIDE DEF q
<1>5. \A i \in 0 .. n : q[i] = Step(q, i)
  BY <1>3
<1> DEFINE G == {i \in Nat : i <= n => Merged(q[i], s, i)}
<1>6. 0 \in G
  <2>1. 0 \in 0 .. n
    BY <1>1
  <2>2. q[0] = << >>
    BY <1>5, <2>1
  <2>3. PICK d : d = << >>
    OBVIOUS
  <2>4. d \in Seq(Blocks) /\ Len(d) = 0
    BY <2>3
  <2>5. \A k : k \notin 1 .. Len(d) /\ k \notin 1 .. 0
    BY <2>4
  <2>6. Merged(d, s, 0)
    BY <2>4, <2>5 DEF Merged, Apart, FreeAt
  <2>7. QED
    BY <2>2, <2>3, <2>6
<1>7. ASSUME NEW i \in G PROVE i + 1 \in G
  <2> SUFFICES ASSUME i + 1 <= n
               PROVE  Merged(q[i + 1], s, i + 1)
    OBVIOUS
  <2>1. i \in Nat /\ i <= n /\ i + 1 \in 1 .. n /\ i + 1 \in 0 .. n /\ i + 1 # 0 /\ (i + 1) - 1 = i
    BY <1>1
  <2>2. Merged(q[i], s, i)
    BY <2>1
  <2>3. q[i + 1] = Join(q[i], s[i + 1])
    <3>1. q[i + 1] = Step(q, i + 1)
      BY <1>5, <2>1
    <3>2. QED
      BY <2>1, <3>1
  <2>4. QED
    BY <2>1, <2>2, <2>3, JoinOne
<1>8. G \in SUBSET Nat
  OBVIOUS
<1>9. n \in G
  <2> HIDE DEF G, n
  <2>1. G = Nat
    BY <1>6, <1>7, <1>8, SetInduction
  <2>2. QED
    BY <1>1, <2>1
<1>10. Merged(r, s, n)
  BY <1>1, <1>4, <1>9
<1>11. QED
  BY <1>10 DEF Merged, FreeAt

\* Nothing changes in what a sequence of blocks holds but the run [a, a + size).
Without(r, s, a, size) ==
    /\ r \in Seq(Blocks) /\ Len(r) # 0
    /\ \A p \in Int : FreeAt(r, p) <=> FreeAt(s, p) /\ ~(a <= p /\ p < a + size)
    /\ StartsFrom(r, s, a + size)

\* Block t, of which [a, a + size) is reserved.
LEMMA SplitBlock ==
    ASSUME NEW s \in Seq(Blocks), Apart(s), NEW t \in 1 .. Len(s),
           NEW a \in Int, NEW size \in Nat \ {0},
           s[t].start <= a, a + size <= End(s[t]), NEW r, r = Split(s, t, a, size)
    PROVE  Apart(r) /\ Without(r, s, a, size)
<1>0. PICK b : b = s[t]
  OBVIOUS
<1>1. /\ Len(s) \in Nat /\ t \in Nat /\ t <= Len(s)
      /\ b \in Blocks /\ b.start \in Nat /\ b.size \in Nat /\ End(b) = b.start + b.size
      /\ \A p \in Int : p \in PagesOf(b) <=> b.start <= p /\ p < End(b)
      /\ \A j \in 1 .. Len(s) : s[j] \in Blocks
  <2>1. Len(s) \in Nat /\ t \in Nat /\ t <= Len(s) /\ \A j \in 1 .. Len(s) : s[j] \in Blocks
    OBVIOUS
  <2>2. QED
    BY <1>0, <2>1, BlockFacts
<1>2. a \in Nat /\ b.start <= a /\ a < a + size /\ a + size <= End(b) /\ a + size \in Nat /\ End(b) \in Nat
  BY <1>0, <1>1
<1>3. PICK rest : rest = [start |-> a + size, size |-> End(b) - (a + size)]
  OBVIOUS
<1>4. /\ rest \in Blocks /\ rest.start = a + size /\ rest.size = End(b) - (a + size)
      /\ End(rest) = End(b)
      /\ \A p \in Int : p \in PagesOf(rest) <=> a + size <= p /\ p < End(b)
  <2>1. End(b) - (a + size) \in Nat /\ a + size \in Nat
    BY <1>2
  <2>2. rest \in [start : Nat, size : Nat] /\ rest.start = a + size /\ rest.size = End(b) - (a + size)
    BY ONLY <1>3, <2>1
  <2>3. rest \in Blocks
    BY <2>2 DEF Blocks
  <2>4. End(rest) = rest.start + rest.size
    BY DEF End
  <2>5. End(rest) = End(b)
    BY ONLY <1>2, <2>2, <2>4
  <2>6. QED
    BY <2>2, <2>3, <2>5, BlockFacts
\* Blocks other than t have no page of block t.
<1>5. \A j \in 1 .. Len(s) : /\ j < t => End(s[j]) < b.start
                             /\ t < j => End(b) < s[j].start
  BY <1>0 DEF Apart
<1>6. \A j \in 1 .. Len(s) : /\ s[j].start \in Int /\ End(s[j]) \in Int /\ s[j].start <= End(s[j])
                             /\ \A p \in Int : p \in PagesOf(s[j]) <=> s[j].start <= p /\ p < End(s[j])
  BY <1>1, BlockFacts
<1>7. \A j \in 1 .. Len(s), p \in Int :
          j # t /\ p \in PagesOf(s[j]) => p < b.start \/ End(b) < p
  <2> TAKE j \in 1 .. Len(s), p \in Int
  <2> HAVE j # t /\ p \in PagesOf(s[j])
  <2>1. s[j].start <= p /\ p < End(s[j]) /\ s[j].start \in Int /\ End(s[j]) \in Int
    BY <1>6
  <2>2. j < t \/ t < j
    BY <1>1
  <2>3. QED
    BY <1>2, <1>1, <1>5, <2>1, <2>2
<1>8. CASE a = b.start
  <2>1. r = [s EXCEPT ![t] = rest]
    BY <1>0, <1>3, <1>8 DEF Split
  <2>2. /\ r \in Seq(Blocks) /\ Len(r) = Len(s) /\ r[t] = rest
        /\ \A j \in 1 .. Len(s) : j # t => r[j] = s[j]
    BY <1>4, <2>1, BlockReplaced
  <2>3. Apart(r)
    <3> SUFFICES ASSUME NEW j \in 1 .. Len(s), NEW k \in 1 .. Len(s), j < k
                 PROVE  End(r[j]) < r[k].start
      BY <2>2 DEF Apart
    <3>1. End(s[j]) < s[k].start
      BY DEF Apart
    <3>2. End(r[j]) = End(s[j])
      BY <1>0, <1>4, <2>2
    <3>3. s[k].start <= r[k].start /\ r[k].start \in Int
      BY <1>0, <1>1, <1>2, <1>4, <1>6, <2>2, SMTT(30)
    <3>4. QED
      BY <1>6, <3>1, <3>2, <3>3
  <2>4. \A p \in Int : FreeAt(r, p) <=> FreeAt(s, p) /\ ~(a <= p /\ p < a + size)
    <3> TAKE p \in Int
    <3>1. p \in PagesOf(rest) <=> p \in PagesOf(b) /\ ~(a <= p /\ p < a + size)
      BY <1>1, <1>2, <1>4, <1>8, SMTT(30)
    <3>2. \A j \in 1 .. Len(s) : j # t /\ p \in PagesOf(s[j]) => ~(a <= p /\ p < a + size)
      BY <1>2, <1>1, <1>7, SMTT(30)
    <3>3. QED
      BY <1>0, <2>2, <3>1, <3>2 DEF FreeAt
  <2>5. StartsFrom(r, s, a + size)
    BY <1>4, <2>2 DEF StartsFrom
  <2>6. QED
    BY <1>1, <2>2, <2>3, <2>4, <2>5 DEF Without
<1>9. CASE a # b.start
  <2>0. PICK c : c = [b EXCEPT !.size = a - b.start]
    OBVIOUS
  <2>1. /\ c \in Blocks /\ c.start = b.start /\ c.size = a - b.start /\ End(c) = a
        /\ \A p \in Int : p \in PagesOf(c) <=> b.start <= p /\ p < a
    <3>1. b \in [start : Nat, size : Nat] /\ a - b.start \in Nat
      BY <1>1, <1>2 DEF Blocks
    <3>2. c \in [start : Nat, size : Nat] /\ c.start = b.start /\ c.size = a - b.start
      BY ONLY <2>0, <3>1
    <3>3. c \in Blocks
      BY <3>2 DEF Blocks
    <3>4. End(c) = c.start + c.size
      BY DEF End
    <3>5. End(c) = a
      BY ONLY <1>1, <1>2, <3>2, <3>4
    <3>6. QED
      BY <3>2, <3>3, <3>5, BlockFacts
  <2>2. PICK u : u = [s EXCEPT ![t] = c]
    OBVIOUS
  <2>3. /\ u \in Seq(Blocks) /\ Len(u) = Len(s) /\ u[t] = c
        /\ \A j \in 1 .. Len(s) : j # t => u[j] = s[j]
    BY <2>1, <2>2, BlockReplaced
  <2>4. r = InsertAt(u, t + 1, rest)
    BY <1>0, <1>3, <1>9, <2>0, <2>2 DEF Split
  <2>5. t + 1 \in 1 .. Len(u) + 1
    BY <1>1, <2>3
  <2>6. /\ r \in Seq(Blocks)
        /\ Len(r) = Len(u) + 1
        /\ r[t + 1] = rest
        /\ \A i \in 1 .. (t + 1) - 1 : r[i] = u[i]
        /\ \A i \in t + 1 .. Len(u) : r[i + 1] = u[i]
    <3>1. rest \in Blocks
      BY <1>4
    <3>2. u \in Seq(Blocks)
      BY <2>3
    <3>3. PICK k : k = t + 1
      OBVIOUS
    <3>4. k \in 1 .. Len(u) + 1 /\ r = InsertAt(u, k, rest)
      BY <2>4, <2>5, <3>3
    <3>5. /\ r \in Seq(Blocks)
          /\ Len(r) = Len(u) + 1
          /\ r[k] = rest
          /\ \A i \in 1 .. k - 1 : r[i] = u[i]
          /\ \A i \in k .. Len(u) : r[i + 1] = u[i]
      BY ONLY <3>1, <3>2, <3>4, InsertAtProperties
    <3>6. QED
      BY ONLY <3>3, <3>5
  <2>7. /\ \A i \in 1 .. Len(s) : i < t => i \in 1 .. Len(r) /\ r[i] = s[i]
        /\ t \in 1 .. Len(r) /\ r[t] = c
        /\ t + 1 \in 1 .. Len(r) /\ r[t + 1] = rest
        /\ \A i \in 1 .. Len(s) : t < i => i + 1 \in 1 .. Len(r) /\ r[i + 1] = s[i]
    <3>1. ASSUME NEW i \in 1 .. Len(s), i < t PROVE i \in 1 .. Len(r) /\ r[i] = s[i]
      <4>1. i # t /\ i \in 1 .. (t + 1) - 1 /\ i \in 1 .. Len(r)
        BY <1>1, <2>3, <2>6, <3>1
      <4>2. QED
        BY <2>3, <2>6, <4>1
    <3>2. ASSUME NEW i \in 1 .. Len(s), t < i PROVE i + 1 \in 1 .. Len(r) /\ r[i + 1] = s[i]
      BY <1>1, <2>3, <2>6, <3>2
    <3>3. t \in 1 .. Len(r) /\ r[t] = c /\ t + 1 \in 1 .. Len(r)
      <4>1. t \in 1 .. (t + 1) - 1 /\ t \in 1 .. Len(r) /\ t + 1 \in 1 .. Len(r)
        BY <1>1, <2>3, <2>6
      <4>2. QED
        BY <2>3, <2>6, <4>1
    <3>4. QED
      BY <2>6, <3>1, <3>2, <3>3
  \* Where block i of the result comes from.
  <2>8. \A i \in 1 .. Len(r) : \/ i \in 1 .. Len(s) /\ i < t /\ r[i] = s[i]
                               \/ i = t /\ r[i] = c
                               \/ i = t + 1 /\ r[i] = rest
                               \/ i - 1 \in 1 .. Len(s) /\ t < i - 1 /\ r[i] = s[i - 1]
    <3> TAKE i \in 1 .. Len(r)
    <3>1. i < t => i \in 1 .. Len(s)
      BY <1>1
    <3>2. i > t + 1 => i - 1 \in 1 .. Len(s) /\ t < i - 1 /\ (i - 1) + 1 = i
      BY <1>1, <2>3, <2>6
    <3>3. i < t \/ i = t \/ i = t + 1 \/ i > t + 1
      BY <1>1
    <3>4. QED
      BY <2>7, <3>1, <3>2, <3>3
  <2>9. Apart(r)
    <3> SUFFICES ASSUME NEW j \in 1 .. Len(r), NEW k \in 1 .. Len(r), j < k
                 PROVE  End(r[j]) < r[k].start
      BY DEF Apart
    <3>1. CASE j < t
      <4>1. j \in 1 .. Len(s) /\ r[j] = s[j] /\ End(s[j]) < b.start
        BY <1>5, <2>8, <3>1, <1>1
      <4>2. (b.start <= r[k].start /\ r[k].start \in Int) \/ k < t \/ t < k - 1
        BY <1>1, <1>2, <1>4, <2>1, <2>8, SMTT(30)
      <4>3. CASE b.start <= r[k].start /\ r[k].start \in Int
        <5>1. End(s[j]) \in Int /\ b.start \in Int
          BY <1>1, <1>6, <4>1
        <5>2. QED
          BY ONLY <4>1, <4>3, <5>1
      <4>4. CASE k < t
        <5>1. k \in 1 .. Len(s) /\ r[k] = s[k]
          BY <1>1, <2>8, <4>4, SMTT(30)
        <5>2. QED
          BY <4>1, <5>1 DEF Apart
      <4>5. CASE t < k - 1
        <5>1. k - 1 \in 1 .. Len(s) /\ r[k] = s[k - 1] /\ j < k - 1
          BY <1>1, <2>8, <3>1, <4>5
        <5>2. QED
          BY <4>1, <5>1 DEF Apart
      <4>6. QED
        BY <4>2, <4>3, <4>4, <4>5
    <3>2. CASE j = t
      <4>1. End(r[j]) = a
        BY <1>1, <2>1, <2>7, <3>2
      <4>2. CASE k = t + 1
        BY <1>2, <1>4, <2>7, <4>1, <4>2
      <4>3. CASE k # t + 1
        <5>1. k - 1 \in 1 .. Len(s) /\ r[k] = s[k - 1] /\ t < k - 1
          BY <1>1, <2>8, <3>2, <4>3
        <5>2. QED
          BY <1>2, <1>5, <1>6, <4>1, <5>1, SMTT(30)
      <4>4. QED
        BY <4>2, <4>3
    <3>3. CASE j = t + 1
      <4>1. End(r[j]) = End(b)
        BY <1>4, <2>7, <3>3
      <4>2. k - 1 \in 1 .. Len(s) /\ r[k] = s[k - 1] /\ t < k - 1
        BY <1>1, <2>8, <3>3
      <4>3. QED
        BY <1>5, <4>1, <4>2
    <3>4. CASE j > t + 1
      <4>1. j - 1 \in 1 .. Len(s) /\ r[j] = s[j - 1] /\ k - 1 \in 1 .. Len(s) /\ r[k] = s[k - 1] /\ j - 1 < k - 1
        <5>1. k > t + 1 /\ j \in Int /\ k \in Int /\ t \in Int /\ j - 1 < k - 1
          BY <1>1, <3>4
        <5>2. j - 1 \in 1 .. Len(s) /\ r[j] = s[j - 1]
          BY <2>8, <3>4, <5>1
        <5>3. k - 1 \in 1 .. Len(s) /\ r[k] = s[k - 1]
          BY <2>8, <5>1
        <5>4. QED
          BY <5>1, <5>2, <5>3
      <4>2. QED
        BY <4>1 DEF Apart
    <3>5. QED
      BY <1>1, <3>1, <3>2, <3>3, <3>4
  <2>10. \A p \in Int : FreeAt(r, p) <=> FreeAt(s, p) /\ ~(a <= p /\ p < a + size)
    <3> TAKE p \in Int
    <3>1. p \in PagesOf(b) /\ ~(a <= p /\ p < a + size) <=> p \in PagesOf(c) \/ p \in PagesOf(rest)
      BY <1>1, <1>2, <1>4, <2>1
    <3>2. \A j \in 1 .. Len(s) : j # t /\ p \in PagesOf(s[j]) => ~(a <= p /\ p < a + size)
      BY <1>2, <1>1, <1>7, SMTT(30)
    <3>3. ASSUME FreeAt(r, p) PROVE FreeAt(s, p) /\ ~(a <= p /\ p < a + size)
      <4>1. PICK i \in 1 .. Len(r) : p \in PagesOf(r[i])
        BY <3>3 DEF FreeAt
      <4>2. CASE i = t \/ i = t + 1
        BY <1>0, <2>7, <3>1, <4>1, <4>2 DEF FreeAt
      <4>3. CASE ~(i = t \/ i = t + 1)
        <5>1. \E j \in 1 .. Len(s) : j # t /\ r[i] = s[j]
          BY <1>1, <2>8, <4>3
        <5>2. QED
          BY <3>2, <4>1, <5>1 DEF FreeAt
      <4>4. QED
        BY <4>2, <4>3
    <3>4. ASSUME FreeAt(s, p), ~(a <= p /\ p < a + size) PROVE FreeAt(r, p)
      <4>1. PICK j \in 1 .. Len(s) : p \in PagesOf(s[j])
        BY <3>4 DEF FreeAt
      <4>2. CASE j = t
        BY <1>0, <2>7, <3>1, <3>4, <4>1, <4>2 DEF FreeAt
      <4>3. CASE j # t
        <5>1. \E i \in 1 .. Len(r) : r[i] = s[j]
          <6>1. j < t \/ t < j
            BY <1>1, <4>3
          <6>2. QED
            BY <2>7, <6>1
        <5>2. QED
          BY <4>1, <5>1 DEF FreeAt
      <4>4. QED
        BY <4>2, <4>3
    <3>5. QED
      BY <3>3, <3>4
  <2>11. StartsFrom(r, s, a + size)
    <3>1. ASSUME NEW i \in 1 .. Len(r)
          PROVE  r[i].start = a + size \/ \E j \in 1 .. Len(s) : r[i].start = s[j].start
      <4>1. CASE i = t
        BY <1>0, <2>1, <2>7, <4>1
      <4>2. CASE i = t + 1
        BY <1>4, <2>7, <4>2
      <4>3. CASE ~(i = t \/ i = t + 1)
        BY <1>1, <2>8, <4>3
      <4>4. QED
        BY <4>1, <4>2, <4>3
    <3>2. QED
      BY <3>1 DEF StartsFrom
  <2>12. QED
    BY <1>1, <2>3, <2>6, <2>9, <2>10, <2>11 DEF Without
<1>10. QED
  BY <1>8, <1>9

\* The free pages are those of s and those of block b.
Plus(r, s, b) ==
    /\ r \in Seq(Blocks)
    /\ \A p \in Int : FreeAt(r, p) <=> FreeAt(s, p) \/ p \in PagesOf(b)
    /\ StartsFrom(r, s, b.start)

\* No block of s has a page of b or starts inside it.
Clear(s, b) == \A k \in 1 .. Len(s) : End(s[k]) <= b.start \/ End(b) <= s[k].start

\* The new block goes between two blocks.
LEMMA InsertBlock ==
    ASSUME NEW s \in Seq(Blocks), Apart(s), NEW b \in Blocks, b.size # 0, Clear(s, b),
           NEW r, r = Insert(s, b)
    PROVE  /\ Sorted(r) /\ Plus(r, s, b)
           /\ (\A k \in 1 .. Len(s) : End(s[k]) # b.start /\ End(b) # s[k].start) => Apart(r)
<1>1. /\ Len(s) \in Nat
      /\ b.start \in Nat /\ b.size \in Nat /\ End(b) \in Int /\ b.start < End(b)
      /\ \A j \in 1 .. Len(s) : s[j] \in Blocks
  <2>1. Len(s) \in Nat /\ \A j \in 1 .. Len(s) : s[j] \in Blocks
    OBVIOUS
  <2>2. b.start \in Nat /\ b.size \in Nat /\ End(b) \in Int /\ End(b) = b.start + b.size
    BY BlockFacts
  <2>3. QED
    BY <2>1, <2>2
<1>2. \A j \in 1 .. Len(s) : s[j].start \in Int /\ End(s[j]) \in Int /\ s[j].start <= End(s[j])
  BY <1>1, BlockFacts
<1> DEFINE above == {k \in DOMAIN s : b.start < s[k].start}
<1>3. PICK m : m = IF above = {} THEN Len(s) + 1 ELSE Min(above)
  OBVIOUS
<1>4. /\ m \in 1 .. Len(s) + 1
      /\ \A k \in 1 .. Len(s) : k < m => ~(b.start < s[k].start)
      /\ m \in 1 .. Len(s) => b.start < s[m].start
  <2>1. DOMAIN s = 1 .. Len(s)
    OBVIOUS
  <2>2. CASE above = {}
    <3>1. m = Len(s) + 1
      BY <1>3, <2>2
    <3>2. QED
      BY <1>1, <2>1, <2>2, <3>1
  <2>3. CASE above # {}
    <3>1. above \in SUBSET Nat
      BY <1>1, <2>1
    <3>2. Min(above) \in above /\ \A x \in above : Min(above) <= x
      BY <2>3, <3>1, LeastElement
    <3>3. m \in above /\ \A x \in above : m <= x
      BY <1>3, <2>3, <3>2
    <3>4. QED
      BY <1>1, <2>1, <3>3
  <2>4. QED
    BY <2>2, <2>3
<1>5. r = InsertAt(s, m, b)
  BY <1>3 DEF Insert
<1> HIDE DEF above
<1>6. /\ r \in Seq(Blocks)
      /\ Len(r) = Len(s) + 1
      /\ r[m] = b
      /\ \A i \in 1 .. m - 1 : r[i] = s[i]
      /\ \A i \in m .. Len(s) : r[i + 1] = s[i]
  BY <1>4, <1>5, InsertAtProperties
\* The blocks before the new one, and those after it.
<1>7. \A k \in 1 .. Len(s) : k < m => End(s[k]) <= b.start
  BY <1>1, <1>2, <1>4 DEF Clear
<1>8. \A k \in 1 .. Len(s) : m <= k => End(b) <= s[k].start
  <2> TAKE k \in 1 .. Len(s)
  <2> HAVE m <= k
  <2>1. m \in 1 .. Len(s) /\ b.start < s[m].start
    BY <1>1, <1>4
  <2>2. b.start < s[k].start
    <3>1. CASE k = m
      BY <2>1, <3>1
    <3>2. CASE k # m
      <4>1. End(s[m]) < s[k].start
        BY <1>4, <2>1, <3>2 DEF Apart
      <4>2. QED
        BY <1>1, <1>2, <2>1, <4>1
    <3>3. QED
      BY <3>1, <3>2
  <2>3. QED
    BY <1>1, <1>2, <2>2 DEF Clear
<1>9. /\ \A i \in 1 .. Len(s) : i < m => i \in 1 .. Len(r) /\ r[i] = s[i]
      /\ m \in 1 .. Len(r)
      /\ \A i \in 1 .. Len(s) : m <= i => i + 1 \in 1 .. Len(r) /\ r[i + 1] = s[i]
  <2>1. ASSUME NEW i \in 1 .. Len(s), i < m PROVE i \in 1 .. Len(r) /\ r[i] = s[i]
    <3>1. i \in 1 .. m - 1 /\ i \in 1 .. Len(r)
      BY <1>1, <1>4, <1>6, <2>1
    <3>2. QED
      BY <1>6, <3>1
  <2>2. ASSUME NEW i \in 1 .. Len(s), m <= i PROVE i + 1 \in 1 .. Len(r) /\ r[i + 1] = s[i]
    <3>1. i \in m .. Len(s) /\ i + 1 \in 1 .. Len(r)
      BY <1>1, <1>4, <1>6, <2>2
    <3>2. QED
      BY <1>6, <3>1
  <2>3. m \in 1 .. Len(r)
    BY <1>1, <1>4, <1>6
  <2>4. QED
    BY <2>1, <2>2, <2>3
<1>10. \A i \in 1 .. Len(r) : \/ i \in 1 .. Len(s) /\ i < m /\ r[i] = s[i]
                              \/ i = m /\ r[i] = b
                              \/ i - 1 \in 1 .. Len(s) /\ m <= i - 1 /\ m < i /\ r[i] = s[i - 1]
  <2> TAKE i \in 1 .. Len(r)
  <2>1. i < m => i \in 1 .. Len(s)
    BY <1>1, <1>4
  <2>2. i > m => i - 1 \in 1 .. Len(s) /\ m <= i - 1 /\ (i - 1) + 1 = i
    BY <1>1, <1>4, <1>6
  <2>3. i < m \/ i = m \/ i > m
    BY <1>4
  <2>4. QED
    BY <1>6, <1>9, <2>1, <2>2, <2>3
<1>11. ASSUME NEW j \in 1 .. Len(r), NEW k \in 1 .. Len(r), j < k
       PROVE  \/ End(r[j]) < r[k].start
              \/ \E i \in 1 .. Len(s) : End(s[i]) = b.start /\ End(r[j]) <= r[k].start
              \/ \E i \in 1 .. Len(s) : End(b) = s[i].start /\ End(r[j]) <= r[k].start
  <2>0. m \in Int /\ j \in Int /\ k \in Int
    BY <1>4
  <2>1. CASE j = m
    <3>1. k - 1 \in 1 .. Len(s) /\ m <= k - 1 /\ r[k] = s[k - 1] /\ r[j] = b
      BY <1>6, <1>10, <1>11, <2>0, <2>1
    <3>2. End(b) <= s[k - 1].start /\ s[k - 1].start \in Int
      BY <1>2, <1>8, <3>1
    <3>3. End(b) < s[k - 1].start \/ End(b) = s[k - 1].start
      BY ONLY <1>1, <3>2
    <3>4. QED
      BY <3>1, <3>2, <3>3
  <2>2. CASE k = m
    <3>1. j \in 1 .. Len(s) /\ j < m /\ r[j] = s[j] /\ r[k] = b
      BY <1>6, <1>10, <1>11, <2>0, <2>2
    <3>2. End(s[j]) <= b.start /\ End(s[j]) \in Int
      BY <1>2, <1>7, <3>1
    <3>3. End(s[j]) < b.start \/ End(s[j]) = b.start
      BY ONLY <1>1, <3>2
    <3>4. QED
      BY <3>1, <3>2, <3>3
  <2>3. CASE j # m /\ k # m
    <3>1. PICK x \in 1 .. Len(s), y \in 1 .. Len(s) : x < y /\ r[j] = s[x] /\ r[k] = s[y]
      <4>1. CASE k < m
        <5>1. j \in 1 .. Len(s) /\ k \in 1 .. Len(s) /\ r[j] = s[j] /\ r[k] = s[k]
          BY <1>10, <1>11, <2>0, <4>1
        <5>2. QED
          BY <1>11, <5>1
      <4>2. CASE m < k /\ j < m
        <5>1. j \in 1 .. Len(s) /\ k - 1 \in 1 .. Len(s) /\ r[j] = s[j] /\ r[k] = s[k - 1] /\ m <= k - 1
          BY <1>10, <2>0, <4>2
        <5>2. j < k - 1
          BY <2>0, <4>2
        <5>3. QED
          BY <5>1, <5>2
      <4>3. CASE m < j
        <5>1. j - 1 \in 1 .. Len(s) /\ k - 1 \in 1 .. Len(s) /\ r[j] = s[j - 1] /\ r[k] = s[k - 1]
          BY <1>10, <1>11, <2>0, <4>3
        <5>2. j - 1 < k - 1
          BY <1>11, <2>0
        <5>3. QED
          BY <5>1, <5>2
      <4>4. QED
        BY <1>11, <2>0, <2>3, <4>1, <4>2, <4>3
    <3>2. QED
      BY <3>1 DEF Apart
  <2>4. QED
    BY <2>1, <2>2, <2>3
<1>12. \A i \in 1 .. Len(r) : r[i].start \in Int /\ End(r[i]) \in Int
  <2>1. \A i \in 1 .. Len(r) : r[i] \in Blocks
    BY <1>6
  <2>2. QED
    BY <2>1, BlockFacts
<1>13. Sorted(r)
  BY <1>11, <1>12 DEF Sorted
<1>14. (\A k \in 1 .. Len(s) : End(s[k]) # b.start /\ End(b) # s[k].start) => Apart(r)
  BY <1>11 DEF Apart
<1>15. \A p \in Int : FreeAt(r, p) <=> FreeAt(s, p) \/ p \in PagesOf(b)
  <2> TAKE p \in Int
  <2>1. ASSUME FreeAt(r, p) PROVE FreeAt(s, p) \/ p \in PagesOf(b)
    BY <1>10, <2>1 DEF FreeAt
  <2>2. ASSUME FreeAt(s, p) PROVE FreeAt(r, p)
    <3>1. PICK i \in 1 .. Len(s) : p \in PagesOf(s[i])
      BY <2>2 DEF FreeAt
    <3>2. i < m \/ m <= i
      BY <1>4
    <3>3. QED
      BY <1>9, <3>1, <3>2 DEF FreeAt
  <2>3. p \in PagesOf(b) => FreeAt(r, p)
    BY <1>6, <1>9 DEF FreeAt
  <2>4. QED
    BY <2>1, <2>2, <2>3
<1>16. StartsFrom(r, s, b.start)
  BY <1>10 DEF StartsFrom
<1>17. QED
  BY <1>6, <1>13, <1>14, <1>15, <1>16 DEF Plus

\* Block k takes in the pages beside it.
LEMMA GrowBlock ==
    ASSUME NEW s \in Seq(Blocks), Apart(s), NEW b \in Blocks, b.size # 0, Clear(s, b),
           NEW k \in 1 .. Len(s), End(b) = s[k].start \/ End(s[k]) = b.start,
           NEW r, r = Grow(s, k, b)
    PROVE  /\ Sorted(r) /\ Plus(r, s, b)
           /\ (\A j \in 1 .. Len(s) : End(s[j]) # b.start) => Apart(r)
<1>0. PICK o : o = s[k]
  OBVIOUS
<1>1. /\ Len(s) \in Nat
      /\ b.start \in Nat /\ b.size \in Nat /\ End(b) = b.start + b.size /\ End(b) \in Int /\ b.start < End(b)
      /\ o \in Blocks /\ o.start \in Nat /\ o.size \in Nat /\ End(o) = o.start + o.size /\ End(o) \in Int
      /\ \A j \in 1 .. Len(s) : s[j] \in Blocks
  <2>1. Len(s) \in Nat /\ \A j \in 1 .. Len(s) : s[j] \in Blocks
    OBVIOUS
  <2>2. o \in Blocks
    BY <1>0, <2>1
  <2>3. b.start \in Nat /\ b.size \in Nat /\ End(b) \in Int /\ End(b) = b.start + b.size
    BY BlockFacts
  <2>4. o.start \in Nat /\ o.size \in Nat /\ End(o) \in Int /\ End(o) = o.start + o.size
    BY <2>2, BlockFacts
  <2>5. QED
    BY <2>1, <2>2, <2>3, <2>4
<1>2. \A j \in 1 .. Len(s) : s[j].start \in Int /\ End(s[j]) \in Int /\ s[j].start <= End(s[j])
  BY <1>1, BlockFacts
<1>3. PICK c : c = [start |-> IF End(b) = o.start THEN b.start ELSE o.start, size |-> o.size + b.size]
  OBVIOUS
<1>4. PICK st : st = IF End(b) = o.start THEN b.start ELSE o.start
  OBVIOUS
<1>5. /\ c \in Blocks /\ c.start = st /\ c.size = o.size + b.size
      /\ st \in Nat /\ End(c) = st + (o.size + b.size)
  <2>1. st \in Nat /\ o.size + b.size \in Nat
    BY <1>1, <1>4
  <2>2. c = [start |-> st, size |-> o.size + b.size]
    BY <1>3, <1>4
  <2>3. c \in [start : Nat, size : Nat] /\ c.start = st /\ c.size = o.size + b.size
    BY ONLY <2>1, <2>2
  <2>4. QED
    BY <2>1, <2>3 DEF Blocks, End
<1>6. r = [s EXCEPT ![k] = c]
  BY <1>0, <1>3 DEF Grow
<1>7. /\ r \in Seq(Blocks) /\ Len(r) = Len(s) /\ r[k] = c
      /\ \A j \in 1 .. Len(s) : j # k => r[j] = s[j]
  BY <1>5, <1>6, BlockReplaced
<1>8. /\ \A j \in 1 .. Len(s) : j < k => End(s[j]) < o.start
      /\ \A j \in 1 .. Len(s) : k < j => End(o) < s[j].start
  BY <1>0 DEF Apart
<1>9. \A p \in Int : /\ p \in PagesOf(o) <=> o.start <= p /\ p < End(o)
                     /\ p \in PagesOf(b) <=> b.start <= p /\ p < End(b)
                     /\ p \in PagesOf(c) <=> c.start <= p /\ p < End(c)
  BY <1>1, <1>5, BlockFacts
\* The block on the right of the new pages, or on their left.
<1>10. \/ End(b) = o.start /\ c.start = b.start /\ End(c) = End(o)
       \/ End(o) = b.start /\ c.start = o.start /\ End(c) = End(b)
  <2>1. CASE End(b) = o.start
    BY <1>1, <1>4, <1>5, <2>1
  <2>2. CASE End(b) # o.start
    <3>1. End(o) = b.start
      BY <1>0, <2>2
    <3>2. QED
      BY <1>1, <1>4, <1>5, <2>2, <3>1, SMTT(30)
  <2>3. QED
    BY <2>1, <2>2
<1>11. \A p \in Int : p \in PagesOf(c) <=> p \in PagesOf(o) \/ p \in PagesOf(b)
  <2> TAKE p \in Int
  <2>1. c.start \in Int /\ End(c) \in Int
    BY <1>5, <1>1
  <2>2. o.start <= End(o)
    BY <1>1
  <2>3. QED
    BY <1>1, <1>9, <1>10, <2>1, <2>2
\* Every other block is before both or after both.
<1>12. ASSUME NEW j \in 1 .. Len(s), j < k
       PROVE  End(s[j]) <= c.start /\ (End(s[j]) # b.start => End(s[j]) < c.start)
  <2>1. End(s[j]) < o.start /\ End(s[j]) \in Int /\ s[j].start \in Int /\ s[j].start <= End(s[j])
    BY <1>2, <1>8, <1>12
  <2>2. End(s[j]) <= b.start \/ End(b) <= s[j].start
    BY DEF Clear
  <2>3. QED
    BY ONLY <1>1, <1>10, <2>1, <2>2
<1>13. ASSUME NEW j \in 1 .. Len(s), k < j
       PROVE  End(c) <= s[j].start /\ (End(o) # b.start => End(c) < s[j].start)
  <2>1. End(o) < s[j].start /\ End(s[j]) \in Int /\ s[j].start \in Int /\ s[j].start <= End(s[j])
    BY <1>2, <1>8, <1>13
  <2>2. End(s[j]) <= b.start \/ End(b) <= s[j].start
    BY DEF Clear
  <2>3. o.start <= End(o)
    BY <1>1
  <2>4. QED
    BY ONLY <1>1, <1>10, <2>1, <2>2, <2>3
<1>14. ASSUME NEW i \in 1 .. Len(s), NEW j \in 1 .. Len(s), i < j
       PROVE  /\ End(r[i]) <= r[j].start
              /\ End(s[i]) # b.start /\ End(o) # b.start => End(r[i]) < r[j].start
  <2>1. CASE i = k
    BY <1>7, <1>13, <1>14, <2>1
  <2>2. CASE j = k
    BY <1>7, <1>12, <1>14, <2>2
  <2>3. CASE i # k /\ j # k
    <3>1. r[i] = s[i] /\ r[j] = s[j] /\ End(s[i]) < s[j].start
      BY <1>7, <1>14, <2>3 DEF Apart
    <3>2. QED
      BY <1>2, <3>1
  <2>4. QED
    BY <2>1, <2>2, <2>3
<1>15. Sorted(r)
  BY <1>7, <1>14 DEF Sorted
<1>16. (\A j \in 1 .. Len(s) : End(s[j]) # b.start) => Apart(r)
  BY <1>0, <1>7, <1>14 DEF Apart
<1>17. \A p \in Int : FreeAt(r, p) <=> FreeAt(s, p) \/ p \in PagesOf(b)
  BY <1>0, <1>7, <1>11 DEF FreeAt
<1>18. StartsFrom(r, s, b.start)
  BY <1>0, <1>7, <1>10 DEF StartsFrom
<1>19. QED
  BY <1>7, <1>15, <1>16, <1>17, <1>18 DEF Plus

\* mblock_free's pages go back to the blocks.
LEMMA PutBackBlock ==
    ASSUME NEW s \in Seq(Blocks), Apart(s), NEW b \in Blocks, b.size # 0, Clear(s, b),
           NEW r, r = PutBack(s, b)
    PROVE  Sorted(r) /\ Plus(r, s, b)
<1> DEFINE onright == {k \in DOMAIN s : End(b) = s[k].start}
           onleft == {k \in DOMAIN s \ onright : End(s[k]) = b.start}
<1>1. Len(s) \in Nat /\ DOMAIN s = 1 .. Len(s)
  OBVIOUS
<1>2. onright \in SUBSET (0 .. Len(s)) /\ onleft \in SUBSET (0 .. Len(s))
  BY <1>1
<1>3. onright # {} => Max(onright) \in onright
  BY <1>1, <1>2, GreatestElement
<1>4. onleft # {} => Max(onleft) \in onleft
  BY <1>1, <1>2, GreatestElement
<1>5. \/ r = Insert(s, b)
      \/ onright # {} /\ r = Grow(s, Max(onright), b)
      \/ onleft # {} /\ r = Grow(s, Max(onleft), b)
  BY DEF PutBack
<1>6. \A k : k \in onright \/ k \in onleft
                => k \in 1 .. Len(s) /\ (End(b) = s[k].start \/ End(s[k]) = b.start)
  BY <1>1
<1> HIDE DEF onright, onleft
<1>7. CASE r = Insert(s, b)
  BY <1>7, InsertBlock
<1>8. CASE onright # {} /\ r = Grow(s, Max(onright), b)
  <2>1. Max(onright) \in 1 .. Len(s) /\ (End(b) = s[Max(onright)].start \/ End(s[Max(onright)]) = b.start)
    BY <1>3, <1>6, <1>8
  <2>2. QED
    BY <1>8, <2>1, GrowBlock
<1>9. CASE onleft # {} /\ r = Grow(s, Max(onleft), b)
  <2>1. Max(onleft) \in 1 .. Len(s) /\ (End(b) = s[Max(onleft)].start \/ End(s[Max(onleft)]) = b.start)
    BY <1>4, <1>6, <1>9
  <2>2. QED
    BY <1>9, <2>1, GrowBlock
<1>10. QED
  BY <1>5, <1>7, <1>8, <1>9
-----------------------------------------------------------------------------
(* The records. *)

Tables == [1 .. MaxReserved + 3 -> Entries]
Infos == [mblock : Seq(Blocks), reserved : Tables, reserved_num : Nat]

InRun(p, a, size) == a <= p /\ p < a + size

\* The page p is in a record of mapping m; in some record.
Holds(res, n, p, m) == \E k \in 1 .. n : p \in PagesOf(res[k]) /\ res[k].mapping = m
Held(res, n, p) == \E k \in 1 .. n : p \in PagesOf(res[k])

\* The slots after the first n are clean: mblock_alloc_range_no_lock looks at the first.
CleanAfter(res, n) == \A k \in n + 1 .. MaxReserved + 3 : res[k] = NoRecord

\* The first n records are not empty and have no page in common, the others are clean.
RecordsOK(res, n) ==
    /\ res \in Tables
    /\ n \in 0 .. MaxReserved + 2
    /\ \A k \in 1 .. n : res[k].size # 0
    /\ \A j, k \in 1 .. n, p \in Int : p \in PagesOf(res[j]) /\ p \in PagesOf(res[k]) => j = k
    /\ CleanAfter(res, n)

\* The arithmetic of records.
LEMMA EntryFacts ==
    ASSUME NEW b \in Entries
    PROVE  /\ b.start \in Nat /\ b.size \in Nat /\ b.mapping \in Mappings \cup {Free}
           /\ End(b) = b.start + b.size /\ End(b) \in Nat /\ b.start <= End(b)
           /\ \A p : p \in PagesOf(b) <=> p \in Int /\ b.start <= p /\ p < End(b)
<1>1. b.start \in Nat /\ b.size \in Nat /\ b.mapping \in Mappings \cup {Free}
  BY DEF Entries
<1>2. End(b) = b.start + b.size /\ PagesOf(b) = b.start .. (End(b) - 1)
  BY DEF End, PagesOf
<1>3. End(b) \in Nat /\ b.start <= End(b)
  BY <1>1, <1>2
<1>4. QED
  BY <1>1, <1>2, <1>3

\* The live records are entries of the array.
LEMMA LiveEntries ==
    ASSUME NEW res, NEW n, RecordsOK(res, n)
    PROVE  n \in Nat /\ \A k \in 1 .. n : k \in 1 .. MaxReserved + 3 /\ res[k] \in Entries
<1>1. MaxReserved \in Nat
  BY MapAssumption
<1>2. n \in Nat /\ n <= MaxReserved + 2 /\ res \in [1 .. MaxReserved + 3 -> Entries]
  BY <1>1 DEF RecordsOK, Tables
<1>3. \A k \in 1 .. n : k \in 1 .. MaxReserved + 3
  BY <1>1, <1>2
<1>4. QED
  BY <1>2, <1>3

\* What is left of the records when the run [a, a + size) is taken out of them.
CutFrom(res2, n2, res, n, a, size) ==
    /\ RecordsOK(res2, n2)
    /\ \A p \in Int : \A m : Holds(res2, n2, p, m) <=> Holds(res, n, p, m) /\ ~InRun(p, a, size)
    /\ \A x \in Int, k \in 1 .. n2 : x - 1 \in PagesOf(res2[k]) /\ x \in PagesOf(res2[k])
          => \E j \in 1 .. n : x - 1 \in PagesOf(res[j]) /\ x \in PagesOf(res[j])

\* Every record that is left is a part of the record f gives for it.
PartsOf(f, res2, n2, res, n, a, size) ==
    /\ res2 \in Tables /\ n2 \in 0 .. MaxReserved + 2 /\ f \in [1 .. n2 -> 1 .. n]
    /\ \A k \in 1 .. n2 : /\ res2[k].size # 0
                          /\ res2[k].mapping = res[f[k]].mapping
                          /\ \A p \in Int : p \in PagesOf(res2[k])
                                => p \in PagesOf(res[f[k]]) /\ ~InRun(p, a, size)
    /\ \A k \in 1 .. n, p \in Int : p \in PagesOf(res[k]) /\ ~InRun(p, a, size)
          => \E j \in 1 .. n2 : f[j] = k /\ p \in PagesOf(res2[j])
    /\ \A j, k \in 1 .. n2, p \in Int :
          f[j] = f[k] /\ p \in PagesOf(res2[j]) /\ p \in PagesOf(res2[k]) => j = k
    /\ CleanAfter(res2, n2)

\* Then the records that are left hold what was held, without the run.
LEMMA CutRecords ==
    ASSUME NEW res, NEW n, RecordsOK(res, n), NEW a \in Int, NEW size \in Nat,
           NEW f, NEW res2, NEW n2, PartsOf(f, res2, n2, res, n, a, size)
    PROVE  CutFrom(res2, n2, res, n, a, size)
<1>0. /\ res2 \in Tables /\ n2 \in 0 .. MaxReserved + 2 /\ f \in [1 .. n2 -> 1 .. n]
      /\ \A k \in 1 .. n2 : /\ res2[k].size # 0
                            /\ res2[k].mapping = res[f[k]].mapping
                            /\ \A p \in Int : p \in PagesOf(res2[k])
                                  => p \in PagesOf(res[f[k]]) /\ ~InRun(p, a, size)
      /\ \A k \in 1 .. n, p \in Int : p \in PagesOf(res[k]) /\ ~InRun(p, a, size)
            => \E j \in 1 .. n2 : f[j] = k /\ p \in PagesOf(res2[j])
      /\ \A j, k \in 1 .. n2, p \in Int :
            f[j] = f[k] /\ p \in PagesOf(res2[j]) /\ p \in PagesOf(res2[k]) => j = k
      /\ CleanAfter(res2, n2)
  BY DEF PartsOf
<1>1. \A j, k \in 1 .. n2, p \in Int : p \in PagesOf(res2[j]) /\ p \in PagesOf(res2[k]) => j = k
  <2> TAKE j, k \in 1 .. n2, p \in Int
  <2> HAVE p \in PagesOf(res2[j]) /\ p \in PagesOf(res2[k])
  <2>1. f[j] \in 1 .. n /\ f[k] \in 1 .. n /\ p \in PagesOf(res[f[j]]) /\ p \in PagesOf(res[f[k]])
    BY <1>0
  <2>2. f[j] = f[k]
    BY <2>1 DEF RecordsOK
  <2>3. QED
    BY <1>0, <2>2
<1>2. RecordsOK(res2, n2)
  BY <1>0, <1>1 DEF RecordsOK
<1>3. ASSUME NEW p \in Int, NEW m, Holds(res2, n2, p, m)
      PROVE  Holds(res, n, p, m) /\ ~InRun(p, a, size)
  <2>1. PICK k \in 1 .. n2 : p \in PagesOf(res2[k]) /\ res2[k].mapping = m
    BY <1>3 DEF Holds
  <2>2. f[k] \in 1 .. n /\ p \in PagesOf(res[f[k]]) /\ res[f[k]].mapping = m /\ ~InRun(p, a, size)
    BY <1>0, <2>1
  <2>3. QED
    BY <2>2 DEF Holds
<1>4. ASSUME NEW p \in Int, NEW m, Holds(res, n, p, m), ~InRun(p, a, size)
      PROVE  Holds(res2, n2, p, m)
  <2>1. PICK k \in 1 .. n : p \in PagesOf(res[k]) /\ res[k].mapping = m
    BY <1>4 DEF Holds
  <2>2. PICK j \in 1 .. n2 : f[j] = k /\ p \in PagesOf(res2[j])
    BY <1>0, <1>4, <2>1
  <2>3. res2[j].mapping = m
    BY <1>0, <2>1, <2>2
  <2>4. QED
    BY <2>2, <2>3 DEF Holds
<1>5. ASSUME NEW x \in Int, NEW k \in 1 .. n2, x - 1 \in PagesOf(res2[k]), x \in PagesOf(res2[k])
      PROVE  \E j \in 1 .. n : x - 1 \in PagesOf(res[j]) /\ x \in PagesOf(res[j])
  <2>1. x - 1 \in Int
    OBVIOUS
  <2>2. f[k] \in 1 .. n /\ x - 1 \in PagesOf(res[f[k]]) /\ x \in PagesOf(res[f[k]])
    BY <1>0, <1>5, <2>1
  <2>3. QED
    BY <2>2
<1>6. QED
  BY <1>2, <1>3, <1>4, <1>5 DEF CutFrom

Resized(c, rec, st, sz) ==
    \/ c = [rec EXCEPT !.start = st, !.size = sz]
    \/ c = [rec EXCEPT !.size = sz] /\ st = rec.start

\* A record whose place and size change.
LEMMA EntryChanged ==
    ASSUME NEW rec \in Entries, NEW st \in Nat, NEW sz \in Nat, NEW c, Resized(c, rec, st, sz)
    PROVE  /\ c \in Entries /\ c.start = st /\ c.size = sz /\ c.mapping = rec.mapping
           /\ End(c) = st + sz
           /\ \A p \in Int : p \in PagesOf(c) <=> st <= p /\ p < st + sz
<1>1. rec \in [start : Nat, size : Nat, mapping : Mappings \cup {Free}]
  BY DEF Entries
<1>2. CASE c = [rec EXCEPT !.start = st, !.size = sz]
  <2>1. PICK d : d = [rec EXCEPT !.start = st]
    OBVIOUS
  <2>2. d \in [start : Nat, size : Nat, mapping : Mappings \cup {Free}] /\ d.start = st /\ d.mapping = rec.mapping
    BY ONLY <1>1, <2>1, st \in Nat
  <2>3. c = [d EXCEPT !.size = sz]
    BY ONLY <1>1, <1>2, <2>1
  <2>4. /\ c \in [start : Nat, size : Nat, mapping : Mappings \cup {Free}]
        /\ c.start = st /\ c.size = sz /\ c.mapping = rec.mapping
    BY ONLY <2>2, <2>3, sz \in Nat
  <2>5. c \in Entries
    BY <2>4 DEF Entries
  <2>6. End(c) = st + sz
    BY <2>4 DEF End
  <2>7. QED
    BY <2>4, <2>5, <2>6, EntryFacts
<1>3. CASE c = [rec EXCEPT !.size = sz] /\ st = rec.start
  <2>4. /\ c \in [start : Nat, size : Nat, mapping : Mappings \cup {Free}]
        /\ c.start = st /\ c.size = sz /\ c.mapping = rec.mapping
    BY ONLY <1>1, <1>3, sz \in Nat
  <2>5. c \in Entries
    BY <2>4 DEF Entries
  <2>6. End(c) = st + sz
    BY <2>4 DEF End
  <2>7. QED
    BY <2>4, <2>5, <2>6, EntryFacts
<1>4. QED
  BY <1>2, <1>3 DEF Resized

Updated(j, i, res, n) == j = [i EXCEPT !.reserved = res, !.reserved_num = n]
Changed(j, i, t, c) == j = [i EXCEPT !.reserved[t] = c]

\* The tables with other records.
LEMMA InfoUpdated ==
    ASSUME NEW i \in Infos, NEW res \in Tables, NEW n \in Nat, NEW j, Updated(j, i, res, n)
    PROVE  j \in Infos /\ j.mblock = i.mblock /\ j.reserved = res /\ j.reserved_num = n
<1>0. j = [i EXCEPT !.reserved = res, !.reserved_num = n]
  BY DEF Updated
<1>1. i \in [mblock : Seq(Blocks), reserved : Tables, reserved_num : Nat]
  BY DEF Infos
<1>2. PICK h : h = [i EXCEPT !.reserved = res]
  OBVIOUS
<1>3. /\ h \in [mblock : Seq(Blocks), reserved : Tables, reserved_num : Nat]
      /\ h.mblock = i.mblock /\ h.reserved = res
  BY ONLY <1>1, <1>2, res \in Tables
<1>4. j = [h EXCEPT !.reserved_num = n]
  BY ONLY <1>0, <1>1, <1>2
<1>5. /\ j \in [mblock : Seq(Blocks), reserved : Tables, reserved_num : Nat]
      /\ j.mblock = i.mblock /\ j.reserved = res /\ j.reserved_num = n
  BY ONLY <1>3, <1>4, n \in Nat
<1>6. QED
  BY <1>5 DEF Infos

\* The tables with one record changed.
LEMMA RecordChanged ==
    ASSUME NEW i \in Infos, NEW t \in 1 .. MaxReserved + 3, NEW c \in Entries, NEW j,
           Changed(j, i, t, c)
    PROVE  /\ j \in Infos /\ j.mblock = i.mblock /\ j.reserved_num = i.reserved_num
           /\ j.reserved \in Tables
           /\ j.reserved[t] = c /\ \A k \in 1 .. MaxReserved + 3 : k # t => j.reserved[k] = i.reserved[k]
<1>0. j = [i EXCEPT !.reserved[t] = c]
  BY DEF Changed
<1>1. i \in [mblock : Seq(Blocks), reserved : Tables, reserved_num : Nat]
  BY DEF Infos
<1>2. PICK res : res = [i.reserved EXCEPT ![t] = c]
  OBVIOUS
<1>3. res \in Tables /\ res[t] = c /\ \A k \in 1 .. MaxReserved + 3 : k # t => res[k] = i.reserved[k]
  BY <1>1, <1>2 DEF Tables
<1>4. j = [i EXCEPT !.reserved = res]
  BY ONLY <1>0, <1>1, <1>2
<1>5. /\ j \in [mblock : Seq(Blocks), reserved : Tables, reserved_num : Nat]
      /\ j.mblock = i.mblock /\ j.reserved = res /\ j.reserved_num = i.reserved_num
  BY ONLY <1>1, <1>3, <1>4
<1>6. QED
  BY <1>3, <1>5 DEF Infos

\* A record that is freed as a whole: the records after it move down.
LEMMA DropWhole ==
    ASSUME NEW i \in Infos, RecordsOK(i.reserved, i.reserved_num), NEW t \in 1 .. i.reserved_num,
           NEW j, j = DropRecord(i, t, NoRecord)
    PROVE  /\ j \in Infos /\ j.mblock = i.mblock
           /\ j.reserved_num = i.reserved_num - 1
           /\ CutFrom(j.reserved, j.reserved_num, i.reserved, i.reserved_num,
                      i.reserved[t].start, i.reserved[t].size)
<1>0. PICK res, n, rec : res = i.reserved /\ n = i.reserved_num /\ rec = i.reserved[t]
  OBVIOUS
<1>1. /\ MaxReserved \in Nat /\ n \in Nat /\ n <= MaxReserved + 2 /\ t \in 1 .. n
      /\ res \in [1 .. MaxReserved + 3 -> Entries]
      /\ \A k \in 1 .. n : k \in 1 .. MaxReserved + 3 /\ res[k] \in Entries
      /\ rec = res[t] /\ rec \in Entries
  BY <1>0, LiveEntries, MapAssumption DEF RecordsOK, Tables
<1>2. RecordsOK(res, n)
  BY <1>0
<1>3. PICK res2 : res2 = [k \in DOMAIN res |-> IF k \in t .. (n - 1) THEN res[k + 1]
                                               ELSE IF k = n THEN NoRecord ELSE res[k]]
  OBVIOUS
<1>4. NoRecord \in Entries
  <2>1. Free \in Mappings \cup {Free} /\ 0 \in Nat
    OBVIOUS
  <2>2. QED
    BY <2>1 DEF NoRecord, Entries
<1>5. /\ res2 \in Tables
      /\ \A k \in 1 .. n - 1 : res2[k] = IF k < t THEN res[k] ELSE res[k + 1]
  <2>1. \A k \in 1 .. MaxReserved + 3 : k \in t .. (n - 1) => k + 1 \in 1 .. MaxReserved + 3
    BY <1>1
  <2>2. DOMAIN res = 1 .. MaxReserved + 3
    BY <1>1
  <2>3. res2 \in [1 .. MaxReserved + 3 -> Entries]
    BY <1>1, <1>3, <1>4, <2>1, <2>2
  <2>4. \A k \in 1 .. n - 1 : k \in 1 .. MaxReserved + 3 /\ (k \in t .. (n - 1) <=> ~(k < t)) /\ k # n
    BY <1>1
  <2>5. QED
    BY <1>3, <2>2, <2>3, <2>4 DEF Tables
<1>6. Updated(j, i, res2, n - 1)
  BY <1>0, <1>3 DEF DropRecord, Updated
<1>7. n - 1 \in Nat /\ n - 1 \in 0 .. MaxReserved + 2
  BY <1>1
<1>8. j \in Infos /\ j.mblock = i.mblock /\ j.reserved = res2 /\ j.reserved_num = n - 1
  <2>1. i \in Infos /\ res2 \in Tables /\ n - 1 \in Nat
    BY <1>5, <1>7
  <2>2. QED
    BY ONLY <1>6, <2>1, InfoUpdated
<1>9. PICK f : f = [k \in 1 .. n - 1 |-> IF k < t THEN k ELSE k + 1]
  OBVIOUS
<1>10. /\ f \in [1 .. n - 1 -> 1 .. n]
       /\ \A k \in 1 .. n - 1 : res2[k] = res[f[k]] /\ f[k] # t
       /\ \A k \in 1 .. n : k # t => \E h \in 1 .. n - 1 : f[h] = k
       /\ \A h, k \in 1 .. n - 1 : f[h] = f[k] => h = k
  <2>1. f \in [1 .. n - 1 -> 1 .. n]
    BY <1>1, <1>9
  <2>2. \A k \in 1 .. n - 1 : res2[k] = res[f[k]] /\ f[k] # t
    BY <1>1, <1>5, <1>9
  <2>3. ASSUME NEW k \in 1 .. n, k # t PROVE \E h \in 1 .. n - 1 : f[h] = k
    <3>1. CASE k < t
      <4>1. k \in 1 .. n - 1 /\ f[k] = k
        BY <1>1, <1>9, <3>1
      <4>2. QED
        BY <4>1
    <3>2. CASE ~(k < t)
      <4>1. k - 1 \in 1 .. n - 1 /\ ~(k - 1 < t) /\ (k - 1) + 1 = k
        BY <1>1, <2>3, <3>2
      <4>2. f[k - 1] = k
        BY <1>9, <4>1
      <4>3. QED
        BY <4>1, <4>2
    <3>3. QED
      BY <3>1, <3>2
  <2>4. \A h, k \in 1 .. n - 1 : f[h] = f[k] => h = k
    BY <1>1, <1>9
  <2>5. QED
    BY <2>1, <2>2, <2>3, <2>4
<1>11. rec.start \in Int /\ rec.size \in Nat
       /\ \A p \in Int : p \in PagesOf(rec) <=> InRun(p, rec.start, rec.size)
  BY <1>1, EntryFacts DEF InRun
<1>12. \A k \in 1 .. n - 1 : /\ res2[k].size # 0
                             /\ res2[k].mapping = res[f[k]].mapping
                             /\ \A p \in Int : p \in PagesOf(res2[k])
                                 => p \in PagesOf(res[f[k]]) /\ ~InRun(p, rec.start, rec.size)
  <2> TAKE k \in 1 .. n - 1
  <2>1. f[k] \in 1 .. n /\ f[k] # t /\ res2[k] = res[f[k]]
    BY <1>10
  <2>2. res[f[k]].size # 0
    BY <1>2, <2>1 DEF RecordsOK
  <2>3. \A p \in Int : p \in PagesOf(res[f[k]]) => p \notin PagesOf(res[t])
    BY <1>1, <1>2, <2>1 DEF RecordsOK
  <2>4. QED
    BY <1>1, <1>11, <2>1, <2>2, <2>3
<1>13. \A k \in 1 .. n, p \in Int : p \in PagesOf(res[k]) /\ ~InRun(p, rec.start, rec.size)
          => \E h \in 1 .. n - 1 : f[h] = k /\ p \in PagesOf(res2[h])
  <2> TAKE k \in 1 .. n, p \in Int
  <2> HAVE p \in PagesOf(res[k]) /\ ~InRun(p, rec.start, rec.size)
  <2>1. k # t
    BY <1>1, <1>11
  <2>2. PICK h \in 1 .. n - 1 : f[h] = k
    BY <1>10, <2>1
  <2>3. QED
    BY <1>10, <2>2
<1>14. CutFrom(res2, n - 1, res, n, rec.start, rec.size)
  <2>1. /\ res2 \in Tables /\ n - 1 \in 0 .. MaxReserved + 2 /\ f \in [1 .. n - 1 -> 1 .. n]
        /\ rec.start \in Int /\ rec.size \in Nat
    BY <1>5, <1>7, <1>10, <1>11
  <2>2. \A h, k \in 1 .. n - 1, p \in Int :
            f[h] = f[k] /\ p \in PagesOf(res2[h]) /\ p \in PagesOf(res2[k]) => h = k
    BY <1>10
  <2>3. CleanAfter(res2, n - 1)
    <3> SUFFICES ASSUME NEW k \in (n - 1) + 1 .. MaxReserved + 3 PROVE res2[k] = NoRecord
      BY DEF CleanAfter
    <3>1. k \in 1 .. MaxReserved + 3 /\ k \notin t .. (n - 1) /\ (k = n \/ k \in n + 1 .. MaxReserved + 3)
      BY <1>1
    <3>2. res2[k] = IF k = n THEN NoRecord ELSE res[k]
      BY <1>1, <1>3, <3>1
    <3>3. QED
      BY <1>2, <3>1, <3>2 DEF RecordsOK, CleanAfter
  <2>4. PartsOf(f, res2, n - 1, res, n, rec.start, rec.size)
    BY ONLY <1>12, <1>13, <2>1, <2>2, <2>3 DEF PartsOf
  <2>5. QED
    BY ONLY <1>2, <2>1, <2>4, CutRecords
<1>15. QED
  BY <1>0, <1>8, <1>14

\* A record that keeps one end of what it held.
LEMMA ShortenRecord ==
    ASSUME NEW i \in Infos, RecordsOK(i.reserved, i.reserved_num), NEW t \in 1 .. i.reserved_num,
           NEW c \in Entries, c.size # 0, c.mapping = i.reserved[t].mapping,
           NEW a \in Int, NEW size \in Nat,
           \A p \in Int : /\ p \in PagesOf(c) <=> p \in PagesOf(i.reserved[t]) /\ ~InRun(p, a, size)
                          /\ InRun(p, a, size) => p \in PagesOf(i.reserved[t]),
           NEW j, Changed(j, i, t, c)
    PROVE  /\ j \in Infos /\ j.mblock = i.mblock /\ j.reserved_num = i.reserved_num
           /\ CutFrom(j.reserved, j.reserved_num, i.reserved, i.reserved_num, a, size)
<1>0. PICK res, n, rec : res = i.reserved /\ n = i.reserved_num /\ rec = i.reserved[t]
  OBVIOUS
<1>1. /\ MaxReserved \in Nat /\ n \in Nat /\ n \in 0 .. MaxReserved + 2 /\ t \in 1 .. n
      /\ \A k \in 1 .. n : k \in 1 .. MaxReserved + 3
      /\ rec = res[t]
  BY <1>0, LiveEntries, MapAssumption DEF RecordsOK
<1>2. RecordsOK(res, n)
  BY <1>0
<1>3. PICK res2 : res2 = j.reserved
  OBVIOUS
<1>4. /\ j \in Infos /\ j.mblock = i.mblock /\ j.reserved_num = n /\ res2 \in Tables
      /\ res2[t] = c /\ \A k \in 1 .. n : k # t => res2[k] = res[k]
      /\ \A k \in n + 1 .. MaxReserved + 3 : res2[k] = res[k]
  <2>1. t \in 1 .. MaxReserved + 3
    BY <1>1
  <2>2. /\ j \in Infos /\ j.mblock = i.mblock /\ j.reserved_num = i.reserved_num
        /\ j.reserved \in Tables
        /\ j.reserved[t] = c /\ \A k \in 1 .. MaxReserved + 3 : k # t => j.reserved[k] = i.reserved[k]
    <3>1. i \in Infos /\ c \in Entries /\ Changed(j, i, t, c)
      OBVIOUS
    <3>2. QED
      BY ONLY <2>1, <3>1, RecordChanged
  <2>3. \A k \in n + 1 .. MaxReserved + 3 : k \in 1 .. MaxReserved + 3 /\ k # t
    BY <1>1
  <2>4. QED
    BY <1>0, <1>1, <1>3, <2>2, <2>3
<1>5. PICK f : f = [k \in 1 .. n |-> k]
  OBVIOUS
<1>6. f \in [1 .. n -> 1 .. n] /\ \A k \in 1 .. n : f[k] = k
  BY <1>5
<1>7. \A p \in Int : /\ p \in PagesOf(c) <=> p \in PagesOf(rec) /\ ~InRun(p, a, size)
                     /\ InRun(p, a, size) => p \in PagesOf(rec)
  BY <1>0
<1>8. \A k \in 1 .. n : /\ res2[k].size # 0
                        /\ res2[k].mapping = res[f[k]].mapping
                        /\ \A p \in Int : p \in PagesOf(res2[k])
                              => p \in PagesOf(res[f[k]]) /\ ~InRun(p, a, size)
  <2> TAKE k \in 1 .. n
  <2>1. CASE k = t
    BY <1>0, <1>4, <1>6, <1>7, <2>1
  <2>2. CASE k # t
    <3>1. res2[k] = res[k] /\ f[k] = k
      BY <1>4, <1>6, <2>2
    <3>2. res[k].size # 0 /\ \A p \in Int : p \in PagesOf(res[k]) => p \notin PagesOf(res[t])
      BY <1>1, <1>2, <2>2 DEF RecordsOK
    <3>3. QED
      BY <1>1, <1>7, <3>1, <3>2
  <2>3. QED
    BY <2>1, <2>2
<1>9. \A k \in 1 .. n, p \in Int : p \in PagesOf(res[k]) /\ ~InRun(p, a, size)
          => \E h \in 1 .. n : f[h] = k /\ p \in PagesOf(res2[h])
  <2> TAKE k \in 1 .. n, p \in Int
  <2> HAVE p \in PagesOf(res[k]) /\ ~InRun(p, a, size)
  <2>1. p \in PagesOf(res2[k])
    BY <1>1, <1>4, <1>7
  <2>2. QED
    BY <1>6, <2>1
<1>10. \A h, k \in 1 .. n, p \in Int :
          f[h] = f[k] /\ p \in PagesOf(res2[h]) /\ p \in PagesOf(res2[k]) => h = k
  BY <1>6
<1>11. CutFrom(res2, n, res, n, a, size)
  <2>1. /\ res2 \in Tables /\ n \in 0 .. MaxReserved + 2 /\ f \in [1 .. n -> 1 .. n]
        /\ a \in Int /\ size \in Nat
    BY <1>1, <1>4, <1>6
  <2>2. CleanAfter(res2, n)
    BY <1>2, <1>4 DEF RecordsOK, CleanAfter
  <2>3. PartsOf(f, res2, n, res, n, a, size)
    BY ONLY <1>8, <1>9, <1>10, <2>1, <2>2 DEF PartsOf
  <2>4. QED
    BY ONLY <1>2, <2>1, <2>3, CutRecords
<1>12. QED
  BY <1>0, <1>3, <1>4, <1>11

\* What is left of rec below and above the run.
Halves(below, above, rec, a, size) ==
    /\ below \in Entries /\ below.size # 0 /\ below.mapping = rec.mapping
    /\ above \in Entries /\ above.size # 0 /\ above.mapping = rec.mapping
    /\ \A p \in Int : /\ p \in PagesOf(below) \/ p \in PagesOf(above)
                            <=> p \in PagesOf(rec) /\ ~InRun(p, a, size)
                      /\ InRun(p, a, size) => p \in PagesOf(rec)
                      /\ ~(p \in PagesOf(below) /\ p \in PagesOf(above))

Shifted(res2, res, n, t, below, above) ==
    res2 = [k \in DOMAIN res |-> IF k = t THEN below ELSE IF k = t + 1 THEN above
                                 ELSE IF k \in (t + 2) .. (n + 1) THEN res[k - 1] ELSE res[k]]

\* A record that loses its middle: the records after it move up.
LEMMA SplitRecord ==
    ASSUME NEW i \in Infos, RecordsOK(i.reserved, i.reserved_num), NEW t \in 1 .. i.reserved_num,
           i.reserved_num <= MaxReserved + 1,
           NEW a \in Int, NEW size \in Nat,
           NEW below, NEW above, Halves(below, above, i.reserved[t], a, size),
           NEW res2, Shifted(res2, i.reserved, i.reserved_num, t, below, above),
           NEW j, Updated(j, i, res2, i.reserved_num + 1)
    PROVE  /\ j \in Infos /\ j.mblock = i.mblock /\ j.reserved_num = i.reserved_num + 1
           /\ CutFrom(j.reserved, j.reserved_num, i.reserved, i.reserved_num, a, size)
<1>0. PICK res, n, rec : res = i.reserved /\ n = i.reserved_num /\ rec = i.reserved[t]
  OBVIOUS
<1>1. /\ MaxReserved \in Nat /\ n \in Nat /\ n <= MaxReserved + 1 /\ t \in 1 .. n
      /\ res \in [1 .. MaxReserved + 3 -> Entries]
      /\ \A k \in 1 .. n : k \in 1 .. MaxReserved + 3 /\ res[k] \in Entries
      /\ rec = res[t]
  BY <1>0, LiveEntries, MapAssumption DEF RecordsOK, Tables
<1>20. /\ below \in Entries /\ below.size # 0 /\ below.mapping = rec.mapping
       /\ above \in Entries /\ above.size # 0 /\ above.mapping = rec.mapping
  BY <1>0 DEF Halves
<1>2. RecordsOK(res, n)
  BY <1>0
<1>3. n + 1 \in Nat /\ n + 1 \in 0 .. MaxReserved + 2
  BY <1>1
<1>4. /\ res2 \in Tables
      /\ t \in 1 .. n + 1 /\ t + 1 \in 1 .. n + 1
      /\ res2[t] = below /\ res2[t + 1] = above
      /\ \A k \in 1 .. n + 1 : k < t => res2[k] = res[k]
      /\ \A k \in 1 .. n + 1 : t + 1 < k => res2[k] = res[k - 1]
  <2>1. \A k \in 1 .. MaxReserved + 3 : k \in (t + 2) .. (n + 1) => k - 1 \in 1 .. MaxReserved + 3
    BY <1>1
  <2>2. DOMAIN res = 1 .. MaxReserved + 3
    BY <1>1
  <2>3. res2 = [k \in 1 .. MaxReserved + 3 |->
                    IF k = t THEN below ELSE IF k = t + 1 THEN above
                    ELSE IF k \in (t + 2) .. (n + 1) THEN res[k - 1] ELSE res[k]]
    BY <1>0, <2>2 DEF Shifted
  <2>4. res2 \in [1 .. MaxReserved + 3 -> Entries]
    BY <1>1, <1>20, <2>1, <2>3
  <2>5. /\ t \in 1 .. MaxReserved + 3 /\ t + 1 \in 1 .. MaxReserved + 3 /\ t + 1 # t
        /\ \A k \in 1 .. n + 1 : /\ k \in 1 .. MaxReserved + 3
                                 /\ k < t => k # t /\ k # t + 1 /\ k \notin (t + 2) .. (n + 1)
                                 /\ t + 1 < k => k # t /\ k # t + 1 /\ k \in (t + 2) .. (n + 1)
    BY <1>1
  <2>6. t \in 1 .. n + 1 /\ t + 1 \in 1 .. n + 1
    BY <1>1
  <2>7. QED
    BY <2>3, <2>4, <2>5, <2>6 DEF Tables
<1>5. j \in Infos /\ j.mblock = i.mblock /\ j.reserved = res2 /\ j.reserved_num = n + 1
  <2>1. i \in Infos /\ res2 \in Tables /\ n + 1 \in Nat
    BY <1>3, <1>4
  <2>2. Updated(j, i, res2, n + 1)
    BY <1>0
  <2>3. QED
    BY ONLY <2>1, <2>2, InfoUpdated
<1>6. PICK f : f = [k \in 1 .. n + 1 |-> IF k <= t THEN k ELSE k - 1]
  OBVIOUS
<1>7. /\ f \in [1 .. n + 1 -> 1 .. n]
      /\ f[t] = t /\ f[t + 1] = t
      /\ \A k \in 1 .. n + 1 : k < t => f[k] = k
      /\ \A k \in 1 .. n + 1 : t + 1 < k => f[k] = k - 1
  <2>1. \A k \in 1 .. n + 1 : IF k <= t THEN k \in 1 .. n ELSE k - 1 \in 1 .. n
    BY <1>1
  <2>2. f \in [1 .. n + 1 -> 1 .. n]
    BY <1>6, <2>1
  <2>3. t <= t /\ ~(t + 1 <= t) /\ (t + 1) - 1 = t
    BY <1>1
  <2>4. \A k \in 1 .. n + 1 : (k < t => k <= t) /\ (t + 1 < k => ~(k <= t))
    BY <1>1
  <2>5. QED
    BY <1>4, <1>6, <2>2, <2>3, <2>4
<1>8. \A k \in 1 .. n + 1 : k = t \/ k = t + 1 \/ (res2[k] = res[f[k]] /\ f[k] # t /\ f[k] \in 1 .. n)
  <2> TAKE k \in 1 .. n + 1
  <2>1. k < t \/ k = t \/ k = t + 1 \/ t + 1 < k
    BY <1>1
  <2>2. (k < t => k # t) /\ (t + 1 < k => k - 1 # t)
    BY <1>1
  <2>3. QED
    BY <1>4, <1>7, <2>1, <2>2
<1>9. \A p \in Int : /\ p \in PagesOf(below) \/ p \in PagesOf(above)
                           <=> p \in PagesOf(rec) /\ ~InRun(p, a, size)
                     /\ InRun(p, a, size) => p \in PagesOf(rec)
                     /\ ~(p \in PagesOf(below) /\ p \in PagesOf(above))
  BY <1>0 DEF Halves
<1>10. \A k \in 1 .. n + 1 : /\ res2[k].size # 0
                             /\ res2[k].mapping = res[f[k]].mapping
                             /\ \A p \in Int : p \in PagesOf(res2[k])
                                   => p \in PagesOf(res[f[k]]) /\ ~InRun(p, a, size)
  <2> TAKE k \in 1 .. n + 1
  <2>1. CASE k = t
    BY <1>1, <1>20, <1>4, <1>7, <1>9, <2>1
  <2>2. CASE k = t + 1
    BY <1>1, <1>20, <1>4, <1>7, <1>9, <2>2
  <2>3. CASE k # t /\ k # t + 1
    <3>1. res2[k] = res[f[k]] /\ f[k] # t /\ f[k] \in 1 .. n
      BY <1>8, <2>3
    <3>2. res[f[k]].size # 0 /\ \A p \in Int : p \in PagesOf(res[f[k]]) => p \notin PagesOf(res[t])
      BY <1>1, <1>2, <3>1 DEF RecordsOK
    <3>3. QED
      BY <1>1, <1>9, <3>1, <3>2
  <2>4. QED
    BY <2>1, <2>2, <2>3
<1>11. \A k \in 1 .. n, p \in Int : p \in PagesOf(res[k]) /\ ~InRun(p, a, size)
          => \E h \in 1 .. n + 1 : f[h] = k /\ p \in PagesOf(res2[h])
  <2> TAKE k \in 1 .. n, p \in Int
  <2> HAVE p \in PagesOf(res[k]) /\ ~InRun(p, a, size)
  <2>1. CASE k = t
    <3>1. p \in PagesOf(res2[t]) \/ p \in PagesOf(res2[t + 1])
      BY <1>1, <1>4, <1>9, <2>1
    <3>2. QED
      BY <1>4, <1>7, <2>1, <3>1
  <2>2. CASE k < t
    <3>1. k \in 1 .. n + 1
      BY <1>1
    <3>2. QED
      BY <1>4, <1>7, <2>2, <3>1
  <2>3. CASE t < k
    <3>1. k + 1 \in 1 .. n + 1 /\ t + 1 < k + 1 /\ (k + 1) - 1 = k
      BY <1>1, <2>3
    <3>2. f[k + 1] = k /\ res2[k + 1] = res[k]
      BY <1>4, <1>7, <3>1
    <3>3. QED
      BY <3>1, <3>2
  <2>4. k = t \/ k < t \/ t < k
    BY <1>1
  <2>5. QED
    BY <2>1, <2>2, <2>3, <2>4
<1>12. \A h, k \in 1 .. n + 1, p \in Int :
          f[h] = f[k] /\ p \in PagesOf(res2[h]) /\ p \in PagesOf(res2[k]) => h = k
  <2> TAKE h, k \in 1 .. n + 1, p \in Int
  <2> HAVE f[h] = f[k] /\ p \in PagesOf(res2[h]) /\ p \in PagesOf(res2[k])
  <2>1. CASE f[h] = t
    <3>1. (h = t \/ h = t + 1) /\ (k = t \/ k = t + 1)
      BY <1>8, <2>1
    <3>2. QED
      BY <1>4, <1>9, <3>1
  <2>2. CASE f[h] # t
    <3>1. h # t /\ h # t + 1 /\ k # t /\ k # t + 1
      BY <1>7, <2>2
    <3>2. (h < t \/ t + 1 < h) /\ (k < t \/ t + 1 < k)
      BY <1>1, <3>1
    <3>3. /\ h < t => f[h] = h
          /\ t + 1 < h => f[h] = h - 1
          /\ k < t => f[k] = k
          /\ t + 1 < k => f[k] = k - 1
      BY <1>7
    <3>4. h \in Int /\ k \in Int /\ t \in Int
      BY <1>1
    <3>5. f[h] = f[k]
      OBVIOUS
    <3>6. QED
      BY ONLY <3>2, <3>3, <3>4, <3>5
  <2>3. QED
    BY <2>1, <2>2
<1>13. CutFrom(res2, n + 1, res, n, a, size)
  <2>1. /\ res2 \in Tables /\ n + 1 \in 0 .. MaxReserved + 2 /\ f \in [1 .. n + 1 -> 1 .. n]
        /\ a \in Int /\ size \in Nat
    BY <1>3, <1>4, <1>7
  <2>2. CleanAfter(res2, n + 1)
    <3> SUFFICES ASSUME NEW k \in (n + 1) + 1 .. MaxReserved + 3 PROVE res2[k] = NoRecord
      BY DEF CleanAfter
    <3>1. /\ k \in 1 .. MaxReserved + 3 /\ k # t /\ k # t + 1 /\ k \notin (t + 2) .. (n + 1)
          /\ k \in n + 1 .. MaxReserved + 3 /\ DOMAIN res = 1 .. MaxReserved + 3
      BY <1>1
    <3>2. res2[k] = res[k]
      BY <1>0, <3>1 DEF Shifted
    <3>3. QED
      BY <1>2, <3>1, <3>2 DEF RecordsOK, CleanAfter
  <2>3. PartsOf(f, res2, n + 1, res, n, a, size)
    BY ONLY <1>10, <1>11, <1>12, <2>1, <2>2 DEF PartsOf
  <2>4. QED
    BY ONLY <1>2, <2>1, <2>3, CutRecords
<1>14. QED
  BY <1>0, <1>5, <1>13

\* mblock_free_with_size takes a run out of record t.
LEMMA CutOne ==
    ASSUME NEW i \in Infos, RecordsOK(i.reserved, i.reserved_num), NEW t \in 1 .. i.reserved_num,
           i.reserved_num <= MaxReserved + 1,
           NEW a \in Int, NEW size \in Nat \ {0},
           i.reserved[t].start <= a, a + size <= End(i.reserved[t]),
           NEW j, j = CutRecord(i, t, a, size)
    PROVE  /\ j \in Infos /\ j.mblock = i.mblock
           /\ j.reserved_num <= i.reserved_num + 1
           /\ CutFrom(j.reserved, j.reserved_num, i.reserved, i.reserved_num, a, size)
<1>0. PICK rec : rec = i.reserved[t]
  OBVIOUS
<1>1. /\ rec \in Entries /\ rec.start \in Nat /\ rec.size \in Nat
      /\ End(rec) = rec.start + rec.size /\ End(rec) \in Nat
      /\ \A p \in Int : p \in PagesOf(rec) <=> rec.start <= p /\ p < End(rec)
  <2>1. rec \in Entries
    BY <1>0, LiveEntries
  <2>2. QED
    BY <2>1, EntryFacts
<1>2. rec.start <= a /\ a + size <= End(rec) /\ a \in Nat /\ size \in Nat /\ size > 0 /\ a + size \in Nat
  BY <1>0, <1>1
<1>3. i.reserved_num \in Nat
  BY LiveEntries
<1>4. PICK above : above = [rec EXCEPT !.start = a + size, !.size = End(rec) - (a + size)]
  OBVIOUS
<1>5. PICK below : below = [rec EXCEPT !.size = a - rec.start]
  OBVIOUS
<1>6. /\ above \in Entries /\ above.size = End(rec) - (a + size) /\ above.mapping = rec.mapping
      /\ \A p \in Int : p \in PagesOf(above) <=> a + size <= p /\ p < End(rec)
  <2>1. End(rec) - (a + size) \in Nat /\ (a + size) + (End(rec) - (a + size)) = End(rec)
    BY <1>1, <1>2
  <2>2. Resized(above, rec, a + size, End(rec) - (a + size))
    BY <1>4 DEF Resized
  <2>3. QED
    BY <1>1, <1>2, <2>1, <2>2, EntryChanged
<1>7. /\ below \in Entries /\ below.size = a - rec.start /\ below.mapping = rec.mapping
      /\ \A p \in Int : p \in PagesOf(below) <=> rec.start <= p /\ p < a
  <2>1. a - rec.start \in Nat /\ rec.start + (a - rec.start) = a
    BY <1>1, <1>2
  <2>2. Resized(below, rec, rec.start, a - rec.start)
    BY <1>5 DEF Resized
  <2>3. QED
    BY <1>1, <1>2, <2>1, <2>2, EntryChanged
<1>8. CASE a = rec.start /\ size = rec.size
  <2>1. j = DropRecord(i, t, NoRecord)
    BY <1>0, <1>8 DEF CutRecord
  <2>2. /\ j \in Infos /\ j.mblock = i.mblock /\ j.reserved_num = i.reserved_num - 1
        /\ CutFrom(j.reserved, j.reserved_num, i.reserved, i.reserved_num,
                   i.reserved[t].start, i.reserved[t].size)
    BY <2>1, DropWhole
  <2>3. QED
    BY <1>0, <1>3, <1>8, <2>2
<1>9. CASE a = rec.start /\ size # rec.size
  <2>1. j = [i EXCEPT !.reserved[t] = above]
    BY <1>0, <1>4, <1>9 DEF CutRecord
  <2>2. Changed(j, i, t, above)
    BY <2>1 DEF Changed
  <2>3. above.size # 0
    <3>1. above.size = rec.start + rec.size - (a + size)
      BY ONLY <1>1, <1>6
    <3>2. QED
      BY ONLY <1>1, <1>2, <1>9, <3>1
  <2>4. \A p \in Int : /\ p \in PagesOf(above) <=> p \in PagesOf(rec) /\ ~InRun(p, a, size)
                       /\ InRun(p, a, size) => p \in PagesOf(rec)
    BY <1>1, <1>2, <1>6, <1>9 DEF InRun
  <2>5. above \in Entries /\ above.mapping = i.reserved[t].mapping
    BY <1>0, <1>6
  <2>6. \A p \in Int : /\ p \in PagesOf(above) <=> p \in PagesOf(i.reserved[t]) /\ ~InRun(p, a, size)
                       /\ InRun(p, a, size) => p \in PagesOf(i.reserved[t])
    BY <1>0, <2>4
  <2>7. /\ j \in Infos /\ j.mblock = i.mblock /\ j.reserved_num = i.reserved_num
        /\ CutFrom(j.reserved, j.reserved_num, i.reserved, i.reserved_num, a, size)
    BY <1>2, <2>2, <2>3, <2>5, <2>6, ShortenRecord
  <2>8. QED
    BY <1>3, <2>7
<1>10. CASE a # rec.start /\ a + size = End(rec)
  <2>1. j = [i EXCEPT !.reserved[t] = below]
    BY <1>0, <1>5, <1>10 DEF CutRecord
  <2>2. Changed(j, i, t, below)
    BY <2>1 DEF Changed
  <2>3. below.size # 0
    BY <1>1, <1>2, <1>7, <1>10
  <2>4. \A p \in Int : /\ p \in PagesOf(below) <=> p \in PagesOf(rec) /\ ~InRun(p, a, size)
                       /\ InRun(p, a, size) => p \in PagesOf(rec)
    BY <1>1, <1>2, <1>7, <1>10 DEF InRun
  <2>5. below \in Entries /\ below.mapping = i.reserved[t].mapping
    BY <1>0, <1>7
  <2>6. \A p \in Int : /\ p \in PagesOf(below) <=> p \in PagesOf(i.reserved[t]) /\ ~InRun(p, a, size)
                       /\ InRun(p, a, size) => p \in PagesOf(i.reserved[t])
    BY <1>0, <2>4
  <2>7. /\ j \in Infos /\ j.mblock = i.mblock /\ j.reserved_num = i.reserved_num
        /\ CutFrom(j.reserved, j.reserved_num, i.reserved, i.reserved_num, a, size)
    BY <1>2, <2>2, <2>3, <2>5, <2>6, ShortenRecord
  <2>8. QED
    BY <1>3, <2>7
<1>11. CASE a # rec.start /\ a + size # End(rec)
  <2>1. PICK res2 : res2 = [k \in DOMAIN i.reserved |->
                                IF k = t THEN below ELSE IF k = t + 1 THEN above
                                ELSE IF k \in (t + 2) .. (i.reserved_num + 1) THEN i.reserved[k - 1]
                                ELSE i.reserved[k]]
    OBVIOUS
  <2>2. j = [i EXCEPT !.reserved = res2, !.reserved_num = i.reserved_num + 1]
    BY <1>0, <1>4, <1>5, <1>11, <2>1 DEF CutRecord
  <2>3. Updated(j, i, res2, i.reserved_num + 1)
    BY <2>2 DEF Updated
  <2>4. below.size # 0 /\ above.size # 0
    BY <1>1, <1>2, <1>6, <1>7, <1>11
  <2>5. \A p \in Int : /\ p \in PagesOf(below) \/ p \in PagesOf(above)
                             <=> p \in PagesOf(rec) /\ ~InRun(p, a, size)
                       /\ InRun(p, a, size) => p \in PagesOf(rec)
                       /\ ~(p \in PagesOf(below) /\ p \in PagesOf(above))
    BY <1>1, <1>2, <1>6, <1>7, <1>11 DEF InRun
  <2>6. \A p \in Int : /\ p \in PagesOf(below) \/ p \in PagesOf(above)
                             <=> p \in PagesOf(i.reserved[t]) /\ ~InRun(p, a, size)
                       /\ InRun(p, a, size) => p \in PagesOf(i.reserved[t])
                       /\ ~(p \in PagesOf(below) /\ p \in PagesOf(above))
    BY <1>0, <2>5
  <2>7. /\ below \in Entries /\ below.mapping = i.reserved[t].mapping
        /\ above \in Entries /\ above.mapping = i.reserved[t].mapping
    BY <1>0, <1>6, <1>7
  <2>8. /\ j \in Infos /\ j.mblock = i.mblock /\ j.reserved_num = i.reserved_num + 1
        /\ CutFrom(j.reserved, j.reserved_num, i.reserved, i.reserved_num, a, size)
    <3>1. Shifted(res2, i.reserved, i.reserved_num, t, below, above)
      BY <2>1 DEF Shifted
    <3>2. Halves(below, above, i.reserved[t], a, size)
      BY <2>4, <2>6, <2>7 DEF Halves
    <3>3. /\ i \in Infos /\ RecordsOK(i.reserved, i.reserved_num) /\ t \in 1 .. i.reserved_num
          /\ i.reserved_num <= MaxReserved + 1 /\ a \in Int /\ size \in Nat
      OBVIOUS
    <3>4. QED
      BY ONLY <2>3, <3>1, <3>2, <3>3, SplitRecord
  <2>9. QED
    BY <1>3, <2>8
<1>12. QED
  BY <1>8, <1>9, <1>10, <1>11
-----------------------------------------------------------------------------
(* The invariant. *)

\* There is a block, and every block, an empty one too, starts in the memory or at its end.
Inside(s) == Len(s) # 0 /\ \A k \in 1 .. Len(s) : s[k].start \in Base .. Top

\* No block starts between two pages of one record.
NoStartInside(s, res, n) ==
    \A k \in 1 .. Len(s), j \in 1 .. n :
        ~(s[k].start - 1 \in PagesOf(res[j]) /\ s[k].start \in PagesOf(res[j]))

\* The tables are a partition of the memory, the blocks are apart and the records not
\* empty.  An empty block may stand between two records, never inside one.
Sound(i) ==
    /\ i \in Infos
    /\ Apart(i.mblock)
    /\ RecordsOK(i.reserved, i.reserved_num)
    /\ \A p \in Int : FreeAt(i.mblock, p) \/ Held(i.reserved, i.reserved_num, p) <=> p \in Dram
    /\ \A p \in Int : ~(FreeAt(i.mblock, p) /\ Held(i.reserved, i.reserved_num, p))
    /\ NoStartInside(i.mblock, i.reserved, i.reserved_num)
    /\ Inside(i.mblock)

HeldBy(i, p, m) == Holds(i.reserved, i.reserved_num, p, m)

\* A page is held when it has a mapping.
LEMMA HeldMapped ==
    ASSUME NEW res, NEW n, NEW p
    PROVE  Held(res, n, p) <=> \E m : Holds(res, n, p, m)
  BY DEF Held, Holds

\* The parts of the tables.
LEMMA InfoParts ==
    ASSUME NEW i \in Infos
    PROVE  i.mblock \in Seq(Blocks) /\ i.reserved \in Tables /\ i.reserved_num \in Nat
  BY DEF Infos

\* The tables with other blocks.
LEMMA BlocksChanged ==
    ASSUME NEW i \in Infos, NEW s \in Seq(Blocks), NEW j, j = [i EXCEPT !.mblock = s]
    PROVE  /\ j \in Infos /\ j.mblock = s /\ j.reserved = i.reserved
           /\ j.reserved_num = i.reserved_num
<1>1. i \in [mblock : Seq(Blocks), reserved : Tables, reserved_num : Nat]
  BY DEF Infos
<1>2. /\ j \in [mblock : Seq(Blocks), reserved : Tables, reserved_num : Nat]
      /\ j.mblock = s /\ j.reserved = i.reserved /\ j.reserved_num = i.reserved_num
  BY ONLY <1>1, s \in Seq(Blocks), j = [i EXCEPT !.mblock = s]
<1>3. QED
  BY <1>2 DEF Infos

\* Blocks that are apart are sorted.
LEMMA ApartSorted ==
    ASSUME NEW s \in Seq(Blocks), Apart(s)
    PROVE  Sorted(s)
<1>1. \A j \in 1 .. Len(s) : s[j] \in Blocks
  OBVIOUS
<1>2. \A j \in 1 .. Len(s) : s[j].start \in Int /\ End(s[j]) \in Int
  BY <1>1, BlockFacts
<1>3. QED
  BY <1>2 DEF Apart, Sorted

\* Joining the blocks keeps all of it.
LEMMA MergeSound ==
    ASSUME NEW i, Sound(i), NEW j, j = [i EXCEPT !.mblock = mblock_merge(i.mblock)]
    PROVE  Sound(j) /\ \A p, m : HeldBy(j, p, m) <=> HeldBy(i, p, m)
<1>1. i \in Infos /\ Apart(i.mblock) /\ i.mblock \in Seq(Blocks)
  BY InfoParts DEF Sound
<1>2. PICK s : s = mblock_merge(i.mblock)
  OBVIOUS
<1>3. /\ s \in Seq(Blocks)
      /\ Apart(s)
      /\ \A p \in Int : FreeAt(s, p) <=> FreeAt(i.mblock, p)
      /\ \A k \in 1 .. Len(s) : \E h \in 1 .. Len(i.mblock) : s[k].start = i.mblock[h].start
      /\ Len(i.mblock) # 0 => Len(s) # 0
  <2>1. Sorted(i.mblock) /\ i.mblock \in Seq(Blocks)
    BY <1>1, ApartSorted
  <2>2. QED
    BY ONLY <1>2, <2>1, MergeBlocks
<1>4. j = [i EXCEPT !.mblock = s]
  BY <1>2
<1>5. j \in Infos /\ j.mblock = s /\ j.reserved = i.reserved /\ j.reserved_num = i.reserved_num
  BY ONLY <1>1, <1>3, <1>4, BlocksChanged
<1>6. NoStartInside(s, i.reserved, i.reserved_num)
  BY <1>3 DEF Sound, NoStartInside
<1>7. Inside(s)
  BY <1>3 DEF Sound, Inside
<1>8. QED
  BY <1>3, <1>5, <1>6, <1>7 DEF Sound, HeldBy

\* A run that was held by one record is free now.
Freed(i, j, a, size) ==
    /\ Sound(j)
    /\ \A p \in Int : \A m : HeldBy(j, p, m) <=> HeldBy(i, p, m) /\ ~InRun(p, a, size)
    /\ \E m \in Mappings \cup {Free} : \A p \in Int : InRun(p, a, size) => HeldBy(i, p, m)

\* The run goes from the records to the blocks.
LEMMA RunFreed ==
    ASSUME NEW i, Sound(i), NEW a \in Int, NEW size \in Nat \ {0},
           NEW t \in 1 .. i.reserved_num,
           \A p \in Int : InRun(p, a, size) => p \in PagesOf(i.reserved[t]),
           NEW j \in Infos, Apart(j.mblock),
           CutFrom(j.reserved, j.reserved_num, i.reserved, i.reserved_num, a, size),
           \A p \in Int : FreeAt(j.mblock, p) <=> FreeAt(i.mblock, p) \/ InRun(p, a, size),
           StartsFrom(j.mblock, i.mblock, a)
    PROVE  Freed(i, j, a, size)
<1>1. RecordsOK(j.reserved, j.reserved_num) /\ RecordsOK(i.reserved, i.reserved_num)
  BY DEF CutFrom, Sound
<1>2. \A p \in Int : Held(j.reserved, j.reserved_num, p)
                        <=> Held(i.reserved, i.reserved_num, p) /\ ~InRun(p, a, size)
  BY HeldMapped DEF CutFrom
<1>3. \A p \in Int : InRun(p, a, size) => Held(i.reserved, i.reserved_num, p)
  BY DEF Held
<1>4. \A p \in Int : FreeAt(j.mblock, p) \/ Held(j.reserved, j.reserved_num, p) <=> p \in Dram
  BY <1>2, <1>3 DEF Sound
<1>5. \A p \in Int : ~(FreeAt(j.mblock, p) /\ Held(j.reserved, j.reserved_num, p))
  BY <1>2 DEF Sound
<1>6. NoStartInside(j.mblock, j.reserved, j.reserved_num)
  <2> SUFFICES ASSUME NEW k \in 1 .. Len(j.mblock), NEW h \in 1 .. j.reserved_num,
                      j.mblock[k].start - 1 \in PagesOf(j.reserved[h]),
                      j.mblock[k].start \in PagesOf(j.reserved[h])
               PROVE  FALSE
    BY DEF NoStartInside
  <2>1. PICK x : x = j.mblock[k].start
    OBVIOUS
  <2>2. x \in Int
    <3>1. j.mblock[k] \in Blocks
      BY InfoParts
    <3>2. QED
      BY <2>1, <3>1, BlockFacts
  <2>3. CASE x = a
    <3>1. InRun(a, a, size)
      BY DEF InRun
    <3>2. Held(j.reserved, j.reserved_num, a)
      BY <2>1, <2>3 DEF Held
    <3>3. QED
      BY <1>2, <3>1, <3>2
  <2>4. CASE x # a
    <3>1. PICK l \in 1 .. Len(i.mblock) : x = i.mblock[l].start
      BY <2>1, <2>4 DEF StartsFrom
    <3>2. \E q \in 1 .. i.reserved_num : x - 1 \in PagesOf(i.reserved[q]) /\ x \in PagesOf(i.reserved[q])
      BY <2>1, <2>2 DEF CutFrom
    <3>3. QED
      BY <3>1, <3>2 DEF Sound, NoStartInside
  <2>5. QED
    BY <2>3, <2>4
<1>12. Inside(j.mblock)
  <2>1. InRun(a, a, size)
    BY DEF InRun
  <2>2. FreeAt(j.mblock, a)
    BY <2>1
  <2>3. Len(j.mblock) # 0
    BY <2>2 DEF FreeAt
  <2>4. a \in Dram
    BY <1>4, <2>2
  <2>5. a \in Base .. Top
    BY <2>4, MapAssumption DEF Dram
  <2>6. QED
    BY <2>3, <2>5 DEF Sound, Inside, StartsFrom
<1>7. Sound(j)
  BY <1>1, <1>4, <1>5, <1>6, <1>12 DEF Sound
<1>8. i.reserved[t].mapping \in Mappings \cup {Free}
  BY <1>1, LiveEntries, EntryFacts
<1>9. \A p \in Int : InRun(p, a, size) => HeldBy(i, p, i.reserved[t].mapping)
  BY DEF HeldBy, Holds
<1>10. \A p \in Int : \A m : HeldBy(j, p, m) <=> HeldBy(i, p, m) /\ ~InRun(p, a, size)
  BY DEF CutFrom, HeldBy
<1>11. QED
  BY <1>7, <1>8, <1>9, <1>10 DEF Freed

\* mblock_free_with_size, when it succeeds.
LEMMA FreeRuns ==
    ASSUME NEW i, Sound(i), i.reserved_num <= MaxReserved + 1,
           NEW a \in Int, NEW size \in Nat \ {0},
           NEW x, x = mblock_free_with_size(i, a, size), x.ok
    PROVE  /\ Freed(i, x.info, a, size)
           /\ x.info.reserved_num <= i.reserved_num + 1
<1>1. /\ i \in Infos /\ i.mblock \in Seq(Blocks) /\ Apart(i.mblock) /\ Len(i.mblock) \in Nat
      /\ i.reserved_num \in Nat
      /\ RecordsOK(i.reserved, i.reserved_num)
      /\ \A k \in 1 .. i.reserved_num : i.reserved[k] \in Entries
  BY InfoParts, LiveEntries DEF Sound
<1> DEFINE holds == {k \in 1 .. i.reserved_num :
                        i.reserved[k].start <= a /\ a + size <= End(i.reserved[k])}
<1>2. PICK t : t = Min(holds)
  OBVIOUS
<1>3. PICK cut : cut = CutRecord(i, t, a, size)
  OBVIOUS
<1>4. PICK b : b = [start |-> a, size |-> size]
  OBVIOUS
<1>5. ~Overlaps(i, a, size) /\ holds # {} /\ x = OK([cut EXCEPT !.mblock = mblock_merge(PutBack(cut.mblock, b))])
  <2> DEFINE full == Divides(i.reserved[t], a, size) /\ i.reserved_num >= MaxReserved
  <2>1. CASE Overlaps(i, a, size) \/ holds = {} \/ full
    <3>1. x = Fail(i)
      BY <1>2, <2>1 DEF mblock_free_with_size
    <3>2. QED
      BY <3>1 DEF Fail
  <2>2. CASE ~(Overlaps(i, a, size) \/ holds = {} \/ full)
    BY <1>2, <1>3, <1>4, <2>2 DEF mblock_free_with_size
  <2>3. QED
    BY <2>1, <2>2
<1>6. t \in 1 .. i.reserved_num /\ i.reserved[t].start <= a /\ a + size <= End(i.reserved[t])
  <2>1. holds \in SUBSET Nat
    BY <1>1
  <2>2. t \in holds
    BY <1>2, <1>5, <2>1, LeastElement
  <2>3. QED
    BY <2>2
<1> HIDE DEF holds
<1>7. i.reserved[t] \in Entries /\ i.reserved[t].start \in Nat /\ End(i.reserved[t]) \in Nat
  BY <1>1, <1>6, EntryFacts
<1>8. a \in Nat
  BY <1>6, <1>7
<1>9. \A p \in Int : InRun(p, a, size) => p \in PagesOf(i.reserved[t])
  <2>1. \A p \in Int : p \in PagesOf(i.reserved[t]) <=> i.reserved[t].start <= p /\ p < End(i.reserved[t])
    BY <1>7, EntryFacts
  <2>2. QED
    BY <1>6, <1>7, <2>1 DEF InRun
<1>10. /\ cut \in Infos /\ cut.mblock = i.mblock
       /\ cut.reserved_num <= i.reserved_num + 1
       /\ CutFrom(cut.reserved, cut.reserved_num, i.reserved, i.reserved_num, a, size)
  <2>1. /\ i \in Infos /\ RecordsOK(i.reserved, i.reserved_num) /\ t \in 1 .. i.reserved_num
        /\ i.reserved_num <= MaxReserved + 1 /\ a \in Int /\ size \in Nat \ {0}
        /\ i.reserved[t].start <= a /\ a + size <= End(i.reserved[t])
    BY <1>1, <1>6
  <2>2. QED
    BY ONLY <1>3, <2>1, CutOne
<1>11. /\ b \in Blocks /\ b.start = a /\ b.size = size /\ End(b) = a + size
       /\ \A p \in Int : p \in PagesOf(b) <=> InRun(p, a, size)
  <2>1. size \in Nat
    OBVIOUS
  <2>2. b \in [start : Nat, size : Nat] /\ b.start = a /\ b.size = size
    BY ONLY <1>4, <1>8, <2>1
  <2>3. b \in Blocks
    BY <2>2 DEF Blocks
  <2>4. QED
    BY <2>2, <2>3, BlockFacts DEF InRun
<1>12. Clear(i.mblock, b)
  <2> SUFFICES ASSUME NEW k \in 1 .. Len(i.mblock)
               PROVE  End(i.mblock[k]) <= a \/ a + size <= i.mblock[k].start
    BY <1>11 DEF Clear
  <2>1. i.mblock[k] \in Blocks /\ i.mblock[k] \in Range(i.mblock)
    BY <1>1 DEF Range
  <2>2. a \notin PagesOf(i.mblock[k]) /\ ~(a < i.mblock[k].start /\ i.mblock[k].start < a + size)
    BY <1>5, <2>1 DEF Overlaps
  <2>3. /\ i.mblock[k].start \in Int /\ End(i.mblock[k]) \in Int
        /\ a \in PagesOf(i.mblock[k]) <=> i.mblock[k].start <= a /\ a < End(i.mblock[k])
    BY <2>1, BlockFacts
  <2>4. QED
    BY <2>2, <2>3
<1>13. PICK r : r = PutBack(i.mblock, b)
  OBVIOUS
<1>14. Sorted(r) /\ Plus(r, i.mblock, b)
  <2>1. b \in Blocks /\ b.size # 0
    BY <1>11
  <2>2. i.mblock \in Seq(Blocks) /\ Apart(i.mblock)
    BY <1>1
  <2>3. QED
    BY ONLY <1>12, <1>13, <2>1, <2>2, PutBackBlock
<1>15. PICK s : s = mblock_merge(r)
  OBVIOUS
<1>16. /\ s \in Seq(Blocks)
       /\ Apart(s)
       /\ \A p \in Int : FreeAt(s, p) <=> FreeAt(r, p)
       /\ \A k \in 1 .. Len(s) : \E h \in 1 .. Len(r) : s[k].start = r[h].start
  BY <1>14, <1>15, MergeBlocks, SMTT(30) DEF Plus
<1>17. x.info = [cut EXCEPT !.mblock = s]
  BY <1>5, <1>10, <1>13, <1>15 DEF OK
<1>18. PICK j : j = x.info
  OBVIOUS
<1>19. j \in Infos /\ j.mblock = s /\ j.reserved = cut.reserved /\ j.reserved_num = cut.reserved_num
  <2>1. cut \in Infos /\ s \in Seq(Blocks) /\ j = [cut EXCEPT !.mblock = s]
    BY <1>10, <1>16, <1>17, <1>18
  <2>2. QED
    BY ONLY <2>1, BlocksChanged
<1>20. \A p \in Int : FreeAt(j.mblock, p) <=> FreeAt(i.mblock, p) \/ InRun(p, a, size)
  BY <1>11, <1>14, <1>16, <1>19 DEF Plus
<1>21. StartsFrom(j.mblock, i.mblock, a)
  BY <1>11, <1>14, <1>16, <1>19, SMTT(30) DEF Plus, StartsFrom
<1>22. CutFrom(j.reserved, j.reserved_num, i.reserved, i.reserved_num, a, size) /\ Apart(j.mblock)
  BY <1>10, <1>16, <1>19
<1>23. Freed(i, j, a, size)
  <2>1. Sound(i) /\ a \in Int /\ size \in Nat \ {0} /\ t \in 1 .. i.reserved_num /\ j \in Infos
    BY <1>6, <1>19
  <2>2. QED
    BY ONLY <1>9, <1>20, <1>21, <1>22, <2>1, RunFreed
<1>24. QED
  BY <1>10, <1>18, <1>19, <1>23

\* A run of free pages has a record now.
Allocated(i, j, a, size, mapping) ==
    /\ Sound(j)
    /\ \A p \in Int : InRun(p, a, size) => FreeAt(i.mblock, p)
    /\ \A p \in Int : \A m : HeldBy(j, p, m)
          <=> HeldBy(i, p, m) \/ (InRun(p, a, size) /\ m = mapping)

\* The run goes from block t to a record of its own, in the first empty slot.
LEMMA RunAllocated ==
    ASSUME NEW i, Sound(i), i.reserved_num <= MaxReserved + 1,
           NEW a \in Int, NEW size \in Nat \ {0}, NEW t \in 1 .. Len(i.mblock),
           i.mblock[t].start <= a, a + size <= End(i.mblock[t]),
           NEW rec \in Entries, rec.start = a, rec.size = size,
           NEW j \in Infos, j.reserved_num = i.reserved_num + 1,
           j.reserved[i.reserved_num + 1] = rec,
           \A k \in 1 .. MaxReserved + 3 : k # i.reserved_num + 1 => j.reserved[k] = i.reserved[k],
           Apart(j.mblock), Without(j.mblock, i.mblock, a, size)
    PROVE  Allocated(i, j, a, size, rec.mapping)
<1>0. PICK s, n : s = i.mblock /\ n = i.reserved_num
  OBVIOUS
<1>1. /\ s \in Seq(Blocks) /\ Apart(s) /\ Len(s) \in Nat /\ n \in Nat
      /\ RecordsOK(i.reserved, n)
      /\ \A k \in 1 .. n : i.reserved[k] \in Entries
      /\ \A k \in 1 .. Len(s) : s[k] \in Blocks
  BY <1>0, InfoParts, LiveEntries DEF Sound
<1>2. /\ \A k \in 1 .. n + 1 : k = n + 1 \/ k \in 1 .. n
      /\ \A k \in 1 .. n : k \in 1 .. n + 1 /\ k # n + 1
      /\ n + 1 \in 1 .. n + 1
  BY <1>1
<1>3. /\ j.reserved_num = n + 1 /\ j.reserved[n + 1] = rec
      /\ \A k \in 1 .. n : j.reserved[k] = i.reserved[k]
  <2>1. \A k \in 1 .. n : k \in 1 .. MaxReserved + 3 /\ k # n + 1
    BY <1>0, <1>1, MapAssumption
  <2>2. QED
    BY <1>0, <2>1
<1>4. \A p \in Int : p \in PagesOf(rec) <=> InRun(p, a, size)
  BY EntryFacts DEF InRun
<1>5. t \in 1 .. Len(s) /\ s[t].start <= a /\ a + size <= End(s[t]) /\ s[t].start \in Int /\ End(s[t]) \in Int
      /\ \A p \in Int : p \in PagesOf(s[t]) <=> s[t].start <= p /\ p < End(s[t])
  BY <1>0, <1>1, BlockFacts
<1>6. \A p \in Int : InRun(p, a, size) => p \in PagesOf(s[t]) /\ FreeAt(s, p)
  <2> TAKE p \in Int
  <2> HAVE InRun(p, a, size)
  <2>1. p \in PagesOf(s[t])
    BY <1>5 DEF InRun
  <2>2. QED
    BY <1>5, <2>1 DEF FreeAt
<1>7. \A p \in Int : InRun(p, a, size) => ~Held(i.reserved, n, p)
  BY <1>0, <1>6 DEF Sound
<1>8. \A k \in 1 .. n, p \in Int : p \in PagesOf(i.reserved[k]) => ~InRun(p, a, size)
  BY <1>7 DEF Held
<1>9. RecordsOK(j.reserved, n + 1)
  <2>1. j.reserved \in Tables /\ n + 1 \in 0 .. MaxReserved + 2
    <3>1. MaxReserved \in Nat /\ n <= MaxReserved + 1
      BY <1>0, MapAssumption
    <3>2. QED
      BY <1>1, <3>1, InfoParts
  <2>2. \A k \in 1 .. n + 1 : j.reserved[k].size # 0
    BY <1>1, <1>2, <1>3 DEF RecordsOK
  <2>3. \A h, k \in 1 .. n + 1, p \in Int :
            p \in PagesOf(j.reserved[h]) /\ p \in PagesOf(j.reserved[k]) => h = k
    <3> TAKE h, k \in 1 .. n + 1, p \in Int
    <3> HAVE p \in PagesOf(j.reserved[h]) /\ p \in PagesOf(j.reserved[k])
    <3>1. CASE h = n + 1 /\ k = n + 1
      BY <3>1
    <3>2. CASE h = n + 1 /\ k \in 1 .. n
      BY <1>3, <1>4, <1>8, <3>2
    <3>3. CASE h \in 1 .. n /\ k = n + 1
      BY <1>3, <1>4, <1>8, <3>3
    <3>4. CASE h \in 1 .. n /\ k \in 1 .. n
      BY <1>1, <1>3, <3>4 DEF RecordsOK
    <3>5. QED
      BY <1>2, <3>1, <3>2, <3>3, <3>4
  <2>4. CleanAfter(j.reserved, n + 1)
    <3> SUFFICES ASSUME NEW k \in (n + 1) + 1 .. MaxReserved + 3 PROVE j.reserved[k] = NoRecord
      BY DEF CleanAfter
    <3>1. k \in 1 .. MaxReserved + 3 /\ k # n + 1 /\ k \in n + 1 .. MaxReserved + 3
      BY <1>1, MapAssumption
    <3>2. j.reserved[k] = i.reserved[k]
      BY <1>0, <3>1
    <3>3. QED
      BY <1>1, <3>1, <3>2 DEF RecordsOK, CleanAfter
  <2>5. QED
    BY <2>1, <2>2, <2>3, <2>4 DEF RecordsOK
<1>10. \A p \in Int : \A m : Holds(j.reserved, n + 1, p, m)
          <=> Holds(i.reserved, n, p, m) \/ (InRun(p, a, size) /\ m = rec.mapping)
  BY <1>2, <1>3, <1>4 DEF Holds
<1>11. \A p \in Int : Held(j.reserved, n + 1, p) <=> Held(i.reserved, n, p) \/ InRun(p, a, size)
  BY <1>2, <1>3, <1>4 DEF Held
<1>12. \A p \in Int : FreeAt(j.mblock, p) <=> FreeAt(s, p) /\ ~InRun(p, a, size)
  BY <1>0 DEF Without, InRun
<1>13. \A p \in Int : FreeAt(j.mblock, p) \/ Held(j.reserved, n + 1, p) <=> p \in Dram
  BY <1>0, <1>6, <1>11, <1>12 DEF Sound
<1>14. \A p \in Int : ~(FreeAt(j.mblock, p) /\ Held(j.reserved, n + 1, p))
  BY <1>0, <1>11, <1>12 DEF Sound
<1>15. NoStartInside(j.mblock, j.reserved, n + 1)
  <2> SUFFICES ASSUME NEW k \in 1 .. Len(j.mblock), NEW h \in 1 .. n + 1,
                      j.mblock[k].start - 1 \in PagesOf(j.reserved[h]),
                      j.mblock[k].start \in PagesOf(j.reserved[h])
               PROVE  FALSE
    BY DEF NoStartInside
  <2>1. PICK x : x = j.mblock[k].start
    OBVIOUS
  <2>2. x \in Int /\ x - 1 \in Int /\ x - 1 \in PagesOf(j.reserved[h]) /\ x \in PagesOf(j.reserved[h])
    <3>1. j.mblock[k] \in Blocks
      BY InfoParts
    <3>2. x \in Int
      BY <2>1, <3>1, BlockFacts
    <3>3. QED
      BY <2>1, <3>2
  <2>3. x = a + size \/ \E l \in 1 .. Len(s) : x = s[l].start
    BY <1>0, <2>1 DEF Without, StartsFrom
  <2>4. CASE h = n + 1
    <3>1. a <= x - 1 /\ x < a + size
      BY <1>3, <1>4, <2>2, <2>4 DEF InRun
    <3>2. x # a + size
      BY <2>2, <3>1
    <3>3. PICK l \in 1 .. Len(s) : x = s[l].start
      BY <2>3, <3>2
    <3>4. s[l].start \in Int /\ End(s[l]) \in Int /\ s[l].start <= End(s[l])
      BY <1>1, BlockFacts
    <3>5. CASE l = t
      BY <1>5, <2>2, <3>1, <3>3, <3>5
    <3>6. CASE l < t
      <4>1. End(s[l]) < s[t].start
        BY <1>1, <1>5, <3>6 DEF Apart
      <4>2. QED
        BY <1>5, <2>2, <3>1, <3>3, <3>4, <4>1, SMTT(30)
    <3>7. CASE t < l
      <4>1. End(s[t]) < s[l].start
        BY <1>1, <1>5, <3>7 DEF Apart
      <4>2. QED
        BY <1>5, <2>2, <3>1, <3>3, <3>4, <4>1
    <3>8. QED
      BY <1>1, <1>5, <3>5, <3>6, <3>7
  <2>5. CASE h \in 1 .. n
    <3>1. x - 1 \in PagesOf(i.reserved[h]) /\ x \in PagesOf(i.reserved[h])
      BY <1>3, <2>2, <2>5
    <3>2. CASE x = a + size
      <4>1. InRun(x - 1, a, size)
        BY <3>2 DEF InRun
      <4>2. QED
        BY <1>8, <2>2, <2>5, <3>1, <4>1
    <3>3. CASE \E l \in 1 .. Len(s) : x = s[l].start
      BY <1>0, <2>5, <3>1, <3>3 DEF Sound, NoStartInside
    <3>4. QED
      BY <2>3, <3>2, <3>3
  <2>6. QED
    BY <1>2, <2>4, <2>5
<1>18. Inside(j.mblock)
  <2>1. PICK e : e = a + size
    OBVIOUS
  <2>2. InRun(e - 1, a, size) /\ e - 1 \in Int
    BY <2>1 DEF InRun
  <2>3. e - 1 \in Dram
    BY <1>0, <1>6, <2>2 DEF Sound
  <2>4. e \in Base .. Top
    BY <2>1, <2>3, MapAssumption DEF Dram
  <2>5. QED
    BY <2>1, <2>4 DEF Sound, Inside, Without, StartsFrom
<1>16. Sound(j)
  BY <1>3, <1>9, <1>13, <1>14, <1>15, <1>18 DEF Sound
<1>17. QED
  BY <1>0, <1>3, <1>6, <1>10, <1>16 DEF Allocated, HeldBy

\* What a caller may ask for.
Request(r) == /\ r.size \in Nat \ {0} /\ r.align \in Nat \ {0}
              /\ r.limit \in Nat /\ r.expected \in Nat

\* Where a request goes is a page.
LEMMA PlaceIsPage ==
    ASSUME NEW b \in Blocks, NEW r, Request(r)
    PROVE  Place(b, r) \in Int
<1>1. r.limit \in Nat /\ End(b) \in Nat /\ r.size \in Int /\ r.align \in Nat \ {0} /\ r.expected \in Int
  BY BlockFacts DEF Request
<1>2. PICK c : c = Ceiling(b, r)
  OBVIOUS
<1>3. c \in Int
  <2> DEFINE S == {r.limit, End(b)}
  <2>1. S \in SUBSET Nat /\ S # {}
    BY <1>1
  <2>2. c = Min(S)
    BY <1>2 DEF Ceiling
  <2> HIDE DEF S
  <2>3. c \in S
    BY <2>1, <2>2, LeastElement
  <2>4. QED
    BY <2>1, <2>3
<1>4. PICK q : q = (c - r.size) \div r.align
  OBVIOUS
<1>5. q \in Int
  BY <1>1, <1>3, <1>4
<1>6. q * r.align \in Int
  BY <1>1, <1>5
<1>7. QED
  BY <1>1, <1>2, <1>4, <1>6 DEF Place

\* mblock_alloc_range_no_lock, when it succeeds.
LEMMA AllocRuns ==
    ASSUME NEW i, Sound(i), i.reserved_num <= MaxReserved + 1, NEW r, Request(r),
           NEW mapping \in Mappings \cup {Free},
           NEW x, x = mblock_alloc_range_no_lock(i, r, mapping), x.ret # 0
    PROVE  /\ x.ret \in Int
           /\ Allocated(i, x.info, x.ret, r.size, mapping)
           /\ r.expected # 0 => x.ret = r.expected
<1>1. PICK u : u = [i EXCEPT !.mblock = mblock_merge(i.mblock)]
  OBVIOUS
<1>2. Sound(u) /\ \A p, m : HeldBy(u, p, m) <=> HeldBy(i, p, m)
  BY <1>1, MergeSound
<1>3. PICK s : s = mblock_merge(i.mblock)
  OBVIOUS
<1>4. /\ i \in Infos /\ i.mblock \in Seq(Blocks) /\ Sorted(i.mblock)
      /\ i.reserved \in Tables /\ i.reserved_num \in Nat
  <2>1. i \in Infos /\ Apart(i.mblock)
    BY DEF Sound
  <2>2. QED
    BY <2>1, InfoParts, ApartSorted
<1>5. s \in Seq(Blocks) /\ Apart(s) /\ \A p \in Int : FreeAt(s, p) <=> FreeAt(i.mblock, p)
  BY ONLY <1>3, <1>4, MergeBlocks
<1>6. /\ u \in Infos /\ u.mblock = s /\ u.reserved = i.reserved
      /\ u.reserved_num = i.reserved_num
  <2>1. u = [i EXCEPT !.mblock = s]
    BY <1>1, <1>3
  <2>2. QED
    BY ONLY <1>4, <1>5, <2>1, BlocksChanged
<1> DEFINE suit == {k \in DOMAIN s : Suits(s[k], r)}
<1>7. PICK t, a, n : t = Max(suit) /\ a = Place(s[t], r) /\ n = i.reserved_num + 1
  OBVIOUS
<1>8. PICK rec : rec = [start |-> a, size |-> r.size, mapping |-> mapping]
  OBVIOUS
<1>9. /\ suit # {}
      /\ x.info = [mblock |-> Split(s, t, a, r.size),
                   reserved |-> [i.reserved EXCEPT ![n] = rec], reserved_num |-> n]
      /\ x.ret = a
  <2>1. CASE suit = {} \/ i.reserved[n].start # 0
    <3>1. x = [info |-> [i EXCEPT !.mblock = s], ret |-> 0]
      BY <1>3, <1>7, <2>1 DEF mblock_alloc_range_no_lock
    <3>2. x.ret = 0
      BY <3>1
    <3>3. QED
      BY <3>2
  <2>2. CASE ~(suit = {} \/ i.reserved[n].start # 0)
    <3>1. x = [info |-> [mblock |-> Split(s, t, a, r.size),
                         reserved |-> [i.reserved EXCEPT ![n] = rec], reserved_num |-> n],
               ret |-> a]
      BY <1>3, <1>7, <1>8, <2>2 DEF mblock_alloc_range_no_lock
    <3>2. QED
      BY <2>2, <3>1
  <2>3. QED
    BY <2>1, <2>2
<1>10. t \in 1 .. Len(s) /\ Suits(s[t], r)
  <2>1. Len(s) \in Nat /\ DOMAIN s = 1 .. Len(s)
    BY <1>5
  <2>2. suit \in SUBSET (0 .. Len(s))
    BY <2>1
  <2>3. t \in suit
    BY <1>7, <1>9, <2>1, <2>2, GreatestElement
  <2>4. QED
    BY <2>1, <2>3
<1> HIDE DEF suit
<1>11. s[t] \in Blocks /\ s[t].start \in Nat
  BY <1>5, <1>10, BlockFacts
<1>12. a \in Int
  BY <1>7, <1>11, PlaceIsPage
<1>13. s[t].start <= a /\ a + r.size <= End(s[t])
  BY <1>7, <1>10 DEF Suits
<1>14. r.size \in Nat \ {0} /\ a \in Nat
  BY <1>11, <1>12, <1>13 DEF Request
<1>15. rec \in Entries /\ rec.start = a /\ rec.size = r.size /\ rec.mapping = mapping
  <2>1. PICK sz : sz = r.size
    OBVIOUS
  <2>2. sz \in Nat /\ a \in Nat /\ mapping \in Mappings \cup {Free} /\ rec = [start |-> a, size |-> sz, mapping |-> mapping]
    BY <1>8, <1>14, <2>1
  <2>3. /\ rec \in [start : Nat, size : Nat, mapping : Mappings \cup {Free}]
        /\ rec.start = a /\ rec.size = sz /\ rec.mapping = mapping
    BY ONLY <2>2
  <2>4. QED
    BY <2>1, <2>3 DEF Entries
<1>16. PICK v : v = Split(s, t, a, r.size)
  OBVIOUS
<1>17. Apart(v) /\ Without(v, s, a, r.size)
  BY ONLY <1>5, <1>10, <1>12, <1>13, <1>14, <1>16, SplitBlock
<1>18. PICK res : res = [i.reserved EXCEPT ![n] = rec]
  OBVIOUS
<1>19. /\ res \in Tables /\ res[n] = rec /\ n \in Nat
       /\ \A k \in 1 .. MaxReserved + 3 : k # n => res[k] = i.reserved[k]
  <2>1. MaxReserved \in Nat /\ n \in 1 .. MaxReserved + 3 /\ n \in Nat
    BY <1>4, <1>7, MapAssumption
  <2>2. i.reserved \in [1 .. MaxReserved + 3 -> Entries]
    BY <1>4 DEF Tables
  <2>3. QED
    BY <1>15, <1>18, <2>1, <2>2 DEF Tables
<1>20. PICK j : j = x.info
  OBVIOUS
<1>21. j \in Infos /\ j.mblock = v /\ j.reserved = res /\ j.reserved_num = n
  <2>1. j = [mblock |-> v, reserved |-> res, reserved_num |-> n]
    BY <1>9, <1>16, <1>18, <1>20
  <2>2. v \in Seq(Blocks) /\ res \in Tables /\ n \in Nat
    BY <1>17, <1>19 DEF Without
  <2>3. QED
    BY ONLY <2>1, <2>2 DEF Infos
<1>22. Allocated(u, j, a, r.size, rec.mapping)
  <2>1. /\ u.reserved_num <= MaxReserved + 1 /\ t \in 1 .. Len(u.mblock)
        /\ u.mblock[t].start <= a /\ a + r.size <= End(u.mblock[t])
    BY <1>6, <1>10, <1>13
  <2>2. /\ j \in Infos /\ j.reserved_num = u.reserved_num + 1
        /\ j.reserved[u.reserved_num + 1] = rec
        /\ \A k \in 1 .. MaxReserved + 3 : k # u.reserved_num + 1 => j.reserved[k] = u.reserved[k]
        /\ Apart(j.mblock) /\ Without(j.mblock, u.mblock, a, r.size)
    BY <1>6, <1>7, <1>17, <1>19, <1>21
  <2>3. QED
    BY ONLY <1>2, <1>12, <1>14, <1>15, <2>1, <2>2, RunAllocated
<1>23. Allocated(i, j, a, r.size, mapping)
  BY <1>2, <1>5, <1>6, <1>15, <1>22 DEF Allocated
<1>24. r.expected # 0 => a = r.expected
  BY <1>7 DEF Place
<1>25. QED
  BY <1>9, <1>12, <1>20, <1>23, <1>24

\* mblock_resize to a size that is not 0, when it succeeds.
LEMMA ResizeRuns ==
    ASSUME NEW i, Sound(i), NEW a \in Int, NEW oldsize \in Nat, NEW newsize \in Nat \ {0},
           NEW x, x = mblock_resize(i, a, oldsize, newsize), x.ok
    PROVE  /\ oldsize <= newsize => x.info = i
           /\ newsize < oldsize => Freed(i, x.info, a + newsize, oldsize - newsize)
<1>1. CASE oldsize <= newsize
  BY <1>1 DEF mblock_resize, OK
<1>2. CASE ~(oldsize <= newsize)
  <2> DEFINE mine == {k \in 1 .. i.reserved_num :
                        i.reserved[k].start = a /\ i.reserved[k].size = oldsize}
             overlap == \E b \in Range(i.mblock) : PagesOf(b) \cap a .. (a + oldsize - 1) # {}
  <2>1. /\ i \in Infos /\ i.mblock \in Seq(Blocks) /\ Apart(i.mblock) /\ Len(i.mblock) \in Nat
        /\ i.reserved_num \in Nat
        /\ RecordsOK(i.reserved, i.reserved_num)
        /\ \A k \in 1 .. i.reserved_num : i.reserved[k] \in Entries
    BY InfoParts, LiveEntries DEF Sound
  <2>2. PICK t : t = Min(mine)
    OBVIOUS
  <2>3. PICK kept : kept = [i EXCEPT !.reserved[t].size = newsize]
    OBVIOUS
  <2>4. PICK b : b = [start |-> a + newsize, size |-> oldsize - newsize]
    OBVIOUS
  <2> DEFINE next == {k \in DOMAIN i.mblock : \/ End(i.mblock[k]) = b.start
                                             \/ End(b) = i.mblock[k].start}
  <2>5. PICK s : s = IF next = {} THEN Insert(i.mblock, b) ELSE Grow(i.mblock, Min(next), b)
    OBVIOUS
  <2>6. mine # {} /\ ~overlap
    <3>1. CASE mine = {} \/ overlap
      <4>1. x = Fail(i)
        BY <1>2, <3>1 DEF mblock_resize
      <4>2. QED
        BY <4>1 DEF Fail
    <3>2. QED
      BY <3>1
  <2>7. t \in 1 .. i.reserved_num /\ i.reserved[t].start = a /\ i.reserved[t].size = oldsize
    <3>1. mine \in SUBSET Nat
      BY <2>1
    <3>2. t \in mine
      BY <2>2, <2>6, <3>1, LeastElement
    <3>3. QED
      BY <3>2
  <2>8. PICK rec : rec = i.reserved[t]
    OBVIOUS
  <2>9. /\ rec \in Entries /\ rec.start = a /\ rec.size = oldsize /\ a \in Nat
        /\ \A p \in Int : p \in PagesOf(rec) <=> a <= p /\ p < a + oldsize
    BY <2>1, <2>7, <2>8, EntryFacts
  <2>10. /\ newsize > 0 /\ newsize < oldsize /\ oldsize - newsize \in Nat \ {0} /\ oldsize - newsize \in Nat
         /\ a + newsize \in Nat /\ (a + newsize) + (oldsize - newsize) = a + oldsize
    BY <1>2, <2>9
  <2>11. kept.mblock = i.mblock /\ x.info = [kept EXCEPT !.mblock = s]
    <3>1. i \in [mblock : Seq(Blocks), reserved : Tables, reserved_num : Nat]
      BY <2>1 DEF Infos
    <3>2. kept.mblock = i.mblock
      BY <2>3, <3>1
    <3>3. x = OK([kept EXCEPT !.mblock = IF next = {} THEN Insert(kept.mblock, b)
                                         ELSE Grow(kept.mblock, Min(next), b)])
      BY <1>2, <2>2, <2>3, <2>4, <2>6, <2>10 DEF mblock_resize
    <3> HIDE DEF next
    <3>4. x.info = [kept EXCEPT !.mblock = IF next = {} THEN Insert(kept.mblock, b)
                                           ELSE Grow(kept.mblock, Min(next), b)]
      BY <3>3 DEF OK
    <3>5. QED
      BY <2>5, <3>2, <3>4
  <2> HIDE DEF mine
  <2>12. PICK c : c = [rec EXCEPT !.size = newsize]
    OBVIOUS
  <2>13. /\ c \in Entries /\ c.size = newsize /\ c.mapping = rec.mapping
         /\ \A p \in Int : p \in PagesOf(c) <=> a <= p /\ p < a + newsize
    <3>1. Resized(c, rec, a, newsize) /\ newsize \in Nat
      BY <2>9, <2>12 DEF Resized
    <3>2. QED
      BY <2>9, <3>1, EntryChanged
  <2>14. Changed(kept, i, t, c)
    BY <2>3, <2>8, <2>12 DEF Changed
  <2>15. \A p \in Int : InRun(p, a + newsize, oldsize - newsize) <=> a + newsize <= p /\ p < a + oldsize
    BY <2>10 DEF InRun
  <2>16. \A p \in Int :
            /\ p \in PagesOf(c) <=> p \in PagesOf(i.reserved[t]) /\ ~InRun(p, a + newsize, oldsize - newsize)
            /\ InRun(p, a + newsize, oldsize - newsize) => p \in PagesOf(i.reserved[t])
    <3>1. \A p \in Int :
            /\ p \in PagesOf(c) <=> p \in PagesOf(rec) /\ ~InRun(p, a + newsize, oldsize - newsize)
            /\ InRun(p, a + newsize, oldsize - newsize) => p \in PagesOf(rec)
      BY <2>9, <2>10, <2>13, <2>15
    <3>2. QED
      BY <2>8, <3>1
  <2>17. /\ kept \in Infos /\ kept.reserved_num = i.reserved_num
         /\ CutFrom(kept.reserved, kept.reserved_num, i.reserved, i.reserved_num, a + newsize, oldsize - newsize)
    <3>1. /\ i \in Infos /\ RecordsOK(i.reserved, i.reserved_num) /\ t \in 1 .. i.reserved_num
          /\ c \in Entries /\ c.size # 0 /\ c.mapping = i.reserved[t].mapping
          /\ a + newsize \in Int /\ oldsize - newsize \in Nat
      BY <2>1, <2>7, <2>8, <2>10, <2>13
    <3>2. QED
      BY ONLY <2>14, <2>16, <3>1, ShortenRecord
  <2>18. /\ b \in Blocks /\ b.start = a + newsize /\ b.size = oldsize - newsize /\ End(b) = a + oldsize
         /\ \A p \in Int : p \in PagesOf(b) <=> InRun(p, a + newsize, oldsize - newsize)
    <3>1. PICK st, sz : st = a + newsize /\ sz = oldsize - newsize
      OBVIOUS
    <3>2. b = [start |-> st, size |-> sz] /\ st \in Nat /\ sz \in Nat
      BY <2>4, <2>10, <3>1
    <3>3. b \in [start : Nat, size : Nat] /\ b.start = st /\ b.size = sz
      BY ONLY <3>2
    <3>4. b \in Blocks
      BY <3>3 DEF Blocks
    <3>5. End(b) = b.start + b.size /\ \A p \in Int : p \in PagesOf(b) <=> b.start <= p /\ p < End(b)
      BY <3>4, BlockFacts
    <3>6. b.start = a + newsize /\ b.size = oldsize - newsize
      BY <3>1, <3>3
    <3>7. End(b) = a + oldsize
      BY <2>10, <3>5, <3>6
    <3>8. QED
      BY <2>15, <3>4, <3>5, <3>6, <3>7
  \* A block ends where the record starts or before, or starts after it: an empty one
  \* because no block starts inside a record.
  <2>19. \A k \in 1 .. Len(i.mblock) : End(i.mblock[k]) <= a \/ a + oldsize <= i.mblock[k].start
    <3> TAKE k \in 1 .. Len(i.mblock)
    <3>1. PICK d : d = i.mblock[k]
      OBVIOUS
    <3>2. /\ d \in Blocks /\ d \in Range(i.mblock) /\ d.start \in Int /\ End(d) \in Int /\ d.start <= End(d)
          /\ \A p \in Int : p \in PagesOf(d) <=> d.start <= p /\ p < End(d)
      <4>1. d \in Blocks /\ d \in Range(i.mblock)
        BY <2>1, <3>1 DEF Range
      <4>2. QED
        BY <4>1, BlockFacts
    <3>3. \A p \in Int : ~(p \in PagesOf(d) /\ a <= p /\ p < a + oldsize)
      <4>1. PagesOf(d) \cap a .. (a + oldsize - 1) = {}
        BY <2>6, <3>2
      <4>2. \A p \in Int : a <= p /\ p < a + oldsize => p \in a .. (a + oldsize - 1)
        BY <2>9
      <4>3. QED
        BY <4>1, <4>2
    <3>4. ~(d.start - 1 \in PagesOf(rec) /\ d.start \in PagesOf(rec))
      BY <2>7, <2>8, <3>1 DEF Sound, NoStartInside
    <3>5. ~(a <= d.start - 1 /\ d.start < a + oldsize)
      BY <2>9, <3>2, <3>4
    <3>6. SUFFICES ASSUME ~(End(d) <= a), ~(a + oldsize <= d.start) PROVE FALSE
      BY <3>1
    <3>7. d.start <= a
      BY <2>9, <3>2, <3>5, <3>6
    <3>8. a \in PagesOf(d)
      BY <2>9, <3>2, <3>6, <3>7
    <3>9. QED
      BY <2>9, <2>10, <3>3, <3>8
  <2>20. \A k \in 1 .. Len(i.mblock) : i.mblock[k].start \in Int /\ End(i.mblock[k]) \in Int
                                       /\ i.mblock[k].start <= End(i.mblock[k])
    <3>1. \A k \in 1 .. Len(i.mblock) : i.mblock[k] \in Blocks
      BY <2>1
    <3>2. QED
      BY <3>1, BlockFacts
  <2>21. Clear(i.mblock, b) /\ \A k \in 1 .. Len(i.mblock) : End(i.mblock[k]) # b.start
    <3>1. ASSUME NEW k \in 1 .. Len(i.mblock)
          PROVE  /\ End(i.mblock[k]) <= b.start \/ End(b) <= i.mblock[k].start
                 /\ End(i.mblock[k]) # b.start
      BY <2>9, <2>10, <2>18, <2>19, <2>20
    <3>2. QED
      BY <3>1 DEF Clear
  <2>22. Apart(s) /\ Plus(s, i.mblock, b)
    <3>0. b \in Blocks /\ b.size # 0 /\ i.mblock \in Seq(Blocks) /\ Apart(i.mblock)
      BY <2>1, <2>10, <2>18
    <3>1. CASE next = {}
      <4>1. s = Insert(i.mblock, b)
        BY <2>5, <3>1
      <4>2. \A k \in 1 .. Len(i.mblock) : End(i.mblock[k]) # b.start /\ End(b) # i.mblock[k].start
        BY <2>1, <3>1
      <4>3. QED
        BY ONLY <2>21, <3>0, <4>1, <4>2, InsertBlock
    <3>2. CASE next # {}
      <4>1. next \in SUBSET Nat
        BY <2>1
      <4>2. Min(next) \in next
        BY <3>2, <4>1, LeastElement
      <4>3. PICK k : k = Min(next)
        OBVIOUS
      <4>4. k \in 1 .. Len(i.mblock) /\ (End(b) = i.mblock[k].start \/ End(i.mblock[k]) = b.start)
        BY <2>1, <4>2, <4>3
      <4>5. s = Grow(i.mblock, k, b)
        BY <2>5, <3>2, <4>3
      <4>6. QED
        BY ONLY <2>21, <3>0, <4>4, <4>5, GrowBlock
    <3>3. QED
      BY <3>1, <3>2
  <2> HIDE DEF next
  <2>23. PICK j : j = x.info
    OBVIOUS
  <2>24. j \in Infos /\ j.mblock = s /\ j.reserved = kept.reserved /\ j.reserved_num = kept.reserved_num
    <3>1. kept \in Infos /\ s \in Seq(Blocks) /\ j = [kept EXCEPT !.mblock = s]
      BY <2>11, <2>17, <2>22, <2>23 DEF Plus
    <3>2. QED
      BY ONLY <3>1, BlocksChanged
  <2>25. PICK f, w : f = a + newsize /\ w = oldsize - newsize
    OBVIOUS
  <2>26. \A p \in Int : FreeAt(j.mblock, p) <=> FreeAt(i.mblock, p) \/ InRun(p, f, w)
    BY <2>18, <2>22, <2>24, <2>25 DEF Plus
  <2>27. StartsFrom(j.mblock, i.mblock, f)
    BY <2>18, <2>22, <2>24, <2>25 DEF Plus
  <2>28. CutFrom(j.reserved, j.reserved_num, i.reserved, i.reserved_num, f, w) /\ Apart(j.mblock)
    BY <2>17, <2>22, <2>24, <2>25
  <2>29. \A p \in Int : InRun(p, f, w) => p \in PagesOf(i.reserved[t])
    BY <2>16, <2>25
  <2>30. Freed(i, j, f, w)
    <3>1. Sound(i) /\ f \in Int /\ w \in Nat \ {0} /\ t \in 1 .. i.reserved_num /\ j \in Infos
      BY <2>7, <2>10, <2>24, <2>25
    <3>2. QED
      BY ONLY <2>26, <2>27, <2>28, <2>29, <3>1, RunFreed
  <2>31. QED
    BY <1>2, <2>23, <2>25, <2>30
<1>3. QED
  BY <1>1, <1>2
-----------------------------------------------------------------------------
(* Who holds a page. *)

\* The live records, as a set.
LEMMA RecordsLive ==
    ASSUME NEW i, Sound(i)
    PROVE  \A rec : rec \in Records(i) <=> \E k \in 1 .. i.reserved_num : rec = i.reserved[k]
<1>0. PICK res, n : res = i.reserved /\ n = i.reserved_num
  OBVIOUS
<1>1. MaxReserved \in Nat /\ n \in Nat /\ n <= MaxReserved + 2 /\ res \in [1 .. MaxReserved + 3 -> Entries]
  BY <1>0, MapAssumption DEF Sound, RecordsOK, Tables
<1>2. res \in Seq(Entries) /\ Len(res) = MaxReserved + 3
  BY <1>1
<1>3. PICK live : live = SubSeq(res, 1, n)
  OBVIOUS
<1>4. 1 \in 1 .. Len(res) + 1 /\ n \in 1 - 1 .. Len(res)
  BY <1>1, <1>2
<1>5. live \in Seq(Entries) /\ Len(live) = n /\ \A k \in 1 .. n : live[k] = res[k]
  BY <1>1, <1>2, <1>3, <1>4, SubSeqProperties
<1>6. DOMAIN live = 1 .. n
  BY <1>1, <1>5
<1>7. Records(i) = {live[k] : k \in 1 .. n}
  BY <1>0, <1>3, <1>6 DEF Records, Live, Range
<1>8. QED
  BY <1>0, <1>5, <1>7

\* HolderOf gives the mapping of the record a page is in.
LEMMA HolderIs ==
    ASSUME NEW i, Sound(i), NEW p \in Int
    PROVE  /\ \A m : HeldBy(i, p, m) => HolderOf(i, p) = m
           /\ (\A m : ~HeldBy(i, p, m)) => HolderOf(i, p) = Free
<1> DEFINE recs == {rec \in Records(i) : p \in PagesOf(rec)}
<1>1. \A rec : rec \in recs <=> \E k \in 1 .. i.reserved_num : rec = i.reserved[k] /\ p \in PagesOf(i.reserved[k])
  BY RecordsLive
<1>2. HolderOf(i, p) = IF recs = {} THEN Free ELSE (CHOOSE rec \in recs : TRUE).mapping
  BY DEF HolderOf
<1> HIDE DEF recs
<1>3. CASE recs = {}
  <2>1. \A m : ~HeldBy(i, p, m)
    BY <1>1, <1>3 DEF HeldBy, Holds
  <2>2. QED
    BY <1>2, <1>3, <2>1
<1>4. CASE recs # {}
  <2>1. PICK rec : rec = CHOOSE r \in recs : TRUE
    OBVIOUS
  <2>2. rec \in recs
    BY <1>4, <2>1
  <2>3. PICK k \in 1 .. i.reserved_num : rec = i.reserved[k] /\ p \in PagesOf(i.reserved[k])
    BY <1>1, <2>2
  <2>4. HolderOf(i, p) = rec.mapping
    BY <1>2, <1>4, <2>1
  <2>5. ASSUME NEW m, HeldBy(i, p, m) PROVE m = rec.mapping
    <3>1. PICK h \in 1 .. i.reserved_num : p \in PagesOf(i.reserved[h]) /\ i.reserved[h].mapping = m
      BY <2>5 DEF HeldBy, Holds
    <3>2. h = k
      BY <2>3, <3>1 DEF Sound, RecordsOK
    <3>3. QED
      BY <2>3, <3>1, <3>2
  <2>6. HeldBy(i, p, rec.mapping)
    BY <2>3 DEF HeldBy, Holds
  <2>7. QED
    BY <2>4, <2>5, <2>6
<1>5. QED
  BY <1>3, <1>4

\* One run of pages of the memory changes hands.
MovesRun(i, j, a, size, from, to) ==
    /\ a \in Int /\ size \in Nat \ {0} /\ to \in Mappings \cup {Free}
    /\ \A p \in Int : InRun(p, a, size)
          => p \in Dram /\ HolderOf(i, p) = from /\ HolderOf(j, p) = to
    /\ \A p \in Int : ~InRun(p, a, size) => HolderOf(j, p) = HolderOf(i, p)

\* The mapping of a held page is one the kernel knows.
LEMMA HolderKnown ==
    ASSUME NEW i, Sound(i), NEW p \in Int
    PROVE  HolderOf(i, p) \in Mappings \cup {Free}
<1>1. CASE \E m : HeldBy(i, p, m)
  <2>1. PICK m : HeldBy(i, p, m)
    BY <1>1
  <2>2. PICK k \in 1 .. i.reserved_num : i.reserved[k].mapping = m
    BY <2>1 DEF HeldBy, Holds
  <2>3. i.reserved[k] \in Entries
    BY LiveEntries DEF Sound
  <2>4. m \in Mappings \cup {Free}
    BY <2>2, <2>3, EntryFacts
  <2>5. QED
    BY <2>1, <2>4, HolderIs
<1>2. CASE ~\E m : HeldBy(i, p, m)
  BY <1>2, HolderIs
<1>3. QED
  BY <1>1, <1>2

\* The run is given back.
LEMMA FreedMoves ==
    ASSUME NEW i, Sound(i), NEW a \in Int, NEW size \in Nat \ {0}, NEW j, Freed(i, j, a, size)
    PROVE  \E m : MovesRun(i, j, a, size, m, Free)
<1>1. Sound(j) /\ \A p \in Int : \A m : HeldBy(j, p, m) <=> HeldBy(i, p, m) /\ ~InRun(p, a, size)
  BY DEF Freed
<1>2. PICK m \in Mappings \cup {Free} : \A p \in Int : InRun(p, a, size) => HeldBy(i, p, m)
  BY DEF Freed
<1>3. ASSUME NEW p \in Int, InRun(p, a, size)
      PROVE  p \in Dram /\ HolderOf(i, p) = m /\ HolderOf(j, p) = Free
  <2>1. HeldBy(i, p, m) /\ \A q : ~HeldBy(j, p, q)
    BY <1>1, <1>2, <1>3
  <2>2. Held(i.reserved, i.reserved_num, p)
    BY <2>1, HeldMapped DEF HeldBy
  <2>3. p \in Dram
    BY <2>2 DEF Sound
  <2>4. QED
    BY <1>1, <2>1, <2>3, HolderIs
<1>4. ASSUME NEW p \in Int, ~InRun(p, a, size)
      PROVE  HolderOf(j, p) = HolderOf(i, p)
  <2>1. \A q : HeldBy(j, p, q) <=> HeldBy(i, p, q)
    BY <1>1, <1>4
  <2>2. CASE \E q : HeldBy(i, p, q)
    BY <1>1, <2>1, <2>2, HolderIs
  <2>3. CASE ~\E q : HeldBy(i, p, q)
    BY <1>1, <2>1, <2>3, HolderIs
  <2>4. QED
    BY <2>2, <2>3
<1>5. MovesRun(i, j, a, size, m, Free)
  BY <1>3, <1>4 DEF MovesRun
<1>6. QED
  BY <1>5

\* The run is reserved.
LEMMA AllocatedMoves ==
    ASSUME NEW i, Sound(i), NEW a \in Int, NEW size \in Nat \ {0},
           NEW mapping \in Mappings \cup {Free}, NEW j, Allocated(i, j, a, size, mapping)
    PROVE  MovesRun(i, j, a, size, Free, mapping)
<1>1. /\ Sound(j)
      /\ \A p \in Int : InRun(p, a, size) => FreeAt(i.mblock, p)
      /\ \A p \in Int : \A m : HeldBy(j, p, m)
            <=> HeldBy(i, p, m) \/ (InRun(p, a, size) /\ m = mapping)
  BY DEF Allocated
<1>2. ASSUME NEW p \in Int, InRun(p, a, size)
      PROVE  p \in Dram /\ HolderOf(i, p) = Free /\ HolderOf(j, p) = mapping
  <2>1. FreeAt(i.mblock, p) /\ HeldBy(j, p, mapping)
    BY <1>1, <1>2
  <2>2. p \in Dram /\ ~Held(i.reserved, i.reserved_num, p)
    BY <2>1 DEF Sound
  <2>3. \A q : ~HeldBy(i, p, q)
    BY <2>2, HeldMapped DEF HeldBy
  <2>4. QED
    BY <1>1, <2>1, <2>2, <2>3, HolderIs
<1>3. ASSUME NEW p \in Int, ~InRun(p, a, size)
      PROVE  HolderOf(j, p) = HolderOf(i, p)
  <2>1. \A q : HeldBy(j, p, q) <=> HeldBy(i, p, q)
    BY <1>1, <1>3
  <2>2. CASE \E q : HeldBy(i, p, q)
    BY <1>1, <2>1, <2>2, HolderIs
  <2>3. CASE ~\E q : HeldBy(i, p, q)
    BY <1>1, <2>1, <2>3, HolderIs
  <2>4. QED
    BY <2>2, <2>3
<1>4. QED
  BY <1>2, <1>3 DEF MovesRun
-----------------------------------------------------------------------------
(* The steps. *)

MblockInv == Sound(info) /\ info.reserved_num <= MaxReserved

Holding == [p \in Dram |-> HolderOf(info, p)]

\* A call keeps the tables sound and moves one run of pages at most.
Safe(i, x) ==
    x.ok => /\ Sound(x.info)
            /\ \/ x.info = i
               \/ \E a, size, from, to : MovesRun(i, x.info, a, size, from, to)

\* The moves are those of PageMap.
LEMMA RunIsMove ==
    ASSUME NEW a, NEW size, NEW from, NEW to, MovesRun(info, info', a, size, from, to)
    PROVE  Abstract!Move
<1>1. /\ a \in Int /\ size \in Nat \ {0} /\ to \in Mappings \cup {Free}
      /\ \A p \in Int : InRun(p, a, size)
            => p \in Dram /\ HolderOf(info, p) = from /\ HolderOf(info', p) = to
      /\ \A p \in Int : ~InRun(p, a, size) => HolderOf(info', p) = HolderOf(info, p)
  BY DEF MovesRun
<1> DEFINE run == a .. (a + size - 1)
<1>2. \A p : p \in run <=> p \in Int /\ InRun(p, a, size)
  BY <1>1 DEF InRun
<1>3. a \in run /\ a + size - 1 \in run /\ run # {}
  BY <1>1
<1>4. run \in Abstract!Runs
  <2>1. a \in Dram /\ a + size - 1 \in Dram
    BY <1>1, <1>2, <1>3
  <2>2. QED
    BY <1>3, <2>1 DEF Abstract!Runs
<1>5. \A p \in Dram : p \in Int
  BY MapAssumption DEF Dram
<1> HIDE DEF run
<1>6. to \in Abstract!Holders
  BY <1>1 DEF Abstract!Holders
<1>7. Abstract!HeldAlike(run)
  <2>1. \A p \in run : p \in Dram /\ HolderOf(info, p) = from
    BY <1>1, <1>2
  <2>2. QED
    BY <2>1 DEF Abstract!HeldAlike
<1>8. Abstract!Give(run, to)
  <2>1. \A p \in Dram : HolderOf(info', p) = IF p \in run THEN to ELSE HolderOf(info, p)
    BY <1>1, <1>2, <1>5
  <2>2. [p \in Dram |-> HolderOf(info', p)]
          = [p \in Dram |-> IF p \in run THEN to ELSE [q \in Dram |-> HolderOf(info, q)][p]]
    BY <2>1
  <2>3. QED
    BY <2>2 DEF Abstract!Give
<1>9. QED
  BY <1>4, <1>6, <1>7, <1>8 DEF Abstract!Move

\* What a call does to the state.
LEMMA CallKeeps ==
    ASSUME MblockInv, NEW x, Call(x), Safe(info, x)
    PROVE  MblockInv' /\ (Abstract!Move \/ Holding' = Holding)
<1>1. CASE init_done /\ x.ok
  <2>1. info' = x.info /\ x.info.reserved_num <= MaxReserved
    BY <1>1 DEF Call
  <2>2. Sound(x.info)
    BY <1>1 DEF Safe
  <2>3. MblockInv'
    BY <2>1, <2>2 DEF MblockInv
  <2>4. CASE x.info = info
    BY <2>1, <2>3, <2>4 DEF Holding
  <2>5. CASE \E a, size, from, to : MovesRun(info, x.info, a, size, from, to)
    <3>1. PICK a, size, from, to : MovesRun(info, info', a, size, from, to)
      BY <2>1, <2>5
    <3>2. Abstract!Move
      BY <3>1, RunIsMove
    <3>3. QED
      BY <2>3, <3>2
  <2>6. QED
    BY <1>1, <2>4, <2>5 DEF Safe
<1>2. CASE ~(init_done /\ x.ok)
  <2>1. info' = info
    BY <1>2 DEF Call
  <2>2. QED
    BY <2>1 DEF MblockInv, Holding
<1>3. QED
  BY <1>1, <1>2

\* A call that frees.
LEMMA FreeSafe ==
    ASSUME NEW i, Sound(i), i.reserved_num <= MaxReserved, NEW a \in Int, NEW size \in Nat \ {0},
           NEW x, x = mblock_free_with_size(i, a, size)
    PROVE  Safe(i, x)
<1> SUFFICES ASSUME x.ok
             PROVE  Sound(x.info) /\ \E b, w, from, to : MovesRun(i, x.info, b, w, from, to)
  BY DEF Safe
<1>1. i.reserved_num <= MaxReserved + 1
  BY InfoParts, MapAssumption DEF Sound
<1>2. Freed(i, x.info, a, size)
  BY <1>1, FreeRuns
<1>3. \E m : MovesRun(i, x.info, a, size, m, Free)
  BY <1>2, FreedMoves
<1>4. QED
  BY <1>2, <1>3 DEF Freed

\* mblock_change_map_type frees a run and reserves it again.
LEMMA ChangeSafe ==
    ASSUME NEW i, Sound(i), i.reserved_num <= MaxReserved, NEW a \in Dram, NEW size \in Nat \ {0},
           NEW mapping \in Mappings, NEW x, x = mblock_change_map_type(i, a, size, mapping)
    PROVE  Safe(i, x)
<1>1. PICK f : f = mblock_free_with_size(i, a, size)
  OBVIOUS
<1>2. PICK r : r = [size |-> size, align |-> 1, lower |-> 0, limit |-> 2 * Top, expected |-> a]
  OBVIOUS
<1>3. PICK g : g = mblock_alloc_range_no_lock(f.info, r, mapping)
  OBVIOUS
<1>4. x = IF f.ok /\ g.ret = a THEN OK(g.info) ELSE Fail(i)
  BY <1>1, <1>2, <1>3 DEF mblock_change_map_type
<1>5. CASE ~(f.ok /\ g.ret = a)
  <2>1. x = Fail(i)
    BY <1>4, <1>5
  <2>2. QED
    BY <2>1 DEF Fail, Safe
<1>6. CASE f.ok /\ g.ret = a
  <2>1. x.info = g.info
    BY <1>4, <1>6 DEF OK
  <2>2. a \in Int /\ a \in Nat /\ a # 0 /\ Top \in Nat /\ MaxReserved \in Nat
    BY MapAssumption DEF Dram
  <2>3. i.reserved_num <= MaxReserved + 1 /\ i.reserved_num \in Nat
    BY <2>2, InfoParts DEF Sound
  <2>4. Freed(i, f.info, a, size) /\ f.info.reserved_num <= i.reserved_num + 1
    BY <1>1, <1>6, <2>2, <2>3, FreeRuns
  <2>5. Sound(f.info)
    BY <2>4 DEF Freed
  <2>6. f.info.reserved_num <= MaxReserved + 1
    <3>1. f.info.reserved_num \in Nat
      BY <2>5, InfoParts DEF Sound
    <3>2. QED
      BY <2>2, <2>3, <2>4, <3>1
  <2>7. Request(r) /\ r.size = size /\ r.expected = a
    <3>1. 2 * Top \in Nat
      BY <2>2
    <3>2. r.size = size /\ r.align = 1 /\ r.limit = 2 * Top /\ r.expected = a
      BY <1>2
    <3>3. QED
      BY <2>2, <3>1, <3>2 DEF Request
  <2>8. g.ret # 0 /\ mapping \in Mappings \cup {Free}
    BY <1>6, <2>2
  <2>9. Allocated(f.info, g.info, g.ret, r.size, mapping)
    BY ONLY <1>3, <2>5, <2>6, <2>7, <2>8, AllocRuns
  <2>10. Allocated(f.info, g.info, a, size, mapping)
    BY <1>6, <2>7, <2>9
  <2>11. PICK m : MovesRun(i, f.info, a, size, m, Free)
    BY <2>2, <2>4, FreedMoves
  <2>12. MovesRun(f.info, g.info, a, size, Free, mapping)
    BY <2>2, <2>5, <2>8, <2>10, AllocatedMoves
  <2>13. MovesRun(i, g.info, a, size, m, mapping)
    BY <2>11, <2>12 DEF MovesRun
  <2>14. Sound(g.info)
    BY <2>10 DEF Allocated
  <2>15. QED
    BY <2>1, <2>13, <2>14 DEF Safe
<1>7. QED
  BY <1>5, <1>6

\* Every step keeps the tables sound, and moves one run of pages at most.
LEMMA MblockStep ==
    ASSUME 0 \notin NewSizes, MblockInv, [MblockNext]_mblock_vars
    PROVE  MblockInv' /\ (Abstract!Move \/ Holding' = Holding)
<1>0. Sound(info) /\ info.reserved_num <= MaxReserved /\ info.reserved_num \in Nat /\ MaxReserved \in Nat
      /\ info.reserved_num <= MaxReserved + 1
  <2>1. Sound(info) /\ info.reserved_num <= MaxReserved
    BY DEF MblockInv
  <2>2. info.reserved_num \in Nat /\ MaxReserved \in Nat
    BY <2>1, InfoParts, MapAssumption DEF Sound
  <2>3. QED
    BY <2>1, <2>2
<1>1. \A a \in Dram : a \in Int
  BY MapAssumption DEF Dram
<1>2. \A size \in 1 .. MaxPages : size \in Nat \ {0}
  BY MapAssumption
<1>3. CASE Alloc
  <2>1. PICK r \in Requests, mapping \in Mappings :
            Call([info |-> mblock_alloc_range_no_lock(info, r, mapping).info,
                  ok |-> mblock_alloc_range_no_lock(info, r, mapping).ret # 0])
    BY <1>3 DEF Alloc
  <2>2. PICK g : g = mblock_alloc_range_no_lock(info, r, mapping)
    OBVIOUS
  <2>3. PICK x : x = [info |-> g.info, ok |-> g.ret # 0]
    OBVIOUS
  <2>4. Call(x)
    BY <2>1, <2>2, <2>3
  <2>5. x.info = g.info /\ (x.ok <=> g.ret # 0)
    BY <2>3
  <2>6. Request(r) /\ mapping \in Mappings \cup {Free}
    BY <1>2, MapAssumption DEF Request
  <2>7. ASSUME g.ret # 0
        PROVE  Sound(x.info) /\ \E a, size, from, to : MovesRun(info, x.info, a, size, from, to)
    <3>1. g.ret \in Int /\ Allocated(info, g.info, g.ret, r.size, mapping)
      BY ONLY <1>0, <2>2, <2>6, <2>7, AllocRuns
    <3>2. r.size \in Nat \ {0}
      BY <2>6 DEF Request
    <3>3. MovesRun(info, g.info, g.ret, r.size, Free, mapping)
      BY ONLY <1>0, <2>6, <3>1, <3>2, AllocatedMoves
    <3>4. Sound(g.info)
      BY <3>1 DEF Allocated
    <3>5. QED
      BY <2>5, <3>3, <3>4
  <2>8. Safe(info, x)
    BY <2>5, <2>7 DEF Safe
  <2>9. QED
    BY <2>4, <2>8, CallKeeps
<1>4. CASE FreeRecord
  <2>1. PICK a \in Dram : Call(mblock_free(info, a))
    BY <1>4 DEF FreeRecord
  <2>2. PICK x : x = mblock_free(info, a)
    OBVIOUS
  <2> DEFINE mine == {k \in 1 .. info.reserved_num : info.reserved[k].start = a}
  <2>3. CASE mine = {}
    <3>1. x = Fail(info)
      BY <2>2, <2>3 DEF mblock_free
    <3>2. Safe(info, x)
      BY <3>1 DEF Safe, Fail
    <3>3. QED
      BY <2>1, <2>2, <3>2, CallKeeps
  <2>4. CASE mine # {}
    <3>1. PICK size : size = info.reserved[Min(mine)].size
      OBVIOUS
    <3>2. x = mblock_free_with_size(info, a, size)
      BY <2>2, <2>4, <3>1 DEF mblock_free
    <3>3. mine \in SUBSET Nat
      BY <1>0
    <3>4. Min(mine) \in mine
      BY <2>4, <3>3, LeastElement
    <3>5. Min(mine) \in 1 .. info.reserved_num
      BY <3>4
    <3>6. size \in Nat \ {0}
      <4>1. RecordsOK(info.reserved, info.reserved_num)
        BY <1>0 DEF Sound
      <4>2. info.reserved[Min(mine)] \in Entries
        BY <3>5, <4>1, LiveEntries
      <4>3. size \in Nat
        BY <3>1, <4>2, EntryFacts
      <4>4. size # 0
        BY <3>1, <3>5, <4>1 DEF RecordsOK
      <4>5. QED
        BY <4>3, <4>4
    <3>7. a \in Int
      BY <1>1
    <3>8. Safe(info, x)
      BY ONLY <1>0, <3>2, <3>6, <3>7, FreeSafe
    <3>9. QED
      BY <2>1, <2>2, <3>8, CallKeeps
  <2>5. QED
    BY <2>3, <2>4
<1>5. CASE FreePartial
  <2>1. PICK a \in Dram, size \in 1 .. MaxPages : Call(mblock_free_partial(info, a, size))
    BY <1>5 DEF FreePartial
  <2>2. PICK x : x = mblock_free_partial(info, a, size)
    OBVIOUS
  <2>3. x = Fail(info) \/ x = mblock_free_with_size(info, a, size)
    BY <2>2 DEF mblock_free_partial
  <2>4. x = Fail(info) => Safe(info, x)
    BY DEF Safe, Fail
  <2>5. a \in Int /\ size \in Nat \ {0}
    BY <1>1, <1>2
  <2>6. x = mblock_free_with_size(info, a, size) => Safe(info, x)
    BY ONLY <1>0, <2>5, FreeSafe
  <2>7. QED
    BY <2>1, <2>2, <2>3, <2>4, <2>6, CallKeeps
<1>6. CASE ChangeMapType
  <2>1. PICK a \in Dram, size \in 1 .. MaxPages, mapping \in Mappings :
            Call(mblock_change_map_type(info, a, size, mapping))
    BY <1>6 DEF ChangeMapType
  <2>2. PICK x : x = mblock_change_map_type(info, a, size, mapping)
    OBVIOUS
  <2>3. a \in Dram /\ size \in Nat \ {0} /\ mapping \in Mappings
    BY <1>2
  <2>4. Safe(info, x)
    BY ONLY <1>0, <2>2, <2>3, ChangeSafe
  <2>5. QED
    BY <2>1, <2>2, <2>4, CallKeeps
<1>7. CASE Resize
  <2>1. PICK a \in Dram, oldsize \in 1 .. MaxPages, newsize \in NewSizes :
            Call(mblock_resize(info, a, oldsize, newsize))
    BY <1>7 DEF Resize
  <2>2. PICK x : x = mblock_resize(info, a, oldsize, newsize)
    OBVIOUS
  <2>3. a \in Int /\ oldsize \in Nat /\ newsize \in Nat \ {0} /\ newsize \in Int /\ oldsize \in Int
    BY <1>1, <1>2, MapAssumption
  <2>4. ASSUME x.ok
        PROVE  Sound(x.info) /\ (x.info = info \/ \E b, w, from, to : MovesRun(info, x.info, b, w, from, to))
    <3>1. /\ oldsize <= newsize => x.info = info
          /\ newsize < oldsize => Freed(info, x.info, a + newsize, oldsize - newsize)
      BY ONLY <1>0, <2>2, <2>3, <2>4, ResizeRuns
    <3>2. CASE oldsize <= newsize
      BY <1>0, <3>1, <3>2
    <3>3. CASE newsize < oldsize
      <4>1. PICK b, w : b = a + newsize /\ w = oldsize - newsize
        OBVIOUS
      <4>2. b \in Int /\ w \in Nat \ {0} /\ Freed(info, x.info, b, w)
        BY <2>3, <3>1, <3>3, <4>1
      <4>3. \E m : MovesRun(info, x.info, b, w, m, Free)
        BY ONLY <1>0, <4>2, FreedMoves
      <4>4. QED
        BY <4>2, <4>3 DEF Freed
    <3>4. QED
      BY <2>3, <3>2, <3>3
  <2>5. Safe(info, x)
    BY <2>4 DEF Safe
  <2>6. QED
    BY <2>1, <2>2, <2>5, CallKeeps
<1>8. CASE FdtAppend
  <2>1. PICK j : j = [info EXCEPT !.mblock = mblock_merge(info.mblock)]
    OBVIOUS
  <2>2. info' = j
    BY <1>8, <2>1 DEF FdtAppend
  <2>3. Sound(j) /\ \A p, m : HeldBy(j, p, m) <=> HeldBy(info, p, m)
    BY ONLY <1>0, <2>1, MergeSound
  <2>4. j.reserved_num = info.reserved_num
    <3>1. info \in [mblock : Seq(Blocks), reserved : Tables, reserved_num : Nat]
      BY <1>0 DEF Sound, Infos
    <3>2. QED
      BY ONLY <2>1, <3>1
  <2>5. \A p \in Dram : HolderOf(j, p) = HolderOf(info, p)
    <3> TAKE p \in Dram
    <3>1. p \in Int
      BY <1>1
    <3>2. CASE \E q : HeldBy(info, p, q)
      BY <1>0, <2>3, <3>1, <3>2, HolderIs
    <3>3. CASE ~\E q : HeldBy(info, p, q)
      BY <1>0, <2>3, <3>1, <3>3, HolderIs
    <3>4. QED
      BY <3>2, <3>3
  <2>6. MblockInv'
    BY <1>0, <2>2, <2>3, <2>4 DEF MblockInv
  <2>7. Holding' = Holding
    BY <2>2, <2>5 DEF Holding
  <2>8. QED
    BY <2>6, <2>7
<1>9. CASE UNCHANGED mblock_vars
  BY <1>9 DEF mblock_vars, MblockInv, Holding
<1>10. QED
  BY <1>3, <1>4, <1>5, <1>6, <1>7, <1>8, <1>9 DEF MblockNext

\* What the preloader hands over is sound once it is merged.
LEMMA MblockStart ==
    ASSUME MblockInit
    PROVE  MblockInv
<1>1. PICK m \in Maps :
        info = [mblock |-> mblock_merge(m.mblock),
                reserved |-> [k \in 1 .. (MaxReserved + 3) |->
                                IF k <= Len(m.reserved) THEN m.reserved[k] ELSE NoRecord],
                reserved_num |-> Len(m.reserved)]
  BY DEF MblockInit
<1>2. PICK s, given, n : s = m.mblock /\ given = m.reserved /\ n = Len(m.reserved)
  OBVIOUS
<1>3. /\ s \in Seq(Blocks) /\ s # << >>
      /\ given \in Seq(Entries) /\ n = Len(given) /\ n <= MaxReserved
      /\ \A k \in DOMAIN s : s[k].size > 0
      /\ \A k \in DOMAIN given : given[k].size > 0
      /\ \A j, k \in DOMAIN s : j < k => End(s[j]) <= s[k].start
      /\ \A j, k \in DOMAIN given : j # k => PagesOf(given[j]) \cap PagesOf(given[k]) = {}
      /\ \A j \in DOMAIN s, k \in DOMAIN given : PagesOf(s[j]) \cap PagesOf(given[k]) = {}
      /\ (UNION {PagesOf(s[k]) : k \in DOMAIN s}) \cup (UNION {PagesOf(given[k]) : k \in DOMAIN given}) = Dram
  BY <1>2, PreloaderAssumption, ZenonT(60)
<1>4. /\ MaxReserved \in Nat /\ Len(s) \in Nat /\ n \in Nat
      /\ DOMAIN s = 1 .. Len(s) /\ DOMAIN given = 1 .. n
      /\ \A k \in 1 .. Len(s) : s[k] \in Blocks
      /\ \A k \in 1 .. n : given[k] \in Entries
  BY <1>3, MapAssumption
<1>5. PICK res : res = [k \in 1 .. (MaxReserved + 3) |-> IF k <= n THEN given[k] ELSE NoRecord]
  OBVIOUS
<1>6. res \in Tables /\ \A k \in 1 .. n : res[k] = given[k]
  <2>1. NoRecord \in Entries
    <3>1. Free \in Mappings \cup {Free} /\ 0 \in Nat
      OBVIOUS
    <3>2. QED
      BY <3>1 DEF NoRecord, Entries
  <2>2. \A k \in 1 .. (MaxReserved + 3) : k <= n => k \in 1 .. n
    BY <1>4
  <2>3. \A k \in 1 .. n : k \in 1 .. (MaxReserved + 3) /\ k <= n
    BY <1>3, <1>4
  <2>4. QED
    BY <1>4, <1>5, <2>1, <2>2, <2>3 DEF Tables
<1>7. PICK r : r = mblock_merge(s)
  OBVIOUS
<1>8. Sorted(s)
  BY <1>3, <1>4 DEF Sorted
<1>9. /\ r \in Seq(Blocks)
      /\ Apart(r)
      /\ \A p \in Int : FreeAt(r, p) <=> FreeAt(s, p)
      /\ \A k \in 1 .. Len(r) : \E j \in 1 .. Len(s) : r[k].start = s[j].start
      /\ Len(s) # 0 => Len(r) # 0
  <2>1. s \in Seq(Blocks)
    BY <1>3
  <2>2. QED
    BY ONLY <1>7, <1>8, <2>1, MergeBlocks
<1>10. info \in Infos /\ info.mblock = r /\ info.reserved = res /\ info.reserved_num = n
  <2>1. info = [mblock |-> r, reserved |-> res, reserved_num |-> n]
    BY <1>1, <1>2, <1>5, <1>7
  <2>2. r \in Seq(Blocks) /\ res \in Tables /\ n \in Nat
    BY <1>4, <1>6, <1>9
  <2>3. QED
    BY ONLY <2>1, <2>2 DEF Infos
<1>11. RecordsOK(res, n)
  <2>1. n \in 0 .. MaxReserved + 2
    BY <1>3, <1>4
  <2>2. \A k \in 1 .. n : res[k].size # 0
    <3> TAKE k \in 1 .. n
    <3>1. given[k].size > 0 /\ given[k].size \in Nat
      BY <1>3, <1>4, EntryFacts
    <3>2. QED
      BY <1>6, <3>1
  <2>3. \A j, k \in 1 .. n, p \in Int : p \in PagesOf(res[j]) /\ p \in PagesOf(res[k]) => j = k
    BY <1>3, <1>4, <1>6
  <2>4. CleanAfter(res, n)
    <3> SUFFICES ASSUME NEW k \in n + 1 .. MaxReserved + 3 PROVE res[k] = NoRecord
      BY DEF CleanAfter
    <3>1. k \in 1 .. MaxReserved + 3 /\ ~(k <= n)
      BY <1>4
    <3>2. QED
      BY <1>5, <3>1
  <2>5. QED
    BY <1>6, <2>1, <2>2, <2>3, <2>4 DEF RecordsOK
<1>12. \A p : Held(res, n, p) <=> \E k \in 1 .. n : p \in PagesOf(given[k])
  BY <1>6 DEF Held
<1>13. \A p \in Int : FreeAt(r, p) \/ Held(res, n, p) <=> p \in Dram
  <2>1. \A p : p \in Dram <=> FreeAt(s, p) \/ \E k \in 1 .. n : p \in PagesOf(given[k])
    BY <1>3, <1>4 DEF FreeAt
  <2>2. QED
    BY <1>9, <1>12, <2>1
<1>14. \A p \in Int : ~(FreeAt(s, p) /\ Held(res, n, p))
  BY <1>3, <1>4, <1>12 DEF FreeAt
<1>17. \A h \in 1 .. Len(s) : s[h].start \in PagesOf(s[h]) /\ s[h].start \in Int
  <2> TAKE h \in 1 .. Len(s)
  <2>1. /\ s[h].start \in Int /\ s[h].size \in Nat /\ End(s[h]) = s[h].start + s[h].size
        /\ \A p : p \in PagesOf(s[h]) <=> p \in Int /\ s[h].start <= p /\ p < End(s[h])
    BY <1>4, BlockFacts
  <2>2. s[h].size > 0
    BY <1>3, <1>4
  <2>3. QED
    BY <2>1, <2>2
<1>15. NoStartInside(r, res, n)
  <2> SUFFICES ASSUME NEW k \in 1 .. Len(r), NEW j \in 1 .. n, r[k].start \in PagesOf(res[j])
               PROVE  FALSE
    BY DEF NoStartInside
  <2>1. PICK h \in 1 .. Len(s) : r[k].start = s[h].start
    BY <1>9
  <2>2. FreeAt(s, s[h].start) /\ Held(res, n, s[h].start) /\ s[h].start \in Int
    BY <1>17, <2>1 DEF FreeAt, Held
  <2>3. QED
    BY <1>14, <2>2
<1>18. Inside(r)
  <2>1. Len(r) # 0
    BY <1>3, <1>9
  <2>2. ASSUME NEW k \in 1 .. Len(r) PROVE r[k].start \in Base .. Top
    <3>1. PICK h \in 1 .. Len(s) : r[k].start = s[h].start
      BY <1>9
    <3>2. FreeAt(s, s[h].start) /\ s[h].start \in Int
      BY <1>17 DEF FreeAt
    <3>3. s[h].start \in Dram
      BY <1>9, <1>13, <3>2
    <3>4. QED
      BY <3>1, <3>3, MapAssumption DEF Dram
  <2>3. QED
    BY <2>1, <2>2 DEF Inside
<1>16. QED
  BY <1>3, <1>9, <1>10, <1>11, <1>13, <1>14, <1>15, <1>18 DEF MblockInv, Sound

\* Sound tables are a partition.
LEMMA SoundPartition ==
    MblockInv => Partition
<1> SUFFICES ASSUME MblockInv PROVE Partition
  OBVIOUS
<1>0. PICK s, res, n : s = info.mblock /\ res = info.reserved /\ n = info.reserved_num
  OBVIOUS
<1>1. /\ s \in Seq(Blocks) /\ Len(s) \in Nat /\ DOMAIN s = 1 .. Len(s) /\ Apart(s)
      /\ RecordsOK(res, n) /\ \A k \in 1 .. Len(s) : s[k] \in Blocks
  BY <1>0, InfoParts DEF MblockInv, Sound
<1>2. \A k \in 1 .. Len(s) : /\ s[k].start \in Int /\ End(s[k]) \in Int /\ s[k].start <= End(s[k])
                             /\ \A p \in Int : p \in PagesOf(s[k]) <=> s[k].start <= p /\ p < End(s[k])
  BY <1>1, BlockFacts
<1>3. ASSUME NEW p \in Dram PROVE Appearances(p) = 1
  <2> DEFINE F == {k \in DOMAIN info.mblock : p \in PagesOf(info.mblock[k])}
             H == {k \in 1 .. info.reserved_num : p \in PagesOf(info.reserved[k])}
  <2>0. p \in Int
    BY MapAssumption DEF Dram
  <2>1. F = {k \in 1 .. Len(s) : p \in PagesOf(s[k])} /\ H = {k \in 1 .. n : p \in PagesOf(res[k])}
    BY <1>0, <1>1
  <2>2. /\ FreeAt(s, p) \/ Held(res, n, p)
        /\ ~(FreeAt(s, p) /\ Held(res, n, p))
    BY <1>0, <2>0 DEF MblockInv, Sound
  <2>3. \A j, k \in F : j = k
    <3> TAKE j, k \in F
    <3>1. /\ j \in 1 .. Len(s) /\ k \in 1 .. Len(s)
          /\ s[j].start <= p /\ p < End(s[j]) /\ s[k].start <= p /\ p < End(s[k])
          /\ s[j].start \in Int /\ End(s[j]) \in Int /\ s[k].start \in Int /\ End(s[k]) \in Int
      BY <1>2, <2>0, <2>1
    <3>2. j < k => End(s[j]) < s[k].start
      BY <1>1, <3>1 DEF Apart
    <3>3. k < j => End(s[k]) < s[j].start
      BY <1>1, <3>1 DEF Apart
    <3>4. QED
      BY <2>0, <3>1, <3>2, <3>3
  <2>4. \A j, k \in H : j = k
    BY <1>1, <2>0, <2>1 DEF RecordsOK
  <2>5. (F # {} <=> FreeAt(s, p)) /\ (H # {} <=> Held(res, n, p))
    BY <2>1 DEF FreeAt, Held
  <2>6. Appearances(p) = Cardinality(F) + Cardinality(H)
    BY DEF Appearances
  <2> HIDE DEF F, H
  <2>7. Cardinality({}) = 0 /\ \A x : Cardinality({x}) = 1
    BY FS_EmptySet, FS_Singleton
  <2>8. CASE F # {} /\ H = {}
    <3>1. PICK k : k \in F
      BY <2>8
    <3>2. F = {k}
      BY <2>3, <3>1
    <3>3. Cardinality(F) = 1 /\ Cardinality(H) = 0
      BY <2>7, <2>8, <3>2
    <3>4. QED
      BY <2>6, <3>3
  <2>9. CASE F = {} /\ H # {}
    <3>1. PICK k : k \in H
      BY <2>9
    <3>2. H = {k}
      BY <2>4, <3>1
    <3>3. Cardinality(F) = 0 /\ Cardinality(H) = 1
      BY <2>7, <2>9, <3>2
    <3>4. QED
      BY <2>6, <3>3
  <2>10. QED
    BY <2>2, <2>5, <2>8, <2>9
<1>4. ASSUME NEW k \in 2 .. Len(s) PROVE s[k - 1].start <= s[k].start
  <2>1. k - 1 \in 1 .. Len(s) /\ k \in 1 .. Len(s) /\ k - 1 < k
    BY <1>1
  <2>2. End(s[k - 1]) < s[k].start
    BY <1>1, <2>1 DEF Apart
  <2>3. QED
    BY <1>2, <2>1, <2>2
<1>5. QED
  BY <1>0, <1>3, <1>4 DEF Partition

\* At every moment the tables are sound, provided that no record is resized to 0 pages
\* (the callers of mblock_resize keep at least one).
THEOREM MblockInvariant ==
    ASSUME 0 \notin NewSizes
    PROVE  MblockSpec => []MblockInv
<1>1. MblockInit => MblockInv
  BY MblockStart
<1>2. MblockInv /\ [MblockNext]_mblock_vars => MblockInv'
  BY MblockStep
<1>3. QED
  BY <1>1, <1>2, PTL DEF MblockSpec

\* Whatever is reserved, cut, resized, re-mapped and freed, in whatever order, every page
\* of the machine is in exactly one free block or one record, and the blocks are in order:
\* mblock.c loses no page and gives none away twice.
THEOREM PagesPartitioned ==
    ASSUME 0 \notin NewSizes
    PROVE  MblockSpec => []Partition
  BY MblockInvariant, SoundPartition, PTL

\* A call of mblock.c changes hands of one run of pages, which had one holder before, and
\* of no other page: the tables implement the map of pages.
THEOREM PageMapRefinement ==
    ASSUME 0 \notin NewSizes
    PROVE  MblockSpec => ImplementsPageMap
<1>1. MblockInit => Abstract!Init
  <2> SUFFICES ASSUME MblockInit PROVE Abstract!Init
    OBVIOUS
  <2>1. Sound(info)
    BY MblockStart DEF MblockInv
  <2>2. \A p \in Dram : HolderOf(info, p) \in Mappings \cup {Free}
    <3>1. \A p \in Dram : p \in Int
      BY MapAssumption DEF Dram
    <3>2. QED
      BY <2>1, <3>1, HolderKnown
  <2>3. [p \in Dram |-> HolderOf(info, p)] \in [Dram -> Mappings \cup {Free}]
    BY <2>2
  <2>4. QED
    BY <2>3 DEF Abstract!Init, Abstract!Holders
<1>2. MblockInv /\ [MblockNext]_mblock_vars => [Abstract!Move]_Holding
  BY MblockStep
<1>3. QED
  BY <1>1, <1>2, MblockInvariant, PTL DEF MblockSpec, ImplementsPageMap, Abstract!Spec, Holding
-----------------------------------------------------------------------------
(* Who is served, and from where. *)

\* No block of sound tables has a page of a record, or starts between two of its pages.
LEMMA RecordClear ==
    ASSUME NEW i, Sound(i), NEW t \in 1 .. i.reserved_num, NEW a \in Int, NEW size \in Nat \ {0},
           i.reserved[t].start <= a, a + size <= End(i.reserved[t])
    PROVE  /\ ~Overlaps(i, a, size)
           /\ ~\E b \in Range(i.mblock) : PagesOf(b) \cap a .. (a + size - 1) # {}
<1>1. /\ i.mblock \in Seq(Blocks) /\ Len(i.mblock) \in Nat
      /\ RecordsOK(i.reserved, i.reserved_num)
      /\ i.reserved[t] \in Entries
  BY InfoParts, LiveEntries DEF Sound
<1>2. /\ i.reserved[t].start \in Nat /\ End(i.reserved[t]) \in Nat
      /\ \A p \in Int : p \in PagesOf(i.reserved[t]) <=> i.reserved[t].start <= p /\ p < End(i.reserved[t])
  BY <1>1, EntryFacts
<1>3. \A p \in Int : a <= p /\ p < a + size => p \in PagesOf(i.reserved[t])
  BY <1>2
<1>4. ASSUME NEW b \in Range(i.mblock), NEW p \in Int, p \in PagesOf(b) PROVE ~(a <= p /\ p < a + size)
  <2>1. PICK k \in 1 .. Len(i.mblock) : b = i.mblock[k]
    BY <1>1 DEF Range
  <2>2. FreeAt(i.mblock, p)
    BY <1>4, <2>1 DEF FreeAt
  <2>3. ~Held(i.reserved, i.reserved_num, p)
    BY <2>2 DEF Sound
  <2>4. p \notin PagesOf(i.reserved[t])
    BY <2>3 DEF Held
  <2>5. QED
    BY <1>3, <2>4
<1>5. ASSUME NEW b \in Range(i.mblock) PROVE ~(a < b.start /\ b.start < a + size)
  <2>1. PICK k \in 1 .. Len(i.mblock) : b = i.mblock[k]
    BY <1>1 DEF Range
  <2>2. b \in Blocks /\ b.start \in Int
    BY <1>1, <2>1, BlockFacts
  <2>3. ~(b.start - 1 \in PagesOf(i.reserved[t]) /\ b.start \in PagesOf(i.reserved[t]))
    BY <2>1 DEF Sound, NoStartInside
  <2>4. QED
    BY <1>3, <2>2, <2>3
<1>6. ~Overlaps(i, a, size)
  BY <1>4, <1>5 DEF Overlaps
<1>7. \A p : p \in a .. (a + size - 1) => p \in Int /\ a <= p /\ p < a + size
  OBVIOUS
<1>8. QED
  BY <1>4, <1>6, <1>7

\* mblock_free_with_size serves whoever holds the run, if the table has room for what is
\* left.
LEMMA FreeServes ==
    ASSUME NEW i, Sound(i), NEW t \in 1 .. i.reserved_num, NEW a \in Int, NEW size \in Nat \ {0},
           i.reserved[t].start <= a, a + size <= End(i.reserved[t]),
           Divides(i.reserved[t], a, size) => i.reserved_num < MaxReserved
    PROVE  mblock_free_with_size(i, a, size).ok
<1> DEFINE holds == {k \in 1 .. i.reserved_num :
                        i.reserved[k].start <= a /\ a + size <= End(i.reserved[k])}
<1>1. t \in holds
  OBVIOUS
<1>2. ~Overlaps(i, a, size)
  BY RecordClear
<1>3. /\ i.reserved_num \in Nat /\ MaxReserved \in Nat
      /\ RecordsOK(i.reserved, i.reserved_num)
      /\ \A k \in 1 .. i.reserved_num : i.reserved[k] \in Entries
  BY InfoParts, LiveEntries, MapAssumption DEF Sound
<1>4. PICK u : u = Min(holds)
  OBVIOUS
<1>5. u \in holds
  <2>1. holds \in SUBSET Nat
    BY <1>3
  <2>2. QED
    BY <1>1, <1>4, <2>1, LeastElement
<1>6. u = t
  <2>1. \A k \in holds : a \in PagesOf(i.reserved[k])
    <3> TAKE k \in holds
    <3>1. i.reserved[k].start \in Nat /\ End(i.reserved[k]) \in Nat
      BY <1>3, EntryFacts
    <3>2. a \in PagesOf(i.reserved[k]) <=> i.reserved[k].start <= a /\ a < End(i.reserved[k])
      BY <1>3, EntryFacts
    <3>3. QED
      BY <3>1, <3>2
  <2>2. QED
    BY <1>1, <1>3, <1>5, <2>1 DEF RecordsOK
<1>7. ~(Divides(i.reserved[Min(holds)], a, size) /\ i.reserved_num >= MaxReserved)
  <2>1. PICK rec : rec = i.reserved[t]
    OBVIOUS
  <2>2. i.reserved[Min(holds)] = rec
    BY <1>4, <1>6, <2>1
  <2>3. ~(Divides(rec, a, size) /\ i.reserved_num >= MaxReserved)
    BY <1>3, <2>1
  <2>4. QED
    BY ONLY <2>2, <2>3
<1>8. PICK j : mblock_free_with_size(i, a, size) = OK(j)
  BY <1>1, <1>2, <1>7 DEF mblock_free_with_size
<1>9. QED
  BY <1>8 DEF OK

\* mblock_free serves whoever holds a record from its start.
LEMMA FreeRecordServes ==
    ASSUME NEW i, Sound(i), NEW t \in 1 .. i.reserved_num
    PROVE  mblock_free(i, i.reserved[t].start).ok
<1> DEFINE a == i.reserved[t].start
           mine == {k \in 1 .. i.reserved_num : i.reserved[k].start = a}
<1>1. /\ i.reserved_num \in Nat /\ RecordsOK(i.reserved, i.reserved_num)
      /\ \A k \in 1 .. i.reserved_num : i.reserved[k] \in Entries
  BY InfoParts, LiveEntries DEF Sound
<1>2. mine \in SUBSET Nat /\ t \in mine
  BY <1>1
<1>3. PICK u : u = Min(mine)
  OBVIOUS
<1>4. u \in mine
  BY <1>2, <1>3, LeastElement
<1>5. u \in 1 .. i.reserved_num /\ i.reserved[u].start = a
  BY <1>4
<1>6. mblock_free(i, a) = mblock_free_with_size(i, a, i.reserved[u].size)
  BY <1>2, <1>3 DEF mblock_free
<1> HIDE DEF mine
<1>7. /\ i.reserved[u].size \in Nat /\ i.reserved[u].size # 0 /\ a \in Int
      /\ a + i.reserved[u].size = End(i.reserved[u])
  BY <1>1, <1>5, EntryFacts DEF RecordsOK
<1>8. i.reserved[u].start <= a /\ a + i.reserved[u].size <= End(i.reserved[u])
  BY <1>5, <1>7
<1>9. PICK size, b : size = i.reserved[u].size /\ b = a
  OBVIOUS
<1>10. mblock_free_with_size(i, b, size).ok
  <2>1. ~Divides(i.reserved[u], b, size)
    BY <1>5, <1>9 DEF Divides
  <2>2. QED
    BY <1>5, <1>7, <1>8, <1>9, <2>1, FreeServes
<1>11. QED
  BY <1>6, <1>9, <1>10

\* mblock_resize serves whoever gives the start and the size of a record.
LEMMA ResizeServes ==
    ASSUME NEW i, Sound(i), NEW t \in 1 .. i.reserved_num, NEW newsize \in Nat
    PROVE  mblock_resize(i, i.reserved[t].start, i.reserved[t].size, newsize).ok
<1>0. PICK a, oldsize : a = i.reserved[t].start /\ oldsize = i.reserved[t].size
  OBVIOUS
<1>1. /\ i.reserved_num \in Nat /\ RecordsOK(i.reserved, i.reserved_num)
      /\ i.reserved[t] \in Entries
  BY InfoParts, LiveEntries DEF Sound
<1>2. /\ a \in Int /\ oldsize \in Nat \ {0}
      /\ i.reserved[t].start <= a /\ a + oldsize <= End(i.reserved[t])
  BY <1>0, <1>1, EntryFacts DEF RecordsOK
<1>3. ~\E b \in Range(i.mblock) : PagesOf(b) \cap a .. (a + oldsize - 1) # {}
  BY <1>2, RecordClear
<1> DEFINE mine == {k \in 1 .. i.reserved_num :
                        i.reserved[k].start = a /\ i.reserved[k].size = oldsize}
<1>4. t \in mine
  BY <1>0
<1>5. PICK j : mblock_resize(i, a, oldsize, newsize) = OK(j)
  <2>1. CASE oldsize <= newsize
    BY <2>1 DEF mblock_resize
  <2>2. CASE ~(oldsize <= newsize)
    BY <1>3, <1>4, <2>2 DEF mblock_resize
  <2>3. QED
    BY <2>1, <2>2
<1>6. QED
  BY <1>0, <1>5 DEF OK

\* A run of free pages is in one block: between two blocks there is a page that is not free.
LEMMA RunInBlock ==
    ASSUME NEW s \in Seq(Blocks), Apart(s), NEW a \in Int, NEW size \in Nat \ {0},
           \A p \in Int : InRun(p, a, size) => FreeAt(s, p)
    PROVE  \E k \in 1 .. Len(s) : s[k].start <= a /\ a + size <= End(s[k])
<1>1. \A k \in 1 .. Len(s) : /\ s[k].start \in Int /\ End(s[k]) \in Int
                             /\ \A p \in Int : p \in PagesOf(s[k]) <=> s[k].start <= p /\ p < End(s[k])
  <2>1. \A k \in 1 .. Len(s) : s[k] \in Blocks
    OBVIOUS
  <2>2. QED
    BY <2>1, BlockFacts
<1>2. FreeAt(s, a)
  BY DEF InRun
<1>3. PICK k \in 1 .. Len(s) : s[k].start <= a /\ a < End(s[k])
  BY <1>1, <1>2 DEF FreeAt
<1>4. SUFFICES ASSUME ~(a + size <= End(s[k])) PROVE FALSE
  BY <1>3
<1>5. PICK e : e = End(s[k])
  OBVIOUS
<1>6. e \in Int /\ InRun(e, a, size) /\ s[k].start < e
  BY <1>1, <1>3, <1>4, <1>5 DEF InRun
<1>7. PICK j \in 1 .. Len(s) : s[j].start <= e /\ e < End(s[j])
  BY <1>1, <1>6 DEF FreeAt
<1>8. CASE j < k
  <2>1. End(s[j]) < s[k].start
    BY <1>8 DEF Apart
  <2>2. QED
    BY <1>1, <1>6, <1>7, <2>1
<1>9. CASE k < j
  <2>1. End(s[k]) < s[j].start
    BY <1>9 DEF Apart
  <2>2. QED
    BY <1>1, <1>5, <1>6, <1>7, <2>1
<1>10. CASE j = k
  BY <1>5, <1>6, <1>7, <1>10
<1>11. j \in Int /\ k \in Int
  OBVIOUS
<1>12. QED
  BY <1>8, <1>9, <1>10, <1>11

\* The highest multiple of n up to x.
LEMMA HighestMultiple ==
    ASSUME NEW x \in Nat, NEW n \in Nat \ {0}
    PROVE  /\ (x \div n) * n \in Int /\ (x \div n) * n <= x
           /\ \A a \in Nat : a % n = 0 /\ a <= x => a <= (x \div n) * n
<1>1. n \in Nat /\ n # 0
  OBVIOUS
<1>2. (x \div n) * n \in Int
  <2>1. x \div n \in Int
    BY <1>1
  <2>2. QED
    BY <1>1, <2>1
<1>3. (x \div n) * n <= x
  BY <1>1
<1>4. \A a \in Nat : a % n = 0 /\ a <= x => a <= (x \div n) * n
  BY <1>1
<1>5. QED
  BY <1>2, <1>3, <1>4

\* A multiple of n.
LEMMA MultipleMod ==
    ASSUME NEW z \in Int, NEW n \in Nat, n # 0
    PROVE  (z * n) % n = 0
  OBVIOUS

\* The ceiling is the lower one of the request's limit and the block's end.
LEMMA CeilingIs ==
    ASSUME NEW b \in Blocks, NEW r, Request(r)
    PROVE  /\ Ceiling(b, r) \in Nat /\ Ceiling(b, r) <= r.limit /\ Ceiling(b, r) <= End(b)
           /\ Ceiling(b, r) = r.limit \/ Ceiling(b, r) = End(b)
<1>1. r.limit \in Nat /\ End(b) \in Nat
  BY BlockFacts DEF Request
<1> DEFINE S == {r.limit, End(b)}
<1>2. S \in SUBSET Nat /\ S # {}
  BY <1>1
<1>3. Ceiling(b, r) = Min(S)
  BY DEF Ceiling
<1>4. r.limit \in S /\ End(b) \in S /\ \A x \in S : x = r.limit \/ x = End(b)
  OBVIOUS
<1> HIDE DEF S
<1>5. Min(S) \in S /\ \A x \in S : Min(S) <= x
  BY <1>2, LeastElement
<1>6. QED
  BY <1>1, <1>3, <1>4, <1>5

\* The page a of block b may serve r, by what the caller asked for.
FitsIn(a, b, r) ==
    /\ a \in Nat /\ b.start <= a /\ a + r.size <= End(b)
    /\ r.lower <= a /\ a + r.size <= r.limit
    /\ IF r.expected # 0 THEN a = r.expected ELSE a % r.align = 0

\* Then the place that is tried is at a or above, in the block and between the bounds.
LEMMA PlaceAbove ==
    ASSUME NEW b \in Blocks, NEW r, Request(r), NEW a, FitsIn(a, b, r)
    PROVE  /\ Place(b, r) \in Int /\ a <= Place(b, r) /\ Place(b, r) + r.size <= Ceiling(b, r)
           /\ r.expected # 0 => Place(b, r) = a
<1>1. PICK c, size, n : c = Ceiling(b, r) /\ size = r.size /\ n = r.align
  OBVIOUS
<1>2. /\ c \in Nat /\ (c = r.limit \/ c = End(b)) /\ size \in Nat \ {0} /\ n \in Nat \ {0}
      /\ a \in Nat /\ a + size <= End(b) /\ a + size <= r.limit
      /\ IF r.expected # 0 THEN a = r.expected ELSE a % n = 0
  BY <1>1, CeilingIs DEF Request, FitsIn
<1>3. a + size <= c
  BY <1>2
<1>4. CASE r.expected # 0
  <2>1. Place(b, r) = a
    BY <1>2, <1>4 DEF Place
  <2>2. QED
    BY <1>1, <1>2, <1>3, <2>1
<1>5. CASE r.expected = 0
  <2>1. PICK x : x = c - size
    OBVIOUS
  <2>2. x \in Nat /\ a <= x
    BY <1>2, <1>3, <2>1
  <2>3. PICK q : q = (x \div n) * n
    OBVIOUS
  <2>4. q \in Int /\ q <= x /\ a <= q
    BY <1>2, <1>5, <2>2, <2>3, HighestMultiple
  <2>5. Place(b, r) = q
    BY <1>1, <1>5, <2>1, <2>3 DEF Place
  <2>6. q + size <= c
    BY <1>2, <2>1, <2>4
  <2>7. QED
    BY <1>1, <1>5, <2>4, <2>5, <2>6
<1>6. QED
  BY <1>4, <1>5

\* And mblock_alloc_range_no_lock accepts the block, unless the place crosses a bound.
LEMMA BlockSuits ==
    ASSUME NEW b \in Blocks, NEW r, Request(r), r.lower \in Nat, NEW a, FitsIn(a, b, r),
           ~mblock_cross_bound(Place(b, r), r.size)
    PROVE  Suits(b, r)
<1>1. PICK c, size, q : c = Ceiling(b, r) /\ size = r.size /\ q = Place(b, r)
  OBVIOUS
<1>2. /\ c \in Nat /\ c <= r.limit /\ c <= End(b) /\ (c = r.limit \/ c = End(b))
      /\ size \in Nat \ {0} /\ r.limit \in Nat /\ r.lower \in Nat /\ r.expected \in Nat
  BY <1>1, CeilingIs DEF Request
<1>3. q \in Int /\ a <= q /\ q + size <= c /\ (r.expected # 0 => q = a)
  BY <1>1, PlaceAbove
<1>4. /\ a \in Nat /\ b.start <= a /\ a + size <= End(b)
      /\ r.lower <= a /\ a + size <= r.limit
      /\ r.expected # 0 => a = r.expected
  BY <1>1 DEF FitsIn
<1>5. /\ b.start \in Nat /\ b.size \in Nat /\ End(b) = b.start + b.size /\ End(b) \in Int
      /\ \A p : p \in PagesOf(b) <=> p \in Int /\ b.start <= p /\ p < End(b)
  BY BlockFacts
<1>6. r.expected # 0 => r.expected \in PagesOf(b)
  BY <1>2, <1>4, <1>5
<1>7. size <= b.size /\ b.start < r.limit /\ b.start < c /\ r.lower <= c
      /\ (b.start <= r.lower => r.lower + size <= c)
  BY <1>2, <1>3, <1>4, <1>5
<1>8. b.start <= q /\ q + size <= End(b) /\ r.lower <= q /\ q + size <= r.limit
  BY <1>2, <1>3, <1>4, <1>5
<1>9. QED
  BY <1>1, <1>6, <1>7, <1>8 DEF Suits

\* With a block that suits and clean slots an allocation succeeds, in that block or in a
\* higher one that suits too.
LEMMA AllocServes ==
    ASSUME NEW i, Sound(i), i.reserved_num <= MaxReserved + 1, NEW r, NEW mapping,
           NEW s, s = mblock_merge(i.mblock), NEW k \in 1 .. Len(s), Suits(s[k], r)
    PROVE  \E t \in 1 .. Len(s) : /\ k <= t /\ Suits(s[t], r)
                                  /\ mblock_alloc_range_no_lock(i, r, mapping).ret = Place(s[t], r)
<1>1. /\ i \in Infos /\ i.mblock \in Seq(Blocks) /\ Sorted(i.mblock)
      /\ i.reserved_num \in Nat /\ MaxReserved \in Nat
      /\ RecordsOK(i.reserved, i.reserved_num)
  <2>1. i \in Infos /\ Apart(i.mblock) /\ RecordsOK(i.reserved, i.reserved_num)
    BY DEF Sound
  <2>2. QED
    BY <2>1, InfoParts, ApartSorted, MapAssumption
<1>2. s \in Seq(Blocks) /\ Len(s) \in Nat /\ DOMAIN s = 1 .. Len(s)
  <2>1. s \in Seq(Blocks)
    BY <1>1, MergeBlocks
  <2>2. QED
    BY <2>1
<1> DEFINE suit == {h \in DOMAIN s : Suits(s[h], r)}
<1>3. k \in suit /\ suit \in SUBSET (0 .. Len(s))
  BY <1>2
<1>4. PICK t : t = Max(suit)
  OBVIOUS
<1>5. t \in suit /\ k <= t
  BY <1>2, <1>3, <1>4, GreatestElement
<1>6. i.reserved[i.reserved_num + 1].start = 0
  <2>1. i.reserved_num + 1 \in i.reserved_num + 1 .. MaxReserved + 3
    BY <1>1
  <2>2. QED
    BY <1>1, <2>1 DEF RecordsOK, CleanAfter, NoRecord
<1>7. mblock_alloc_range_no_lock(i, r, mapping).ret = Place(s[t], r)
  <2>1. PICK j : mblock_alloc_range_no_lock(i, r, mapping) = [info |-> j, ret |-> Place(s[t], r)]
    BY <1>3, <1>4, <1>6 DEF mblock_alloc_range_no_lock
  <2>2. QED
    BY <2>1
<1>8. QED
  BY <1>2, <1>5, <1>7

\* mblock_change_map_type serves whoever holds the run, unless the run crosses a bound, if
\* the table has room for what is left.
LEMMA ChangeServes ==
    ASSUME NEW i, Sound(i), i.reserved_num <= MaxReserved, NEW t \in 1 .. i.reserved_num,
           NEW a \in Int, NEW size \in Nat \ {0}, NEW mapping,
           i.reserved[t].start <= a, a + size <= End(i.reserved[t]),
           Divides(i.reserved[t], a, size) => i.reserved_num < MaxReserved,
           ~mblock_cross_bound(a, size)
    PROVE  mblock_change_map_type(i, a, size, mapping).ok
<1>1. PICK f : f = mblock_free_with_size(i, a, size)
  OBVIOUS
<1>2. PICK r : r = [size |-> size, align |-> 1, lower |-> 0, limit |-> 2 * Top, expected |-> a]
  OBVIOUS
<1>3. PICK g : g = mblock_alloc_range_no_lock(f.info, r, mapping)
  OBVIOUS
<1>4. f.ok
  BY <1>1, FreeServes
<1>5. Base \in Nat /\ Base # 0 /\ Top \in Nat /\ MaxReserved \in Nat /\ i.reserved_num \in Nat
  BY MapAssumption, InfoParts DEF Sound
<1>6. Freed(i, f.info, a, size) /\ f.info.reserved_num <= i.reserved_num + 1
  BY <1>1, <1>4, <1>5, FreeRuns
<1>7. /\ Sound(f.info) /\ f.info \in Infos /\ f.info.mblock \in Seq(Blocks) /\ Sorted(f.info.mblock)
      /\ f.info.reserved_num \in Nat /\ f.info.reserved_num <= MaxReserved + 1
  <2>1. Sound(f.info)
    BY <1>6 DEF Freed
  <2>2. f.info \in Infos /\ Apart(f.info.mblock)
    BY <2>1 DEF Sound
  <2>3. f.info.mblock \in Seq(Blocks) /\ f.info.reserved_num \in Nat
    BY <2>2, InfoParts
  <2>4. QED
    BY <1>5, <1>6, <2>1, <2>2, <2>3, ApartSorted
<1>8. PICK s : s = mblock_merge(f.info.mblock)
  OBVIOUS
<1>9. s \in Seq(Blocks) /\ Apart(s) /\ \A p \in Int : FreeAt(s, p) <=> FreeAt(f.info.mblock, p)
  BY ONLY <1>7, <1>8, MergeBlocks
<1>10. \A p \in Int : InRun(p, a, size) => FreeAt(s, p) /\ p \in Dram
  <2> TAKE p \in Int
  <2> HAVE InRun(p, a, size)
  <2>1. \A m : ~HeldBy(f.info, p, m)
    BY <1>6 DEF Freed
  <2>2. ~Held(f.info.reserved, f.info.reserved_num, p)
    BY <2>1, HeldMapped DEF HeldBy
  <2>3. \E m : HeldBy(i, p, m)
    BY <1>6 DEF Freed
  <2>4. Held(i.reserved, i.reserved_num, p)
    BY <2>3, HeldMapped DEF HeldBy
  <2>5. p \in Dram
    BY <2>4 DEF Sound
  <2>6. FreeAt(f.info.mblock, p)
    BY <1>7, <2>2, <2>5 DEF Sound
  <2>7. QED
    BY <1>9, <2>5, <2>6
<1>11. PICK k \in 1 .. Len(s) : s[k].start <= a /\ a + size <= End(s[k])
  BY <1>9, <1>10, RunInBlock
<1>12. a \in Nat /\ a # 0 /\ a + size <= 2 * Top
  <2>1. InRun(a, a, size) /\ InRun(a + size - 1, a, size) /\ a + size - 1 \in Int
    BY DEF InRun
  <2>2. a \in Dram /\ a + size - 1 \in Dram
    BY <1>10, <2>1
  <2>3. QED
    BY <1>5, <2>2 DEF Dram
<1>13. r.size = size /\ r.align = 1 /\ r.lower = 0 /\ r.limit = 2 * Top /\ r.expected = a
  BY <1>2
<1>14. Request(r) /\ r.lower \in Nat
  <2>1. 2 * Top \in Nat
    BY <1>5
  <2>2. QED
    BY <1>12, <1>13, <2>1 DEF Request
<1>15. s[k] \in Blocks
  BY <1>9
<1>16. FitsIn(a, s[k], r)
  BY <1>11, <1>12, <1>13 DEF FitsIn
<1>17. \A b : Place(b, r) = a
  BY <1>12, <1>13 DEF Place
<1>18. Suits(s[k], r)
  BY <1>13, <1>14, <1>15, <1>16, <1>17, BlockSuits
<1>19. \E h \in 1 .. Len(s) : k <= h /\ Suits(s[h], r) /\ g.ret = Place(s[h], r)
  <2>1. PICK j : j = f.info
    OBVIOUS
  <2>2. Sound(j) /\ j.reserved_num <= MaxReserved + 1 /\ s = mblock_merge(j.mblock)
    BY <1>7, <1>8, <2>1
  <2>3. \E h \in 1 .. Len(s) : /\ k <= h /\ Suits(s[h], r)
                               /\ mblock_alloc_range_no_lock(j, r, mapping).ret = Place(s[h], r)
    BY ONLY <1>18, <2>2, AllocServes, k \in 1 .. Len(s), SMTT(30)
  <2>4. QED
    BY <1>3, <2>1, <2>3
<1>20. g.ret = a
  BY <1>17, <1>19
<1>21. mblock_change_map_type(i, a, size, mapping) = OK(g.info)
  BY <1>1, <1>2, <1>3, <1>4, <1>20 DEF mblock_change_map_type
<1>22. QED
  BY <1>21 DEF OK

\* Whoever holds pages in sound tables is served.
LEMMA SoundServes ==
    MblockInv => HolderIsServed
<1> SUFFICES ASSUME MblockInv, NEW rec \in Records(info)
             PROVE  /\ mblock_free(info, rec.start).ok
                    /\ \A n \in NewSizes : mblock_resize(info, rec.start, rec.size, n).ok
                    /\ \A a \in PagesOf(rec), size \in 1 .. MaxPages :
                        a + size <= End(rec) =>
                            /\ /\ ~mblock_cross_bound(a, size)
                               /\ info.reserved_num + Remains(rec, a, size) <= MaxReserved
                               => mblock_change_map_type(info, a, size, rec.mapping).ok
                            /\ /\ \E other \in Records(info) : other.start >= a
                               /\ Divides(rec, a, size) => Room
                               => mblock_free_partial(info, a, size).ok
  BY DEF HolderIsServed
<1>1. Sound(info) /\ info.reserved_num <= MaxReserved
  BY DEF MblockInv
<1>2. PICK t \in 1 .. info.reserved_num : rec = info.reserved[t]
  BY <1>1, RecordsLive
<1>3. mblock_free(info, rec.start).ok
  BY <1>1, <1>2, FreeRecordServes
<1>4. ASSUME NEW n \in NewSizes PROVE mblock_resize(info, rec.start, rec.size, n).ok
  <2>1. n \in Nat
    BY MapAssumption
  <2>2. QED
    BY <1>1, <1>2, <2>1, ResizeServes
<1>5. ASSUME NEW a \in PagesOf(rec), NEW size \in 1 .. MaxPages, a + size <= End(rec)
      PROVE  /\ /\ ~mblock_cross_bound(a, size)
                /\ info.reserved_num + Remains(rec, a, size) <= MaxReserved
                => mblock_change_map_type(info, a, size, rec.mapping).ok
             /\ /\ \E other \in Records(info) : other.start >= a
                /\ Divides(rec, a, size) => Room
                => mblock_free_partial(info, a, size).ok
  <2>1. \A q \in Records(info) : q \in Entries /\ q.size # 0
    <3>1. RecordsOK(info.reserved, info.reserved_num)
      BY <1>1 DEF Sound
    <3>2. QED
      BY <1>1, <3>1, RecordsLive, LiveEntries DEF RecordsOK
  <2>2. \A q \in Records(info) : /\ q.start \in Nat /\ End(q) \in Nat /\ q.start < End(q)
                                 /\ \A p : p \in PagesOf(q) <=> p \in Int /\ q.start <= p /\ p < End(q)
    <3> TAKE q \in Records(info)
    <3>1. /\ q.start \in Nat /\ q.size \in Nat /\ End(q) \in Nat /\ End(q) = q.start + q.size
          /\ \A p : p \in PagesOf(q) <=> p \in Int /\ q.start <= p /\ p < End(q)
      BY <2>1, EntryFacts
    <3>2. q.size # 0
      BY <2>1
    <3>3. QED
      BY <3>1, <3>2
  <2>3. a \in Int /\ size \in Nat \ {0} /\ rec.start <= a
    BY <2>2, MapAssumption
  <2>4. info.reserved[t].start <= a /\ a + size <= End(info.reserved[t])
    BY <1>2, <1>5, <2>3
  <2>5. ASSUME ~mblock_cross_bound(a, size),
               info.reserved_num + Remains(rec, a, size) <= MaxReserved
        PROVE  mblock_change_map_type(info, a, size, rec.mapping).ok
    <3>1. info.reserved_num \in Nat /\ MaxReserved \in Nat
      BY <1>1, InfoParts, MapAssumption DEF Sound
    <3>2. Divides(info.reserved[t], a, size) => info.reserved_num < MaxReserved
      BY <1>2, <2>5, <3>1 DEF Divides, Remains
    <3>3. QED
      BY <1>1, <2>3, <2>4, <2>5, <3>2, ChangeServes
  <2>6. ASSUME NEW other \in Records(info), other.start >= a, Divides(rec, a, size) => Room
        PROVE  mblock_free_partial(info, a, size).ok
    <3>1. other.start >= a /\ a < End(other)
      BY <2>2, <2>3, <2>6
    <3>2. mblock_free_partial(info, a, size) = mblock_free_with_size(info, a, size)
      BY <3>1 DEF mblock_free_partial
    <3>3. mblock_free_with_size(info, a, size).ok
      BY <1>1, <1>2, <2>3, <2>4, <2>6, FreeServes DEF Room
    <3>4. QED
      BY <3>2, <3>3
  <2>7. QED
    BY <2>5, <2>6
<1>6. QED
  BY <1>3, <1>4, <1>5

\* In sound tables an allocation takes the highest place that fits.
LEMMA SoundAllocates ==
    MblockInv => AllocHighest
<1> SUFFICES ASSUME MblockInv, NEW r \in Requests, Room, NEW a \in Fits(r)
             PROVE  mblock_alloc_range_no_lock(info, r, Free).ret >= a
  BY DEF AllocHighest
<1>1. /\ Sound(info) /\ info.reserved_num \in Nat /\ info.reserved_num <= MaxReserved + 1
      /\ info \in Infos /\ info.mblock \in Seq(Blocks) /\ Sorted(info.mblock)
  <2>1. Sound(info) /\ info.reserved_num <= MaxReserved
    BY DEF MblockInv
  <2>2. info \in Infos /\ Apart(info.mblock)
    BY <2>1 DEF Sound
  <2>3. info.mblock \in Seq(Blocks) /\ info.reserved_num \in Nat /\ MaxReserved \in Nat
    BY <2>2, InfoParts, MapAssumption
  <2>4. QED
    BY <2>1, <2>2, <2>3, ApartSorted
<1>2. PICK s : s = mblock_merge(info.mblock)
  OBVIOUS
<1>3. s \in Seq(Blocks) /\ Apart(s)
  BY ONLY <1>1, <1>2, MergeBlocks
<1>4. Request(r) /\ r.lower \in Nat
  BY MapAssumption DEF Request
<1>5. PICK b \in Range(s) : /\ a \in Places(b, r)
                            /\ ~mblock_cross_bound(Max(Places(b, r)), r.size)
  BY <1>2 DEF Fits, FreeBlocks
<1>6. \A x \in Places(b, r) :
          /\ x \in Dram /\ x .. (x + r.size - 1) \subseteq PagesOf(b)
          /\ r.lower <= x /\ x + r.size <= r.limit
          /\ IF r.expected # 0 THEN x = r.expected ELSE x % r.align = 0
  BY DEF Places
<1>7. PICK k \in 1 .. Len(s) : b = s[k]
  BY <1>3, <1>5 DEF Range
<1>8. /\ b \in Blocks /\ b.start \in Int /\ End(b) \in Int
      /\ \A p : p \in PagesOf(b) <=> p \in Int /\ b.start <= p /\ p < End(b)
  BY <1>3, <1>7, BlockFacts
<1>9. r.size \in Nat \ {0} /\ \A x \in Places(b, r) : x \in Nat /\ x <= Top
  BY <1>4, <1>6, MapAssumption DEF Dram, Request
<1>10. ASSUME NEW x \in Places(b, r) PROVE b.start <= x /\ x + r.size <= End(b)
  <2>1. PICK e : e = x + r.size - 1
    OBVIOUS
  <2>2. x \in Nat /\ e \in Int /\ x \in x .. e /\ e \in x .. e
    BY <1>9, <2>1
  <2>3. x \in PagesOf(b) /\ e \in PagesOf(b)
    BY <1>6, <2>1, <2>2
  <2>4. QED
    BY <1>8, <1>9, <2>1, <2>2, <2>3
<1>11. \A x \in Places(b, r) : FitsIn(x, b, r)
  BY <1>6, <1>9, <1>10 DEF FitsIn
<1>12. \A x \in Places(b, r) : /\ Place(b, r) \in Int /\ x <= Place(b, r)
                               /\ Place(b, r) + r.size <= Ceiling(b, r)
                               /\ r.expected # 0 => Place(b, r) = x
  BY <1>4, <1>8, <1>11, PlaceAbove
<1>13. ~mblock_cross_bound(Place(b, r), r.size)
  <2>1. PICK q : q = Place(b, r)
    OBVIOUS
  <2>2. /\ q \in Int /\ a <= q /\ q + r.size <= Ceiling(b, r)
        /\ a \in Nat /\ b.start <= a /\ r.lower <= a /\ r.lower \in Nat
    BY <1>4, <1>5, <1>6, <1>9, <1>10, <1>12, <2>1
  <2>3. Ceiling(b, r) \in Nat /\ Ceiling(b, r) <= r.limit /\ Ceiling(b, r) <= End(b)
    BY <1>4, <1>8, CeilingIs
  <2>4. q .. (q + r.size - 1) \subseteq PagesOf(b)
    BY <1>8, <1>9, <2>2, <2>3
  <2>5. r.lower <= q /\ q + r.size <= r.limit
    BY <1>4, <1>9, <2>2, <2>3 DEF Request
  <2>6. IF r.expected # 0 THEN q = r.expected ELSE q % r.align = 0
    <3>1. CASE r.expected # 0
      BY <2>1, <3>1 DEF Place
    <3>2. CASE r.expected = 0
      <4>1. PICK n, z : n = r.align /\ z = (Ceiling(b, r) - r.size) \div n
        OBVIOUS
      <4>2. n \in Nat /\ n # 0 /\ q = z * n
        BY <1>4, <2>1, <3>2, <4>1 DEF Place, Request
      <4>3. z \in Int
        BY <1>9, <2>3, <4>1, <4>2
      <4>4. (z * n) % n = 0
        BY ONLY <4>2, <4>3, MultipleMod
      <4>5. QED
        BY <3>2, <4>1, <4>2, <4>4
    <3>3. QED
      BY <3>1, <3>2
  <2>7. q \in Dram
    <3>1. q \in PagesOf(b)
      BY <1>9, <2>2, <2>4
    <3>2. FreeAt(s, q)
      BY <1>7, <3>1 DEF FreeAt
    <3>3. FreeAt(info.mblock, q)
      BY ONLY <1>1, <1>2, <2>2, <3>2, MergeBlocks
    <3>4. QED
      BY <1>1, <2>2, <3>3 DEF Sound
  <2>8. q \in Places(b, r)
    BY <2>4, <2>5, <2>6, <2>7 DEF Places
  <2>9. Max(Places(b, r)) = q
    <3> DEFINE S == Places(b, r)
    <3>1. S \in SUBSET (0 .. Top) /\ Top \in Nat
      BY <1>9, MapAssumption
    <3>2. \A x \in S : x <= q
      BY <1>12, <2>1
    <3> HIDE DEF S
    <3>3. Max(S) \in S /\ \A x \in S : x <= Max(S)
      BY <2>8, <3>1, GreatestElement DEF S
    <3>4. QED
      BY <2>2, <2>8, <3>1, <3>2, <3>3 DEF S
  <2>10. QED
    BY <1>5, <2>1, <2>9
<1>14. Suits(s[k], r)
  BY <1>4, <1>5, <1>7, <1>8, <1>11, <1>13, BlockSuits
<1>15. PICK t \in 1 .. Len(s) : /\ k <= t /\ Suits(s[t], r)
                                /\ mblock_alloc_range_no_lock(info, r, Free).ret = Place(s[t], r)
  <2>1. PICK j : j = info
    OBVIOUS
  <2>2. Sound(j) /\ j.reserved_num <= MaxReserved + 1 /\ s = mblock_merge(j.mblock)
    BY <1>1, <1>2, <2>1
  <2>3. \E h \in 1 .. Len(s) : /\ k <= h /\ Suits(s[h], r)
                               /\ mblock_alloc_range_no_lock(j, r, Free).ret = Place(s[h], r)
    BY ONLY <1>14, <2>2, AllocServes, k \in 1 .. Len(s), SMTT(30)
  <2>4. QED
    BY <2>1, <2>3
<1>16. CASE t = k
  BY <1>5, <1>7, <1>9, <1>12, <1>15, <1>16
<1>17. CASE t # k
  <2>1. k < t
    BY <1>15, <1>17
  <2>2. End(b) < s[t].start
    BY <1>3, <1>7, <2>1 DEF Apart
  <2>3. s[t] \in Blocks /\ s[t].start \in Int
    BY <1>3, BlockFacts
  <2>4. s[t].start <= Place(s[t], r) /\ Place(s[t], r) \in Int
    BY <1>4, <1>15, <2>3, PlaceIsPage DEF Suits
  <2>5. QED
    BY <1>5, <1>8, <1>9, <1>10, <1>15, <2>2, <2>3, <2>4
<1>18. QED
  BY <1>16, <1>17

\* Whatever calls have come before, as long as the table has room for the records it takes,
\* the holder of a record can free it (mblock_free), shrink it (mblock_resize), map a part
\* that crosses no bound anew (mblock_change_map_type) and, if some record starts at the
\* part or above, give the part back (mblock_free_partial).
THEOREM HoldersServed ==
    ASSUME 0 \notin NewSizes
    PROVE  MblockSpec => []HolderIsServed
  BY MblockInvariant, SoundServes, PTL

\* While there is room in the table of records, mblock_alloc_range_no_lock takes the highest
\* place in the free blocks that it does not pass over, and does not fail if they have one,
\* whatever calls have come before.  It passes over a block whose highest place crosses a
\* power of two above 4G, though there may be a lower place in it.
THEOREM HighestAllocated ==
    ASSUME 0 \notin NewSizes
    PROVE  MblockSpec => []AllocHighest
  BY MblockInvariant, SoundAllocates, PTL
-----------------------------------------------------------------------------
(* What the kernel is told. *)

\* The pages of the first n of some blocks or records.
PagesUpTo(s, n) == {p \in Int : \E k \in 1 .. n : p \in PagesOf(s[k])}

\* The sizes of blocks or records with no page in common add up to the number of pages.
LEMMA SumIsPages ==
    ASSUME NEW s, NEW n \in Nat, Len(s) = n,
           \A k \in 1 .. n : s[k].start \in Nat /\ s[k].size \in Nat,
           \A j, k \in 1 .. n, p \in Int : p \in PagesOf(s[j]) /\ p \in PagesOf(s[k]) => j = k
    PROVE  IsFiniteSet(PagesUpTo(s, n)) /\ Sum(s) = Cardinality(PagesUpTo(s, n))
<1> DEFINE Step(q, i) == IF i = 0 THEN 0 ELSE q[i - 1] + s[i].size
           IsFold(q, m) == q = [i \in 0 .. m |-> Step(q, i)]
<1>1. \E q : IsFold(q, n)
  <2> DEFINE E == {m \in Nat : \E q : IsFold(q, m)}
  <2>1. 0 \in E
    <3> DEFINE q == [i \in 0 .. 0 |-> 0]
    <3>1. q = [i \in 0 .. 0 |-> Step(q, i)]
      OBVIOUS
    <3>2. QED
      BY <3>1
  <2>2. ASSUME NEW m \in E PROVE m + 1 \in E
    <3>1. PICK g : IsFold(g, m)
      OBVIOUS
    <3> DEFINE h == [i \in 0 .. m + 1 |-> IF i <= m THEN g[i] ELSE Step(g, i)]
    <3>2. m \in Nat
      OBVIOUS
    <3>3. ASSUME NEW i \in 0 .. m + 1 PROVE h[i] = Step(g, i)
      <4> HIDE DEF Step
      <4>1. CASE i <= m
        <5>1. i \in 0 .. m
          BY <3>2, <4>1
        <5>2. QED
          BY <3>1, <4>1, <5>1
      <4>2. CASE ~(i <= m)
        BY <4>2
      <4>3. QED
        BY <4>1, <4>2
    <3>4. ASSUME NEW i \in 0 .. m + 1 PROVE h[i] = Step(h, i)
      <4>1. CASE i = 0
        BY <3>3, <4>1
      <4>2. CASE i # 0
        <5>1. i - 1 \in 0 .. m /\ i - 1 <= m /\ i - 1 \in 0 .. m + 1
          BY <3>2, <4>2
        <5>2. h[i - 1] = g[i - 1]
          BY <5>1
        <5>3. QED
          BY <3>3, <5>2
      <4>3. QED
        BY <4>1, <4>2
    <3>5. h = [i \in 0 .. m + 1 |-> Step(h, i)]
      <4> HIDE DEF Step
      <4>1. [i \in 0 .. m + 1 |-> IF i <= m THEN g[i] ELSE Step(g, i)]
              = [i \in 0 .. m + 1 |-> Step(h, i)]
        BY <3>4
      <4>2. QED
        BY <4>1
    <3>6. IsFold(h, m + 1)
      BY <3>5
    <3> HIDE DEF IsFold, h
    <3>7. QED
      BY <3>2, <3>6
  <2>3. E \in SUBSET Nat
    OBVIOUS
  <2> HIDE DEF E
  <2>4. E = Nat
    BY <2>1, <2>2, <2>3, SetInduction
  <2> USE DEF E
  <2> HIDE DEF IsFold
  <2>5. QED
    BY <2>4
<1> DEFINE q == CHOOSE q : IsFold(q, n)
<1>2. IsFold(q, n)
  <2> HIDE DEF IsFold
  <2>1. QED
    BY <1>1
<1>3. Sum(s) = q[n]
  BY DEF Sum
<1> HIDE DEF q
<1>4. \A i \in 0 .. n : q[i] = Step(q, i)
  BY <1>2
<1> DEFINE G == {i \in Nat : i <= n => /\ IsFiniteSet(PagesUpTo(s, i))
                                       /\ q[i] = Cardinality(PagesUpTo(s, i))}
<1>5. 0 \in G
  <2>1. q[0] = 0
    BY <1>4
  <2>2. PagesUpTo(s, 0) = {}
    <3>1. \A k : k \notin 1 .. 0
      OBVIOUS
    <3>2. QED
      BY <3>1 DEF PagesUpTo
  <2>3. QED
    BY <2>1, <2>2, FS_EmptySet
<1>6. ASSUME NEW i \in G PROVE i + 1 \in G
  <2> SUFFICES ASSUME i + 1 <= n
               PROVE  /\ IsFiniteSet(PagesUpTo(s, i + 1))
                      /\ q[i + 1] = Cardinality(PagesUpTo(s, i + 1))
    OBVIOUS
  <2>1. i \in Nat /\ i <= n /\ i + 1 \in 1 .. n /\ i + 1 \in 0 .. n /\ i + 1 # 0 /\ (i + 1) - 1 = i
    OBVIOUS
  <2>2. PICK b : b = s[i + 1]
    OBVIOUS
  <2>3. PICK A : A = PagesUpTo(s, i)
    OBVIOUS
  <2>4. IsFiniteSet(A) /\ q[i] = Cardinality(A) /\ Cardinality(A) \in Nat
    <3>1. IsFiniteSet(A) /\ q[i] = Cardinality(A)
      BY <2>1, <2>3
    <3>2. QED
      BY <3>1, FS_CardinalityType
  <2>5. q[i + 1] = q[i] + b.size
    BY <1>4, <2>1, <2>2
  <2>6. b.start \in Nat /\ b.size \in Nat /\ End(b) = b.start + b.size
    BY <2>1, <2>2 DEF End
  <2>7. IsFiniteSet(PagesOf(b)) /\ Cardinality(PagesOf(b)) = b.size
    <3>1. b.start \in Int /\ End(b) - 1 \in Int
      BY <2>6
    <3>2. /\ IsFiniteSet(PagesOf(b))
          /\ Cardinality(PagesOf(b)) = IF b.start > End(b) - 1 THEN 0 ELSE End(b) - 1 - b.start + 1
      BY <3>1, FS_Interval DEF PagesOf
    <3>3. QED
      BY <2>6, <3>2
  <2>8. PagesUpTo(s, i + 1) = A \cup PagesOf(b)
    <3>1. \A j : j \in 1 .. i + 1 <=> j = i + 1 \/ j \in 1 .. i
      BY <2>1
    <3>2. \A p : p \in PagesOf(b) => p \in Int
      BY <2>6 DEF PagesOf
    <3>3. QED
      BY <2>2, <2>3, <3>1, <3>2 DEF PagesUpTo
  <2>9. A \cap PagesOf(b) = {}
    <3> SUFFICES ASSUME NEW p \in A, p \in PagesOf(b) PROVE FALSE
      OBVIOUS
    <3>1. p \in Int /\ \E k \in 1 .. i : p \in PagesOf(s[k])
      BY <2>3 DEF PagesUpTo
    <3>2. PICK k \in 1 .. i : p \in PagesOf(s[k])
      BY <3>1
    <3>3. k \in 1 .. n /\ k # i + 1
      BY <2>1
    <3>4. QED
      BY <2>1, <2>2, <3>1, <3>2, <3>3
  <2>10. /\ IsFiniteSet(A \cup PagesOf(b))
         /\ Cardinality(A \cup PagesOf(b)) = Cardinality(A) + Cardinality(PagesOf(b)) - Cardinality({})
    BY <2>4, <2>7, <2>9, FS_Union
  <2>11. Cardinality({}) = 0
    BY FS_EmptySet
  <2>12. IsFiniteSet(PagesUpTo(s, i + 1))
    BY ONLY <2>8, <2>10
  <2>13. PICK c, d : c = Cardinality(A) /\ d = Cardinality(PagesUpTo(s, i + 1))
    OBVIOUS
  <2>14. d = c + b.size - 0 /\ q[i + 1] = c + b.size /\ c \in Nat
    BY ONLY <2>4, <2>5, <2>7, <2>8, <2>10, <2>11, <2>13
  <2>15. q[i + 1] = d
    BY ONLY <2>6, <2>14
  <2>16. QED
    BY ONLY <2>12, <2>13, <2>15
<1>7. G \in SUBSET Nat
  OBVIOUS
<1> HIDE DEF G
<1>8. G = Nat
  BY <1>5, <1>6, <1>7, SetInduction
<1> USE DEF G
<1>9. QED
  BY <1>3, <1>8

\* The blocks of sound tables.
LEMMA SoundBlocks ==
    ASSUME NEW i, Sound(i), NEW s, s = i.mblock
    PROVE  /\ s \in Seq(Blocks) /\ Len(s) \in Nat /\ 1 \in 1 .. Len(s) /\ Len(s) \in 1 .. Len(s)
           /\ \A k \in 1 .. Len(s) : /\ s[k] \in Blocks /\ s[k].start \in Nat /\ s[k].size \in Nat
                                     /\ End(s[k]) = s[k].start + s[k].size
                                     /\ Base <= s[k].start /\ End(s[k]) <= Top
                                     /\ \A p \in Int : p \in PagesOf(s[k]) <=> s[k].start <= p /\ p < End(s[k])
           /\ \A j, k \in 1 .. Len(s) : j < k => End(s[j]) < s[k].start
<1>1. s \in Seq(Blocks) /\ Len(s) \in Nat /\ Len(s) # 0 /\ Inside(s) /\ DOMAIN s = 1 .. Len(s)
      /\ \A k \in 1 .. Len(s) : s[k] \in Blocks
  BY InfoParts DEF Sound, Inside
<1>2. \A j, k \in 1 .. Len(s) : j < k => End(s[j]) < s[k].start
  BY DEF Sound, Apart
<1>3. ASSUME NEW k \in 1 .. Len(s)
      PROVE  /\ s[k] \in Blocks /\ s[k].start \in Nat /\ s[k].size \in Nat
             /\ End(s[k]) = s[k].start + s[k].size
             /\ Base <= s[k].start /\ End(s[k]) <= Top
             /\ \A p \in Int : p \in PagesOf(s[k]) <=> s[k].start <= p /\ p < End(s[k])
  <2>0. PICK b : b = s[k]
    OBVIOUS
  <2>1. /\ b \in Blocks /\ b.start \in Nat /\ b.size \in Nat /\ End(b) = b.start + b.size
        /\ \A p \in Int : p \in PagesOf(b) <=> b.start <= p /\ p < End(b)
    <3>1. b \in Blocks
      BY <1>1, <2>0
    <3>2. QED
      BY <3>1, BlockFacts
  <2>2. b.start \in Base .. Top /\ Base \in Nat /\ Top \in Nat
    BY <1>1, <2>0, MapAssumption DEF Inside
  <2>3. CASE b.size = 0
    BY <2>0, <2>1, <2>2, <2>3
  <2>4. CASE b.size # 0
    <3>1. End(b) - 1 \in Int /\ End(b) - 1 \in PagesOf(b)
      BY <2>1, <2>4
    <3>2. FreeAt(s, End(b) - 1)
      BY <2>0, <3>1 DEF FreeAt
    <3>3. End(b) - 1 \in Dram
      BY <3>1, <3>2 DEF Sound
    <3>4. End(b) <= Top
      BY <2>1, <2>2, <3>3 DEF Dram
    <3>5. QED
      BY <2>0, <2>1, <2>2, <3>4
  <2>5. QED
    BY <2>3, <2>4
<1>4. QED
  BY <1>1, <1>2, <1>3

\* The records of sound tables.
LEMMA SoundRecords ==
    ASSUME NEW i, Sound(i), NEW res, res = i.reserved, NEW n, n = i.reserved_num
    PROVE  /\ n \in Nat /\ res[n + 1] = NoRecord
           /\ \A k \in 1 .. n : /\ res[k].start \in Nat /\ res[k].size \in Nat
                                 /\ End(res[k]) = res[k].start + res[k].size
                                 /\ Base <= res[k].start /\ End(res[k]) <= Top
                                 /\ \A p \in Int : p \in PagesOf(res[k]) <=> res[k].start <= p /\ p < End(res[k])
           /\ \A j, k \in 1 .. n, p \in Int : p \in PagesOf(res[j]) /\ p \in PagesOf(res[k]) => j = k
<1>1. RecordsOK(res, n) /\ MaxReserved \in Nat /\ n \in 0 .. MaxReserved + 2
  BY MapAssumption DEF Sound, RecordsOK
<1>2. n \in Nat /\ n + 1 \in n + 1 .. MaxReserved + 3
  BY <1>1
<1>3. res[n + 1] = NoRecord
  BY <1>1, <1>2 DEF RecordsOK, CleanAfter
<1>4. ASSUME NEW k \in 1 .. n
      PROVE  /\ res[k].start \in Nat /\ res[k].size \in Nat
             /\ End(res[k]) = res[k].start + res[k].size
             /\ Base <= res[k].start /\ End(res[k]) <= Top
             /\ \A p \in Int : p \in PagesOf(res[k]) <=> res[k].start <= p /\ p < End(res[k])
  <2>0. PICK b : b = res[k]
    OBVIOUS
  <2>1. b \in Entries /\ b.size # 0
    <3>1. k \in 1 .. MaxReserved + 3
      BY <1>1
    <3>2. QED
      BY <1>1, <2>0, <3>1 DEF RecordsOK, Tables
  <2>2. /\ b.start \in Nat /\ b.size \in Nat /\ End(b) = b.start + b.size
        /\ \A p \in Int : p \in PagesOf(b) <=> b.start <= p /\ p < End(b)
    BY <2>1, EntryFacts
  <2>3. b.start \in PagesOf(b) /\ End(b) - 1 \in PagesOf(b) /\ b.start \in Int /\ End(b) - 1 \in Int
    BY <2>1, <2>2
  <2>4. Held(res, n, b.start) /\ Held(res, n, End(b) - 1)
    BY <2>0, <2>3 DEF Held
  <2>5. b.start \in Dram /\ End(b) - 1 \in Dram
    BY <2>3, <2>4 DEF Sound
  <2>6. Base <= b.start /\ End(b) <= Top
    BY <2>2, <2>5, MapAssumption DEF Dram
  <2>7. QED
    BY <2>0, <2>2, <2>6
<1>5. QED
  BY <1>1, <1>2, <1>3, <1>4 DEF RecordsOK

\* The sizes add up to the memory.
LEMMA SoundSize ==
    ASSUME NEW i, Sound(i)
    PROVE  mblock_get_memory_size(i) = Top - Base
<1>0. PICK s, res, n, live : s = i.mblock /\ res = i.reserved /\ n = i.reserved_num /\ live = Live(i)
  OBVIOUS
<1>1. live = SubSeq(res, 1, n)
  BY <1>0 DEF Live
<1>2. n \in Nat /\ Len(live) = n /\ \A k \in 1 .. n : live[k] = res[k]
  <2>1. MaxReserved \in Nat /\ n \in Nat /\ n <= MaxReserved + 2 /\ res \in [1 .. MaxReserved + 3 -> Entries]
    BY <1>0, MapAssumption DEF Sound, RecordsOK, Tables
  <2>2. res \in Seq(Entries) /\ Len(res) = MaxReserved + 3
    BY <2>1
  <2>3. 1 \in 1 .. Len(res) + 1 /\ n \in 1 - 1 .. Len(res)
    BY <2>1, <2>2
  <2>4. QED
    BY <1>1, <2>1, <2>2, <2>3, SubSeqProperties
<1>3. /\ Len(s) \in Nat /\ \A k \in 1 .. Len(s) : s[k].start \in Nat /\ s[k].size \in Nat
      /\ \A j, k \in 1 .. Len(s), p \in Int : p \in PagesOf(s[j]) /\ p \in PagesOf(s[k]) => j = k
  <2>1. /\ Len(s) \in Nat /\ \A k \in 1 .. Len(s) : s[k].start \in Nat /\ s[k].size \in Nat
                                    /\ End(s[k]) = s[k].start + s[k].size
                                    /\ \A p \in Int : p \in PagesOf(s[k]) <=> s[k].start <= p /\ p < End(s[k])
        /\ \A j, k \in 1 .. Len(s) : j < k => End(s[j]) < s[k].start
    BY <1>0, SoundBlocks
  <2>2. ASSUME NEW j \in 1 .. Len(s), NEW k \in 1 .. Len(s), NEW p \in Int,
               p \in PagesOf(s[j]), p \in PagesOf(s[k]), j < k
        PROVE  FALSE
    <3>1. p < End(s[j]) /\ End(s[j]) < s[k].start /\ s[k].start <= p
      BY <2>1, <2>2
    <3>2. End(s[j]) \in Int /\ s[k].start \in Int
      BY <2>1
    <3>3. QED
      BY <3>1, <3>2
  <2>3. \A j, k \in 1 .. Len(s) : j = k \/ j < k \/ k < j
    BY <2>1
  <2>4. QED
    BY <2>1, <2>2, <2>3
<1>4. IsFiniteSet(PagesUpTo(s, Len(s))) /\ Sum(s) = Cardinality(PagesUpTo(s, Len(s)))
  BY ONLY <1>3, SumIsPages
<1>5. /\ \A k \in 1 .. n : live[k].start \in Nat /\ live[k].size \in Nat
      /\ \A j, k \in 1 .. n, p \in Int : p \in PagesOf(live[j]) /\ p \in PagesOf(live[k]) => j = k
  <2>1. /\ \A k \in 1 .. n : res[k].start \in Nat /\ res[k].size \in Nat
        /\ \A j, k \in 1 .. n, p \in Int : p \in PagesOf(res[j]) /\ p \in PagesOf(res[k]) => j = k
    BY <1>0, SoundRecords
  <2>2. QED
    BY <1>2, <2>1
<1>6. IsFiniteSet(PagesUpTo(live, n)) /\ Sum(live) = Cardinality(PagesUpTo(live, n))
  BY ONLY <1>2, <1>5, SumIsPages
<1>7. \A p \in Int : /\ p \in PagesUpTo(s, Len(s)) <=> FreeAt(s, p)
                     /\ p \in PagesUpTo(live, n) <=> Held(res, n, p)
  BY <1>2 DEF PagesUpTo, FreeAt, Held
<1>8. PagesUpTo(s, Len(s)) \cup PagesUpTo(live, n) = Dram /\ PagesUpTo(s, Len(s)) \cap PagesUpTo(live, n) = {}
  <2>1. \A p \in Int : /\ FreeAt(s, p) \/ Held(res, n, p) <=> p \in Dram
                       /\ ~(FreeAt(s, p) /\ Held(res, n, p))
    BY <1>0 DEF Sound
  <2>2. \A p : (p \in PagesUpTo(s, Len(s)) => p \in Int) /\ (p \in PagesUpTo(live, n) => p \in Int) /\ (p \in Dram => p \in Int)
    BY MapAssumption DEF PagesUpTo, Dram
  <2>3. QED
    BY ONLY <1>7, <2>1, <2>2
<1>9. Cardinality(Dram) = Sum(s) + Sum(live) - Cardinality({})
  BY <1>4, <1>6, <1>8, FS_Union
<1>10. Cardinality({}) = 0 /\ Sum(s) \in Nat /\ Sum(live) \in Nat
  BY <1>4, <1>6, FS_EmptySet, FS_CardinalityType
<1>11. Cardinality(Dram) = Top - Base
  <2>1. Base \in Int /\ Top - 1 \in Int /\ Base < Top /\ Top \in Int
    BY MapAssumption
  <2>2. Cardinality(Dram) = IF Base > Top - 1 THEN 0 ELSE Top - 1 - Base + 1
    BY <2>1, FS_Interval DEF Dram
  <2>3. QED
    BY <2>1, <2>2
<1>12. mblock_get_memory_size(i) = Sum(s) + Sum(live)
  BY <1>0 DEF mblock_get_memory_size
<1>13. QED
  BY <1>9, <1>10, <1>11, <1>12

\* An element below all others is the least.
LEMMA LeastIs ==
    ASSUME NEW S \in SUBSET Nat, NEW x \in S, \A y \in S : x <= y
    PROVE  Min(S) = x
<1>1. PICK m : m = Min(S)
  OBVIOUS
<1>2. m \in S /\ m <= x
  BY <1>1, LeastElement
<1>3. m = x
  BY <1>2
<1>4. QED
  BY <1>1, <1>3

\* A bound that is reached is the greatest.
LEMMA GreatestIs ==
    ASSUME NEW n \in Nat, NEW S \in SUBSET (0 .. n), n \in S
    PROVE  Max(S) = n
<1>1. PICK m : m = Max(S)
  OBVIOUS
<1>2. m \in S /\ n <= m
  BY <1>1, GreatestElement
<1>3. m = n
  BY <1>2
<1>4. QED
  BY <1>1, <1>3

\* The first block or a record starts at the first page of the memory, and the last block
\* or a record ends at its end.
LEMMA SoundBounds ==
    ASSUME NEW i, Sound(i), NEW s, s = i.mblock, NEW res, res = i.reserved,
           NEW n, n = i.reserved_num
    PROVE  /\ s[1].start = Base \/ \E k \in 1 .. n : res[k].start = Base
           /\ End(s[Len(s)]) = Top \/ \E k \in 1 .. n : End(res[k]) = Top
<1>1. /\ Len(s) \in Nat /\ 1 \in 1 .. Len(s) /\ Len(s) \in 1 .. Len(s)
      /\ \A k \in 1 .. Len(s) : /\ s[k].start \in Nat /\ s[k].size \in Nat
                                /\ End(s[k]) = s[k].start + s[k].size
                                /\ Base <= s[k].start /\ End(s[k]) <= Top
                                /\ \A p \in Int : p \in PagesOf(s[k]) <=> s[k].start <= p /\ p < End(s[k])
      /\ \A j, k \in 1 .. Len(s) : j < k => End(s[j]) < s[k].start
  BY SoundBlocks
<1>2. \A k \in 1 .. n : /\ res[k].start \in Nat /\ res[k].size \in Nat
                        /\ End(res[k]) = res[k].start + res[k].size
                        /\ Base <= res[k].start /\ End(res[k]) <= Top
                        /\ \A p \in Int : p \in PagesOf(res[k]) <=> res[k].start <= p /\ p < End(res[k])
  BY SoundRecords
<1>3. Base \in Int /\ Top \in Int /\ Base \in Dram /\ Top - 1 \in Dram /\ Top - 1 \in Int
  BY MapAssumption DEF Dram
<1>4. FreeAt(s, Base) \/ Held(res, n, Base)
  BY <1>3 DEF Sound
<1>5. FreeAt(s, Top - 1) \/ Held(res, n, Top - 1)
  BY <1>3 DEF Sound
<1>6. s[1].start = Base \/ \E k \in 1 .. n : res[k].start = Base
  <2>1. CASE FreeAt(s, Base)
    <3>1. PICK k \in 1 .. Len(s) : Base \in PagesOf(s[k])
      BY <2>1 DEF FreeAt
    <3>2. s[k].start = Base
      <4>1. s[k].start <= Base /\ Base <= s[k].start /\ s[k].start \in Int
        BY <1>1, <1>3, <3>1
      <4>2. QED
        BY <1>3, <4>1
    <3>3. k # 1 => End(s[1]) < s[k].start
      BY <1>1
    <3>4. /\ Base <= s[1].start /\ s[1].start <= End(s[1])
          /\ s[1].start \in Int /\ End(s[1]) \in Int
      BY <1>1
    <3>5. QED
      BY <1>3, <3>2, <3>3, <3>4
  <2>2. CASE Held(res, n, Base)
    <3>1. PICK k \in 1 .. n : Base \in PagesOf(res[k])
      BY <2>2 DEF Held
    <3>2. res[k].start <= Base /\ Base <= res[k].start /\ res[k].start \in Int
      BY <1>2, <1>3, <3>1
    <3>3. res[k].start = Base
      BY <1>3, <3>2
    <3>4. QED
      BY <3>3
  <2>3. QED
    BY <1>4, <2>1, <2>2
<1>7. End(s[Len(s)]) = Top \/ \E k \in 1 .. n : End(res[k]) = Top
  <2>1. CASE FreeAt(s, Top - 1)
    <3>1. PICK k \in 1 .. Len(s) : Top - 1 \in PagesOf(s[k])
      BY <2>1 DEF FreeAt
    <3>2. End(s[k]) = Top
      <4>1. Top - 1 < End(s[k]) /\ End(s[k]) <= Top /\ End(s[k]) \in Int
        BY <1>1, <1>3, <3>1
      <4>2. QED
        BY <1>3, <4>1
    <3>3. PICK l : l = Len(s)
      OBVIOUS
    <3>4. k # l => End(s[k]) < s[l].start
      BY <1>1, <3>3
    <3>5. s[l].start <= End(s[l]) /\ End(s[l]) <= Top /\ s[l].start \in Int /\ End(s[l]) \in Int
      BY <1>1, <3>3
    <3>6. QED
      BY <1>3, <3>2, <3>3, <3>4, <3>5
  <2>2. CASE Held(res, n, Top - 1)
    <3>1. PICK k \in 1 .. n : Top - 1 \in PagesOf(res[k])
      BY <2>2 DEF Held
    <3>2. Top - 1 < End(res[k]) /\ End(res[k]) <= Top /\ End(res[k]) \in Int
      BY <1>2, <1>3, <3>1
    <3>3. End(res[k]) = Top
      BY <1>3, <3>2
    <3>4. QED
      BY <3>3
  <2>3. QED
    BY <1>5, <2>1, <2>2
<1>8. QED
  BY <1>6, <1>7

\* What the kernel is told of sound tables.
LEMMA SoundReport ==
    MblockInv => MemoryReported
<1> SUFFICES ASSUME MblockInv PROVE MemoryReported
  OBVIOUS
<1>0. PICK i, s, res, n : i = info /\ s = i.mblock /\ res = i.reserved /\ n = i.reserved_num
  OBVIOUS
<1>1. Sound(i)
  BY <1>0 DEF MblockInv
<1>2. /\ Len(s) \in Nat /\ 1 \in 1 .. Len(s) /\ Len(s) \in 1 .. Len(s)
      /\ Range(s) = {s[k] : k \in 1 .. Len(s)} /\ Last(s) = s[Len(s)]
      /\ \A k \in 1 .. Len(s) : /\ s[k].start \in Nat /\ s[k].size \in Nat
                                /\ End(s[k]) = s[k].start + s[k].size
                                /\ Base <= s[k].start /\ End(s[k]) <= Top
  <2>1. s = i.mblock
    BY <1>0
  <2>2. Len(s) \in Nat /\ 1 \in 1 .. Len(s) /\ Len(s) \in 1 .. Len(s)
    BY ONLY <1>1, <2>1, SoundBlocks
  <2>3. Range(s) = {s[k] : k \in 1 .. Len(s)} /\ Last(s) = s[Len(s)]
    <3>1. s \in Seq(Blocks)
      BY ONLY <1>1, <2>1, SoundBlocks
    <3>2. DOMAIN s = 1 .. Len(s)
      BY <3>1
    <3>3. QED
      BY <3>2 DEF Range, Last
  <2>4. \A k \in 1 .. Len(s) : /\ s[k].start \in Nat /\ s[k].size \in Nat
                               /\ End(s[k]) = s[k].start + s[k].size
                               /\ Base <= s[k].start /\ End(s[k]) <= Top
    BY ONLY <1>1, <2>1, SoundBlocks
  <2>5. QED
    BY ONLY <2>2, <2>3, <2>4
<1>3. /\ n \in Nat /\ res[n + 1] = NoRecord
      /\ \A k \in 1 .. n : /\ res[k].start \in Nat /\ res[k].size \in Nat
                           /\ End(res[k]) = res[k].start + res[k].size
                           /\ Base <= res[k].start /\ End(res[k]) <= Top
  BY <1>0, <1>1, SoundRecords
<1>4. \A rec : rec \in Records(i) <=> \E k \in 1 .. n : rec = res[k]
  BY <1>0, <1>1, RecordsLive
<1>5. /\ s[1].start = Base \/ \E k \in 1 .. n : res[k].start = Base
      /\ End(s[Len(s)]) = Top \/ \E k \in 1 .. n : End(res[k]) = Top
  BY <1>0, <1>1, SoundBounds
<1>6. Base \in Nat /\ Top \in Nat
  BY MapAssumption
<1>7. Min({s[1].start} \cup {rec.start : rec \in Records(i)}) = Base
  <2> DEFINE S == {s[1].start} \cup {rec.start : rec \in Records(i)}
  <2>1. \A x \in S : x \in Nat /\ Base <= x
    BY <1>2, <1>3, <1>4
  <2>2. Base \in S
    BY <1>4, <1>5
  <2> HIDE DEF S
  <2>3. S \in SUBSET Nat
    BY <2>1
  <2>4. Min(S) = Base
    BY ONLY <2>1, <2>2, <2>3, LeastIs
  <2>5. QED
    BY <2>4 DEF S
<1>8. mblock_get_memory_start(i) = Base
  <2> DEFINE S == {b.start : b \in Range(s)} \cup {rec.start : rec \in Records(i)}
  <2>1. \A x \in S : x \in Nat /\ Base <= x
    BY <1>2, <1>3, <1>4
  <2>2. Base \in S
    BY <1>2, <1>4, <1>5
  <2>3. mblock_get_memory_start(i) = Min(S)
    BY <1>0 DEF mblock_get_memory_start
  <2> HIDE DEF S
  <2>4. S \in SUBSET Nat
    BY <2>1
  <2>5. Min(S) = Base
    BY ONLY <2>1, <2>2, <2>4, LeastIs
  <2>6. QED
    BY <2>3, <2>5
<1>9. ASSUME NEW recs, recs = IF i.reserved_num = 0 THEN {} ELSE Records(i) \cup {i.reserved[i.reserved_num + 1]}
      PROVE  Max({End(Last(s))} \cup {End(rec) : rec \in recs}) = Top
  <2> DEFINE S == {End(Last(s))} \cup {End(rec) : rec \in recs}
  <2>1. End(NoRecord) = 0
    BY DEF End, NoRecord
  <2>2. \A rec \in recs : rec = NoRecord \/ \E k \in 1 .. n : rec = res[k]
    BY <1>0, <1>3, <1>4, <1>9
  <2>3. \A rec \in recs : End(rec) \in 0 .. Top
    BY <1>3, <1>6, <2>1, <2>2
  <2>4. \A x \in S : x \in 0 .. Top
    BY <1>2, <1>6, <2>3
  <2>5. \A k \in 1 .. n : res[k] \in recs
    BY <1>0, <1>3, <1>4, <1>9
  <2>6. Top \in S
    BY <1>2, <1>5, <2>5
  <2> HIDE DEF S
  <2>7. S \in SUBSET (0 .. Top)
    BY <2>4
  <2>8. Max(S) = Top
    BY ONLY <1>6, <2>6, <2>7, GreatestIs
  <2>9. QED
    BY <2>8 DEF S
<1>10. reg(i) = [start |-> Base, end |-> Top]
  <2>1. PICK recs : recs = IF i.reserved_num = 0 THEN {} ELSE Records(i) \cup {i.reserved[i.reserved_num + 1]}
    OBVIOUS
  <2>2. reg(i) = [start |-> Min({s[1].start} \cup {rec.start : rec \in Records(i)}),
                  end   |-> Max({End(Last(s))} \cup {End(rec) : rec \in recs})]
    BY <1>0, <2>1 DEF reg
  <2>3. Max({End(Last(s))} \cup {End(rec) : rec \in recs}) = Top
    BY <1>9, <2>1
  <2>4. QED
    BY <1>7, <2>2, <2>3
<1>11. mblock_sanity_check(i)
  <2> SUFFICES ASSUME NEW b \in Range(s), NEW rec \in Records(i), NEW p, p \in PagesOf(b), p \in PagesOf(rec)
               PROVE  FALSE
    BY <1>0 DEF mblock_sanity_check
  <2>1. PICK k \in 1 .. Len(s) : b = s[k]
    BY <1>2
  <2>2. PICK j \in 1 .. n : rec = res[j]
    BY <1>4
  <2>3. p \in Int
    <3>1. b.start \in Int /\ End(b) \in Int
      BY <1>2, <2>1
    <3>2. QED
      BY <3>1 DEF PagesOf
  <2>4. FreeAt(s, p) /\ Held(res, n, p)
    BY <2>1, <2>2 DEF FreeAt, Held
  <2>5. QED
    BY <1>0, <1>1, <2>3, <2>4 DEF Sound
<1>12. mblock_get_memory_size(i) = Top - Base
  BY <1>1, SoundSize
<1>13. QED
  BY <1>0, <1>8, <1>10, <1>11, <1>12 DEF MemoryReported, Room

\* The kernel is told of all the memory there is and of nothing else, whatever calls came
\* before: mblock_get_memory_size and mblock_get_memory_start agree with the machine,
\* mblock_sanity_check finds no overlap, and reg agrees too as long as the table of records
\* is not full (it reads the slot after the last record).
THEOREM KernelTold ==
    ASSUME 0 \notin NewSizes
    PROVE  MblockSpec => []MemoryReported
  BY MblockInvariant, SoundReport, PTL
===============================================================================
