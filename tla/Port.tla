--------------------------------- MODULE Port ---------------------------------
(***************************************************************************)
(* kernel/port.c: named ports.  A write port keeps a buffer until somebody *)
(* opens it; then each read port has one, and the last to close gives its  *)
(* own back.  Read ports can be put into a group and read together.  Every *)
(* operation is one section under thread_lock, but for port_create and     *)
(* port_group_add, which look before they lock, and port_read and          *)
(* port_close, which let others run in their middle.                       *)
(***************************************************************************)
EXTENDS Integers, Sequences, SequencesExt

CONSTANTS
    Threads,       \* the threads that create, group and read ports
    WPorts, RPorts, Groups,   \* the objects calloc may return
    None,
    BufSize,       \* PORT_BUFF_SIZE
    MaxPackets     \* bound: packets accepted by a write port

ASSUME PortAssumption ==
    /\ BufSize \in Nat \ {0} /\ MaxPackets \in Nat
    /\ None \notin WPorts \cup RPorts \cup Groups
    /\ \A n \in 0 .. BufSize : None \notin [1 .. n -> Nat]
    /\ RPorts \cap Groups = {}

VARIABLES
    write_port_list,   \* the write ports, oldest first.  They all have the same name
    wport,    \* of a write port [magic, mode, buf, rp_list]; "0" is free memory
    rport,    \* of a read port [magic, buf, wport, gport]
    group,    \* of a port group [magic, rp_list].  "closing" stands for the same magic as
              \* "R" and "G": port_close has the object and is in thread_resched
    wait,     \* the wait queue of each read port and group
    thread,   \* of a thread [at, port, group]
    accepted, \* the last packet of a write port that port_write took.  Packets are
              \* numbered
    delivered, last,   \* the last one read of a unicast port; from a read port of
                       \* another
    careful,  \* see Careful below; never changes
    fault     \* why the system is lost, if it is

objects == <<write_port_list, wport, rport, group>>
ghosts == <<accepted, delivered, last>>
vars == <<objects, wait, thread, ghosts, careful, fault>>

\* The list without the node x.
list_delete(s, x) == RemoveAt(s, CHOOSE i \in DOMAIN s : s[i] = x)

Idle == [at |-> "idle", port |-> None, group |-> None]
NoWPort == [magic |-> "0", mode |-> "", buf |-> None, rp_list |-> <<>>]
NoRPort == [magic |-> "0", buf |-> None, wport |-> None, gport |-> None]
NoGroup == [magic |-> "0", rp_list |-> <<>>]

Init ==
    /\ write_port_list = <<>>
    /\ wport = [w \in WPorts |-> NoWPort]
    /\ rport = [r \in RPorts |-> NoRPort]
    /\ group = [g \in Groups |-> NoGroup]
    /\ wait = [o \in RPorts \cup Groups |-> <<>>]
    /\ thread = [t \in Threads |-> Idle]
    /\ accepted = [w \in WPorts |-> 0] /\ delivered = [w \in WPorts |-> 0]
    /\ last = [r \in RPorts |-> 0]
    /\ careful \in BOOLEAN
    /\ fault = "none"

(***************************************************************************)
(* Careful clients read a port or a group in one thread at a time, do not  *)
(* read a port that is in a group, close nothing that a thread has been    *)
(* woken to read, do not begin to read, group or close what is being       *)
(* closed, change groups in one thread at a time and do not call           *)
(* port_group_remove.  For others the wakes of port_write do not reach     *)
(* everybody and memory is used after it was freed.                        *)
(***************************************************************************)
Careful(p) == careful => p

\* The tests of magic.
IsReadPort(r) == rport[r].magic \in {"R", "closing"}
IsGroup(g) == group[g].magic \in {"G", "closing"}

Reading(o) == {t \in Threads : thread[t].at \in {"blocked", "woken"} /\ thread[t].port = o}
Woken(o) == {t \in Reading(o) : thread[t].at = "woken"}

\* wait_queue_block of the threads of S returns err.  With an error the thread only
\* returns; it looks at no port any more.
WokenUp(S, err) ==
    [t \in Threads |-> IF t \notin S THEN thread[t]
                       ELSE IF err = "NO_ERROR" THEN [thread[t] EXCEPT !.at = "woken"] ELSE Idle]

Fault(why) ==
    /\ fault' = why
    /\ UNCHANGED <<objects, wait, thread, ghosts, careful>>
-----------------------------------------------------------------------------
\* port_create looks the name up; adding the port is a section of its own.
port_create_lookup(t) ==
    /\ thread[t] = Idle
    /\ write_port_list = <<>>
    /\ thread' = [thread EXCEPT ![t].at = "create"]
    /\ UNCHANGED <<objects, wait, ghosts, careful, fault>>

port_create(t, mode) ==
    /\ thread[t].at = "create"
    /\ thread' = [thread EXCEPT ![t] = Idle]
    /\ \/ UNCHANGED <<write_port_list, wport, accepted, delivered>>    \* ERR_NO_MEMORY
       \/ \E w \in WPorts :
             /\ wport[w].magic = "0"
             /\ wport' = [wport EXCEPT ![w] =
                            [magic |-> "W", mode |-> mode, buf |-> <<>>, rp_list |-> <<>>]]
             /\ write_port_list' = Append(write_port_list, w)
             /\ accepted' = [accepted EXCEPT ![w] = 0]
             /\ delivered' = [delivered EXCEPT ![w] = 0]
    /\ UNCHANGED <<rport, group, last, wait, careful, fault>>

\* A mutant that always uses the new buffer.
port_open_NewBuffer(r) ==
    /\ write_port_list # <<>>
    /\ rport[r].magic = "0"
    /\ LET w == Head(write_port_list)
       IN /\ wport[w].mode = "UNICAST" => wport[w].buf # None
          /\ rport' = [rport EXCEPT ![r] =
                         [magic |-> "R", buf |-> <<>>, wport |-> w, gport |-> None]]
          /\ wport' = [wport EXCEPT ![w].buf = None, ![w].rp_list = Append(@, r)]
          /\ last' = [last EXCEPT ![r] = 0]
    /\ UNCHANGED <<write_port_list, group, wait, thread, accepted, delivered, careful, fault>>

port_open(r) ==
    /\ write_port_list # <<>>
    /\ rport[r].magic = "0"
    /\ LET w == Head(write_port_list)
           first == wport[w].buf # None
       IN /\ wport[w].mode = "UNICAST" => first
          /\ rport' = [rport EXCEPT ![r] =
                         [magic |-> "R", buf |-> IF first THEN wport[w].buf ELSE <<>>,
                          wport |-> w, gport |-> None]]
          /\ wport' = [wport EXCEPT ![w].buf = None, ![w].rp_list = Append(@, r)]
          /\ last' = [last EXCEPT ![r] = 0]
    /\ UNCHANGED <<write_port_list, group, wait, thread, accepted, delivered, careful, fault>>

\* port_group with a list of ports; one that is in a group already undoes it all.
port_group(g, ports) ==
    /\ group[g].magic = "0"
    /\ \A i \in DOMAIN ports : /\ IsReadPort(ports[i])
                               /\ rport[ports[i]].gport = None
                               /\ Careful(rport[ports[i]].magic = "R" /\ Reading(ports[i]) = {})
    /\ Careful(\A u \in Threads : thread[u].at # "add")
    /\ group' = [group EXCEPT ![g] = [magic |-> "G", rp_list |-> ports]]
    /\ rport' = [r \in RPorts |-> IF r \in ToSet(ports) THEN [rport[r] EXCEPT !.gport = g]
                                                        ELSE rport[r]]
    /\ UNCHANGED <<write_port_list, wport, wait, thread, ghosts, careful, fault>>

port_group_add_check(t, g, r) ==
    /\ thread[t] = Idle
    /\ IsGroup(g)
    /\ IsReadPort(r) /\ rport[r].gport = None
    /\ Careful(\A u \in Threads : thread[u].at # "add")
    /\ Careful(group[g].magic = "G" /\ rport[r].magic = "R" /\ Reading(r) = {})
    /\ thread' = [thread EXCEPT ![t] = [@ EXCEPT !.at = "add", !.port = r, !.group = g]]
    /\ UNCHANGED <<objects, wait, ghosts, careful, fault>>

\* The buffer, if there is one, is not empty.
HasPacket(r) == rport[r].buf # <<>>

\* The thread that a port new in group g wakes, and a mutant that wakes none.
AddWakes_None(r, g) == {}
AddWakes(r, g) == IF HasPacket(r) /\ wait[g] # <<>> THEN {Head(wait[g])} ELSE {}

\* Under the lock: a port that another thread has put into a group, closed or freed
\* since the check is linked all the same.  One that is being closed may have lost its
\* buffer.
port_group_add(t) ==
    LET r == thread[t].port  g == thread[t].group
        first == AddWakes(r, g)
    IN /\ thread[t].at = "add"
       /\ IF ~IsReadPort(r) \/ ~IsGroup(g) \/ rport[r].gport # None \/ rport[r].buf = None
          THEN Fault("port_group_add")
          ELSE /\ rport' = [rport EXCEPT ![r].gport = g]
               /\ group' = [group EXCEPT ![g].rp_list = Append(@, r)]
               /\ wait' = [wait EXCEPT ![g] = IF first = {} THEN @ ELSE Tail(@)]
               /\ thread' = [WokenUp(first, "NO_ERROR") EXCEPT ![t] = Idle]
               /\ UNCHANGED <<write_port_list, wport, ghosts, careful, fault>>

\* The port keeps its gport; when it is not in the list, thread_lock stays taken.
port_group_remove(g, r) ==
    /\ ~careful
    /\ IsGroup(g) /\ IsReadPort(r) /\ rport[r].gport = g
    /\ IF r \in ToSet(group[g].rp_list)
       THEN /\ group' = [group EXCEPT ![g].rp_list = list_delete(@, r)]
            /\ UNCHANGED <<write_port_list, wport, rport, wait, thread, ghosts, careful, fault>>
       ELSE Fault("port_group_remove")
-----------------------------------------------------------------------------
Packets(w, count) == [i \in 1 .. count |-> accepted[w] + i]
Room(buf, count) == Len(buf) + count <= BufSize

\* The queue of which port_write wakes a thread for read port r.
WakeQueue(r, queues) ==
    LET g == rport[r].gport IN IF g # None /\ queues[g] # <<>> THEN g ELSE r

\* One thread is woken for a port that takes the packets.
WakeFor(acc, r) ==
    LET q == WakeQueue(r, acc.wait)
    IN IF acc.wait[q] = <<>>
       THEN acc
       ELSE [wait |-> [acc.wait EXCEPT ![q] = Tail(@)], woken |-> acc.woken \cup {Head(acc.wait[q])}]

\* The wakes for the ports of the list that take the packets, one after the other.
Wakes(ports, takers) ==
    LET acc[i \in 0 .. Len(ports)] ==
            IF i = 0 THEN [wait |-> wait, woken |-> {}]
            ELSE IF ports[i] \in takers THEN WakeFor(acc[i - 1], ports[i])
            ELSE acc[i - 1]
    IN acc[Len(ports)]

\* The write port may be full (ERR_NOT_ENOUGH_BUFFER), or some of its read ports
\* (ERR_PARTIAL_WRITE): those miss the packets.
port_write(w, count) ==
    LET takers == {r \in ToSet(wport[w].rp_list) : Room(rport[r].buf, count)}
        wakes == Wakes(wport[w].rp_list, takers)
    IN /\ wport[w].magic = "W"
       /\ accepted[w] + count <= MaxPackets
       /\ \/ /\ wport[w].buf # None /\ Room(wport[w].buf, count)
             /\ wport' = [wport EXCEPT ![w].buf = @ \o Packets(w, count)]
             /\ accepted' = [accepted EXCEPT ![w] = @ + count]
             /\ UNCHANGED <<write_port_list, rport, group, wait, thread, delivered, last, careful,
                            fault>>
          \/ /\ wport[w].buf = None /\ takers # {}
             /\ IF \E r \in takers :
                      rport[r].gport # None /\ group[rport[r].gport].magic = "0"
                THEN Fault("port_write")
                ELSE /\ rport' = [r \in RPorts |-> IF r \in takers
                                    THEN [rport[r] EXCEPT !.buf = @ \o Packets(w, count)]
                                    ELSE rport[r]]
                     /\ accepted' = [accepted EXCEPT ![w] = @ + count]
                     /\ wait' = wakes.wait
                     /\ thread' = WokenUp(wakes.woken, "NO_ERROR")
                     /\ UNCHANGED <<write_port_list, wport, group, delivered, last, careful, fault>>

\* buf_read from r.  A port that is being closed is in no list of a write port.
Take(r) ==
    LET w == rport[r].wport
    IN /\ rport' = [rport EXCEPT ![r].buf = Tail(@)]
       /\ IF rport[r].magic = "R" /\ w # None /\ wport[w].mode = "UNICAST"
          THEN delivered' = [delivered EXCEPT ![w] = Head(rport[r].buf)] /\ UNCHANGED last
          ELSE last' = [last EXCEPT ![r] = Head(rport[r].buf)] /\ UNCHANGED delivered
       /\ UNCHANGED <<write_port_list, wport, group, wait, accepted, careful, fault>>

\* The ports that a read of o looks at, in this order.
Sources(o) == IF o \in RPorts THEN <<o>> ELSE group[o].rp_list

\* The body of port_read: take the first packet there is, or sleep, or give up.
ReadOrBlock(t, o, timeout) ==
    LET src == Sources(o)
        empty == \A i \in DOMAIN src : ~HasPacket(src[i])
    IN \/ \E i \in DOMAIN src :
             /\ HasPacket(src[i]) /\ \A j \in 1 .. i - 1 : ~HasPacket(src[j])
             /\ IF rport[src[i]].buf = None
                THEN Fault("port_read")
                ELSE Take(src[i]) /\ thread' = [thread EXCEPT ![t] = Idle]
       \/ /\ empty /\ timeout # "zero"
          /\ wait' = [wait EXCEPT ![o] = Append(@, t)]
          /\ thread' = [thread EXCEPT ![t] = [Idle EXCEPT !.at = "blocked", !.port = o]]
          /\ UNCHANGED <<objects, ghosts, careful, fault>>
       \/ /\ empty /\ timeout = "zero"
          /\ thread' = [thread EXCEPT ![t] = Idle]
          /\ UNCHANGED <<objects, wait, ghosts, careful, fault>>

Live(o) == IF o \in RPorts THEN IsReadPort(o) ELSE IsGroup(o)
Closing(o) == IF o \in RPorts THEN rport[o].magic = "closing" ELSE group[o].magic = "closing"

port_read(t, o, timeout) ==
    /\ thread[t] = Idle
    /\ Live(o)
    /\ Careful(Reading(o) = {} /\ ~Closing(o))
    /\ o \in RPorts => Careful(rport[o].gport = None /\ \A u \in Threads : thread[u].port # o)
    /\ ReadOrBlock(t, o, timeout)

\* wait_queue_block has returned NO_ERROR: the object is looked at again.
port_read_again(t) ==
    /\ thread[t].at = "woken"
    /\ IF Live(thread[t].port)
       THEN ReadOrBlock(t, thread[t].port, "nonzero")
       ELSE Fault("port_read")

\* Any reader may have bounded its wait.
wait_queue_timeout_handler(t) ==
    /\ thread[t].at = "blocked"
    /\ wait' = [wait EXCEPT ![thread[t].port] = list_delete(@, t)]
    /\ thread' = WokenUp({t}, "ERR_TIMED_OUT")
    /\ UNCHANGED <<objects, ghosts, careful, fault>>
-----------------------------------------------------------------------------
\* All waiters of the objects of S wake with err.
WakeAll(S, err) ==
    /\ wait' = [o \in DOMAIN wait |-> IF o \in S THEN <<>> ELSE wait[o]]
    /\ thread' = WokenUp(UNION {ToSet(wait[o]) : o \in S}, err)

port_destroy(w) ==
    LET rs == ToSet(wport[w].rp_list)
        gs == {rport[r].gport : r \in rs} \ {None}
    IN /\ wport[w].magic = "X"
       /\ IF \E g \in gs : group[g].magic = "0"
          THEN Fault("port_destroy")
          ELSE /\ write_port_list' = list_delete(write_port_list, w)
               /\ wport' = [wport EXCEPT ![w] = NoWPort]
               /\ rport' = [r \in RPorts |-> IF r \in rs THEN [rport[r] EXCEPT !.wport = None]
                                                         ELSE rport[r]]
               /\ WakeAll(rs \cup gs, "ERR_CANCELLED")
               /\ accepted' = [accepted EXCEPT ![w] = 0]
               /\ delivered' = [delivered EXCEPT ![w] = 0]
               /\ UNCHANGED <<group, last, careful, fault>>

\* The last read port gives its buffer back to the write port.  A port that was
\* removed from its group is taken out of the list a second time.  If there are
\* waiters, wait_queue_destroy reschedules: thread_lock is let go before magic is
\* cleared.
port_close_read(r) ==
    LET w == rport[r].wport
        g == rport[r].gport
        others == list_delete(wport[w].rp_list, r)
        given == w # None /\ others = <<>>
    IN /\ IsReadPort(r)
       /\ Careful(/\ rport[r].magic = "R" /\ Woken(r) = {}
                  /\ \A t \in Threads : thread[t].at = "add" => thread[t].port # r)
       /\ IF \/ rport[r].magic = "closing"
             \/ g # None /\ (group[g].magic = "0" \/ r \notin ToSet(group[g].rp_list))
          THEN Fault("port_close")
          ELSE /\ rport' = [rport EXCEPT ![r] =
                              IF wait[r] = <<>> THEN NoRPort
                              ELSE [rport[r] EXCEPT !.magic = "closing",
                                                    !.buf = IF given THEN None ELSE rport[r].buf]]
               /\ wport' = IF w = None THEN wport
                           ELSE [wport EXCEPT ![w].rp_list = others,
                                              ![w].buf = IF given THEN rport[r].buf ELSE None]
               /\ group' = IF g = None THEN group
                           ELSE [group EXCEPT ![g].rp_list = list_delete(@, r)]
               /\ WakeAll({r}, "ERR_OBJECT_DESTROYED")
               /\ last' = [last EXCEPT ![r] = IF wait[r] = <<>> THEN 0 ELSE @]
               /\ UNCHANGED <<write_port_list, accepted, delivered, careful, fault>>

\* The read ports without their group g, and a mutant that leaves them it.
Detached_Not(g) == rport
Detached(g) ==
    [r \in RPorts |-> IF r \in ToSet(group[g].rp_list) THEN [rport[r] EXCEPT !.gport = None]
                                                     ELSE rport[r]]

\* Only the ports in the list forget the group, again after a reschedule if there are
\* waiters.
port_close_group(g) ==
    /\ IsGroup(g)
    /\ Careful(group[g].magic = "G" /\ Woken(g) = {} /\ \A t \in Threads : thread[t].group # g)
    /\ IF group[g].magic = "closing"
       THEN Fault("port_close")
       ELSE /\ IF wait[g] = <<>>
               THEN group' = [group EXCEPT ![g] = NoGroup] /\ rport' = Detached(g)
               ELSE group' = [group EXCEPT ![g].magic = "closing"] /\ UNCHANGED rport
            /\ WakeAll({g}, "ERR_OBJECT_DESTROYED")
            /\ UNCHANGED <<write_port_list, wport, ghosts, careful, fault>>

\* thread_resched has returned, and the memory is freed; by then threads may sleep on
\* it, and a group may have linked the port.
port_close_read_end(r) ==
    /\ rport[r].magic = "closing"
    /\ IF wait[r] # <<>> \/ \E g \in Groups : r \in ToSet(group[g].rp_list)
       THEN Fault("port_close")
       ELSE /\ rport' = [rport EXCEPT ![r] = NoRPort]
            /\ last' = [last EXCEPT ![r] = 0]
            /\ UNCHANGED <<write_port_list, wport, group, wait, thread, accepted, delivered, careful,
                           fault>>

port_close_group_end(g) ==
    /\ group[g].magic = "closing"
    /\ IF wait[g] # <<>>
       THEN Fault("port_close")
       ELSE /\ group' = [group EXCEPT ![g] = NoGroup]
            /\ rport' = Detached(g)
            /\ UNCHANGED <<write_port_list, wport, wait, thread, ghosts, careful, fault>>

\* A closed write port can still be opened and read.
port_close_write(w) ==
    /\ wport[w].magic = "W"
    /\ wport' = [wport EXCEPT ![w].magic = "X"]
    /\ UNCHANGED <<write_port_list, rport, group, wait, thread, ghosts, careful, fault>>
-----------------------------------------------------------------------------
ThreadStep(t) ==
    \/ port_create_lookup(t)
    \/ \E mode \in {"UNICAST", "BROADCAST"} : port_create(t, mode)
    \/ \E g \in Groups, r \in RPorts : port_group_add_check(t, g, r)
    \/ port_group_add(t)
    \/ \E o \in RPorts \cup Groups, timeout \in {"zero", "nonzero"} :
          port_read(t, o, timeout)
    \/ port_read_again(t)
    \/ wait_queue_timeout_handler(t)

Next ==
    /\ fault = "none"
    /\ \/ \E t \in Threads : ThreadStep(t)
       \/ \E r \in RPorts : port_open(r) \/ port_close_read(r) \/ port_close_read_end(r)
       \/ \E g \in Groups, n \in 0 .. 2 : \E ports \in [1 .. n -> RPorts] :
             IsInjective(ports) /\ port_group(g, ports)
       \/ \E g \in Groups, r \in RPorts : port_group_remove(g, r)
       \/ \E w \in WPorts, count \in 1 .. 2 : port_write(w, count)
       \/ \E w \in WPorts : port_close_write(w) \/ port_destroy(w)
       \/ \E g \in Groups : port_close_group(g) \/ port_close_group_end(g)

Spec == Init /\ [][Next]_vars
-----------------------------------------------------------------------------
Increasing(s) == \A i, j \in DOMAIN s : i < j => s[i] < s[j]

\* Packets come out in the order they went in, through all hand-overs of buffers
\* between the ports.  A write port has a buffer exactly as long as it has no
\* reader; a unicast port loses and repeats nothing.
InOrder ==
    /\ \A r \in RPorts : rport[r].buf # None => Increasing(<<last[r]>> \o rport[r].buf)
    /\ \A w \in WPorts : wport[w].magic # "0" =>
          LET rs == wport[w].rp_list
          IN /\ wport[w].buf # None <=> rs = <<>>
             /\ wport[w].mode = "UNICAST" =>
                   /\ Len(rs) <= 1
                   /\ LET buf == IF rs = <<>> THEN wport[w].buf ELSE rport[rs[1]].buf
                      IN buf = [i \in 1 .. accepted[w] - delivered[w] |-> delivered[w] + i]

\* With careful clients nobody sleeps beside a packet: every write, and every port
\* added to a group, wakes a thread that can read it.
NobodyAsleepBesidePacket ==
    careful => \A t \in Threads :
        thread[t].at = "blocked" =>
            \A i \in DOMAIN Sources(thread[t].port) : ~HasPacket(Sources(thread[t].port)[i])

\* With careful clients no freed port is used, no list broken and no lock kept.
NoFault == careful => fault = "none"
=============================================================================
