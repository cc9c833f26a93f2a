------------------------------ MODULE PortProofs ------------------------------
(***************************************************************************)
(* Module Port for every number of threads, ports and groups, every size   *)
(* of a buffer and every number of packets.                                *)
(***************************************************************************)
EXTENDS Port, ListProofs

Objects == RPorts \cup Groups
Modes == {"UNICAST", "BROADCAST"}
Buffers == {s \in Seq(Nat) : Len(s) <= BufSize}

\* The threads in the wait queue of o, the ports that are open on write port w and
\* those that say they are in group g; the last also with the ones being closed.
Blocked(o) == {t \in Threads : thread[t].at = "blocked" /\ thread[t].port = o}
OpenOn(w) == {r \in RPorts : rport[r].magic = "R" /\ rport[r].wport = w}
Members(g) == {r \in RPorts : rport[r].magic = "R" /\ rport[r].gport = g}
Linked(g) == {r \in RPorts : IsReadPort(r) /\ rport[r].gport = g}

\* Not even being closed.
Open(o) == IF o \in RPorts THEN rport[o].magic = "R" ELSE group[o].magic = "G"

WPortType == [magic : {"0", "W", "X"}, mode : Modes \cup {""},
              buf : Buffers \cup {None}, rp_list : Seq(RPorts)]
RPortType == [magic : {"0", "R", "closing"}, buf : Buffers \cup {None},
              wport : WPorts \cup {None}, gport : Groups \cup {None}]
GroupType == [magic : {"0", "G", "closing"}, rp_list : Seq(RPorts)]
ThreadType == [at : {"idle", "create", "add", "blocked", "woken"},
               port : Objects \cup {None}, group : Groups \cup {None}]

Types ==
    /\ wport \in [WPorts -> WPortType]
    /\ rport \in [RPorts -> RPortType]
    /\ group \in [Groups -> GroupType]
    /\ thread \in [Threads -> ThreadType]
    /\ wait \in [Objects -> Seq(Threads)]
    /\ accepted \in [WPorts -> Nat] /\ delivered \in [WPorts -> Nat]
    /\ last \in [RPorts -> Nat]
    /\ careful \in BOOLEAN

\* The packets of s are in order and come after lo.
After(s, lo) ==
    /\ s \in Buffers
    /\ \A i \in 1 .. Len(s) : lo < s[i]
    /\ \A i, j \in 1 .. Len(s) : i < j => s[i] < s[j]

UpTo(s, hi) == \A i \in 1 .. Len(s) : s[i] <= hi

\* s has the packets that are accepted and not delivered.
Exactly(s, w) ==
    /\ delivered[w] <= accepted[w]
    /\ s \in Buffers
    /\ Len(s) = accepted[w] - delivered[w]
    /\ \A i \in 1 .. Len(s) : s[i] = delivered[w] + i

\* The list of the write port has the ports that are open on it.  The packets in its
\* buffer are in order.  A unicast port has one reader at most and one buffer, and this
\* has all that is owed.
WriteOK(w) ==
    /\ Lists(wport[w].rp_list, OpenOn(w))
    /\ wport[w].magic = "0" => wport[w].rp_list = <<>>
    /\ wport[w].magic # "0" =>
          /\ wport[w].mode \in Modes
          /\ wport[w].buf # None <=> wport[w].rp_list = <<>>
          /\ wport[w].buf # None => After(wport[w].buf, 0) /\ UpTo(wport[w].buf, accepted[w])
    /\ wport[w].magic # "0" /\ wport[w].mode = "UNICAST" =>
          /\ \A r, q \in OpenOn(w) : r = q
          /\ \A r \in OpenOn(w) : Exactly(rport[r].buf, w)
          /\ wport[w].buf # None => Exactly(wport[w].buf, w)

\* The packets in the buffer of the read port are in order, and all after the last one
\* that was read from it.
ReadOK(r) ==
    /\ rport[r].magic = "R" =>
          /\ After(rport[r].buf, last[r])
          /\ rport[r].wport # None => /\ UpTo(rport[r].buf, accepted[rport[r].wport])
                                      /\ last[r] <= accepted[rport[r].wport]
    /\ rport[r].magic = "closing" /\ rport[r].buf # None => After(rport[r].buf, last[r])
    /\ rport[r].magic = "0" => rport[r].buf = None

PacketInv ==
    /\ Lists(write_port_list, {w \in WPorts : wport[w].magic # "0"})
    /\ \A w \in WPorts : WriteOK(w)
    /\ \A r \in RPorts : ReadOK(r)

\* The ports in the list of a group are in that group.
GroupInv ==
    \A g \in Groups :
        /\ \E S \in SUBSET Linked(g) : Lists(group[g].rp_list, S)
        /\ group[g].magic = "0" => group[g].rp_list = <<>>

WaitInv ==
    /\ \A o \in Objects : Lists(wait[o], Blocked(o))
    /\ \A t \in Threads :
          /\ thread[t].at \in {"idle", "create"} => thread[t].port = None /\ thread[t].group = None
          /\ thread[t].at = "add" => thread[t].port \in RPorts /\ thread[t].group \in Groups
          /\ thread[t].at \in {"blocked", "woken"} => thread[t].port \in Objects

IInv == Types /\ PacketInv /\ GroupInv /\ WaitInv

\* The rest is true as long as the clients are careful.

\* A port that says it is in a group is.
CarefulGroups ==
    \A g \in Groups : /\ Lists(group[g].rp_list, Members(g))
                      /\ Members(g) # {} => IsGroup(g)

\* A port or group has one reader, it is not closed and not in a group.
CarefulReaders ==
    /\ \A t, u \in Threads :
          thread[t].at \in {"blocked", "woken"} /\ thread[u].at \in {"blocked", "woken"}
            /\ thread[t].port = thread[u].port => t = u
    /\ \A t \in Threads : thread[t].at \in {"blocked", "woken"} =>
          /\ Open(thread[t].port)
          /\ thread[t].port \in RPorts => rport[thread[t].port].gport = None

\* One thread adds to a group, a port that nobody reads.
CarefulAdd ==
    /\ \A t, u \in Threads : thread[t].at = "add" /\ thread[u].at = "add" => t = u
    /\ \A t \in Threads : thread[t].at = "add" =>
          /\ rport[thread[t].port].magic = "R" /\ rport[thread[t].port].gport = None
          /\ group[thread[t].group].magic = "G"
          /\ \A u \in Threads : thread[u].at \in {"blocked", "woken"}
                                    => thread[u].port # thread[t].port

\* Who sleeps has nothing to read.
Asleep ==
    \A t \in Threads : thread[t].at = "blocked" =>
        /\ thread[t].port \in RPorts => rport[thread[t].port].buf = <<>>
        /\ thread[t].port \in Groups => \A r \in Members(thread[t].port) : rport[r].buf = <<>>

CInv == careful => CarefulGroups /\ CarefulReaders /\ CarefulAdd /\ Asleep /\ fault = "none"
USE DEF WPortType, RPortType, GroupType, ThreadType
-----------------------------------------------------------------------------
(* Lists and buffers. *)

\* list_delete.
LEMMA ListDelete ==
    ASSUME NEW s, NEW S, Lists(s, S), NEW x \in S
    PROVE  Lists(list_delete(s, x), S \ {x})
<1> DEFINE k == CHOOSE i \in DOMAIN s : s[i] = x
<1>1. k \in DOMAIN s /\ s[k] = x
  <2>1. \E i \in DOMAIN s : s[i] = x
    BY DEF Lists
  <2>2. QED
    BY <2>1
<1>2. list_delete(s, x) = RemoveAt(s, k)
  BY DEF list_delete
<1> HIDE DEF k
<1>3. QED
  BY <1>1, <1>2, ListsRemoveAt

\* list_remove_head, and the head that goes.
LEMMA ListsTail ==
    ASSUME NEW s, NEW S, Lists(s, S), s # <<>>
    PROVE  Head(s) \in S /\ Lists(Tail(s), S \ {Head(s)})
<1>1. 1 \in DOMAIN s /\ s[1] = Head(s) /\ s \in Seq(S) /\ Len(s) \in Nat /\ Len(s) >= 1
  BY DEF Lists
<1>2. RemoveAt(s, 1) = Tail(s)
  <2>1. RemoveAt(s, 1) = SubSeq(s, 1, 0) \o SubSeq(s, 2, Len(s))
    BY DEF RemoveAt
  <2>2. SubSeq(s, 1, 0) = <<>>
    BY <1>1
  <2>3. SubSeq(s, 2, Len(s)) = Tail(s) /\ Tail(s) \in Seq(S)
    BY <1>1
  <2>4. QED
    BY <2>1, <2>2, <2>3
<1>3. s[1] \in S /\ Lists(RemoveAt(s, 1), S \ {s[1]})
  BY <1>1, ListsRemoveAt
<1>4. QED
  BY ONLY <1>1, <1>2, <1>3

\* The elements of a list.
LEMMA ListsToSet ==
    ASSUME NEW s, NEW S, Lists(s, S)
    PROVE  ToSet(s) = S
BY DEF Lists, ToSet

\* A list of some of the ports is a list of ports.
LEMMA ListType ==
    ASSUME NEW s, NEW S, NEW T, S \subseteq T, Lists(s, S)
    PROVE  s \in Seq(T)
BY DEF Lists

\* A buffer is not the null pointer.
LEMMA BufferIsNotNone == None \notin Buffers
<1> SUFFICES ASSUME None \in Buffers PROVE FALSE
  OBVIOUS
<1>1. None \in Seq(Nat) /\ Len(None) \in 0 .. BufSize
  BY PortAssumption DEF Buffers
<1>2. None \in [1 .. Len(None) -> Nat]
  BY <1>1
<1>3. QED
  BY <1>1, <1>2, PortAssumption

\* An empty buffer.
LEMMA EmptyBuffer ==
    /\ <<>> \in Buffers
    /\ \A lo \in Nat : After(<<>>, lo) /\ UpTo(<<>>, lo)
BY PortAssumption DEF Buffers, After, UpTo

\* buf_write of the next packets.
LEMMA AppendPackets ==
    ASSUME NEW s, NEW lo \in Nat, NEW a \in Nat, lo <= a, After(s, lo), UpTo(s, a),
           NEW count \in Nat, Room(s, count)
    PROVE  LET t == s \o [i \in 1 .. count |-> a + i]
           IN  /\ t \in Buffers /\ After(t, lo) /\ UpTo(t, a + count)
               /\ Len(t) = Len(s) + count
               /\ \A i \in 1 .. Len(t) : t[i] = IF i <= Len(s) THEN s[i] ELSE a + i - Len(s)
<1> DEFINE p == [i \in 1 .. count |-> a + i]
           t == s \o p
<1>1. s \in Seq(Nat) /\ Len(s) \in Nat /\ p \in Seq(Nat) /\ Len(p) = count
  BY DEF After, Buffers
<1>2. \A i \in 1 .. count : p[i] = a + i
  OBVIOUS
<1>3. /\ t \in Seq(Nat) /\ Len(t) = Len(s) + count
      /\ \A i \in 1 .. Len(s) + count : t[i] = IF i <= Len(s) THEN s[i] ELSE p[i - Len(s)]
  <2> HIDE DEF p
  <2>1. QED
    BY <1>1, ConcatProperties
<1> HIDE DEF p, t
<1>4. ASSUME NEW i \in 1 .. Len(t)
      PROVE  t[i] = IF i <= Len(s) THEN s[i] ELSE a + i - Len(s)
  <2>1. CASE i <= Len(s)
    BY <1>1, <1>3, <2>1
  <2>2. CASE ~(i <= Len(s))
    <3>1. i - Len(s) \in 1 .. count /\ t[i] = p[i - Len(s)]
      BY <1>1, <1>3, <2>2
    <3>2. QED
      BY <1>1, <1>2, <2>2, <3>1
  <2>3. QED
    BY <2>1, <2>2
<1>5. \A i \in 1 .. Len(s) : s[i] \in Nat /\ lo < s[i] /\ s[i] <= a
  BY <1>1 DEF After, UpTo
<1>6. t \in Buffers
  BY <1>3 DEF Buffers, Room
<1>7. ASSUME NEW i \in 1 .. Len(t) PROVE t[i] \in Nat /\ lo < t[i] /\ t[i] <= a + count
  <2>1. CASE i <= Len(s)
    <3>1. i \in 1 .. Len(s) /\ t[i] = s[i]
      BY <1>1, <1>4, <2>1
    <3>2. s[i] \in Nat /\ lo < s[i] /\ s[i] <= a
      BY <1>5, <3>1
    <3>3. QED
      BY <3>1, <3>2
  <2>2. CASE ~(i <= Len(s))
    <3>1. t[i] = a + i - Len(s) /\ i \in Nat /\ i > Len(s) /\ i <= Len(s) + count
      BY <1>1, <1>3, <1>4, <2>2
    <3>2. QED
      BY <1>1, <3>1
  <2>3. QED
    BY <2>1, <2>2
<1>8. ASSUME NEW i \in 1 .. Len(t), NEW j \in 1 .. Len(t), i < j PROVE t[i] < t[j]
  <2>1. CASE j <= Len(s)
    <3>1. i \in 1 .. Len(s) /\ j \in 1 .. Len(s) /\ t[i] = s[i] /\ t[j] = s[j]
      BY <1>1, <1>4, <1>8, <2>1
    <3>2. s[i] < s[j]
      BY <1>8, <3>1 DEF After
    <3>3. QED
      BY <3>1, <3>2
  <2>2. CASE ~(j <= Len(s)) /\ i <= Len(s)
    <3>1. t[j] = a + j - Len(s) /\ j \in Nat /\ j > Len(s)
      BY <1>1, <1>3, <1>4, <2>2
    <3>2. i \in 1 .. Len(s) /\ t[i] = s[i]
      BY <1>1, <1>4, <2>2
    <3>3. s[i] \in Nat /\ s[i] <= a
      BY <1>5, <3>2
    <3>4. QED
      BY <1>1, <3>1, <3>2, <3>3
  <2>3. CASE ~(j <= Len(s)) /\ ~(i <= Len(s))
    <3>1. t[j] = a + j - Len(s) /\ t[i] = a + i - Len(s) /\ i \in Nat /\ j \in Nat
      BY <1>1, <1>3, <1>4, <2>3
    <3>2. QED
      BY <1>1, <1>8, <3>1
  <2>4. QED
    BY <2>1, <2>2, <2>3
<1>9. QED
  BY <1>3, <1>4, <1>6, <1>7, <1>8 DEF After, UpTo, t, p

\* buf_read of the first packet.
LEMMA TailPackets ==
    ASSUME NEW s, NEW lo \in Nat, After(s, lo), s # <<>>
    PROVE  /\ Head(s) \in Nat /\ Head(s) = s[1] /\ lo < Head(s)
           /\ Tail(s) \in Buffers /\ After(Tail(s), Head(s)) /\ After(Tail(s), lo)
           /\ Len(s) >= 1 /\ Len(Tail(s)) = Len(s) - 1
           /\ \A i \in 1 .. Len(Tail(s)) : Tail(s)[i] = s[i + 1] /\ i + 1 \in 1 .. Len(s)
<1>1. s \in Seq(Nat) /\ Len(s) \in Nat /\ Len(s) >= 1 /\ Len(s) <= BufSize /\ Head(s) = s[1]
  BY DEF After, Buffers
<1> DEFINE t == Tail(s)
<1>2. t \in Seq(Nat) /\ Len(t) = Len(s) - 1 /\ \A i \in 1 .. Len(t) : t[i] = s[i + 1]
  BY <1>1, HeadTailProperties
<1> HIDE DEF t
<1>3. \A i \in 1 .. Len(t) : i + 1 \in 1 .. Len(s)
  BY <1>1, <1>2
<1>4. \A i \in 1 .. Len(s) : s[i] \in Nat /\ lo < s[i]
  BY <1>1 DEF After
<1>5. t \in Buffers
  BY <1>1, <1>2, PortAssumption DEF Buffers
<1>6. ASSUME NEW i \in 1 .. Len(t) PROVE s[1] < t[i] /\ lo < t[i]
  <2>1. 1 \in 1 .. Len(s) /\ i + 1 \in 1 .. Len(s) /\ 1 < i + 1 /\ t[i] = s[i + 1]
    BY <1>1, <1>2, <1>3
  <2>2. s[1] < s[i + 1]
    BY <2>1 DEF After
  <2>3. lo < s[i + 1]
    BY <1>4, <2>1
  <2>4. QED
    BY <2>1, <2>2, <2>3
<1>7. ASSUME NEW i \in 1 .. Len(t), NEW j \in 1 .. Len(t), i < j PROVE t[i] < t[j]
  <2>1. i + 1 \in 1 .. Len(s) /\ j + 1 \in 1 .. Len(s) /\ i + 1 < j + 1
    BY <1>3, <1>7
  <2>2. s[i + 1] < s[j + 1]
    BY <2>1 DEF After
  <2>3. QED
    BY <1>2, <2>2
<1>8. 1 \in 1 .. Len(s)
  BY <1>1
<1>9. QED
  BY <1>1, <1>2, <1>3, <1>4, <1>5, <1>6, <1>7, <1>8 DEF After, t
-----------------------------------------------------------------------------
(* The packets. *)

\* A write port that a step does not touch.
LEMMA WriteKept ==
    ASSUME NEW w \in WPorts, WriteOK(w), wport'[w] = wport[w], OpenOn(w)' = OpenOn(w),
           accepted'[w] = accepted[w], delivered'[w] = delivered[w],
           \A r \in OpenOn(w) : rport'[r].buf = rport[r].buf
    PROVE  WriteOK(w)'
<1>1. \A s : Exactly(s, w) => Exactly(s, w)'
  BY DEF Exactly
<1>2. QED
  BY <1>1 DEF WriteOK

\* A read port that a step does not touch, although the write port may have accepted
\* more.
LEMMA ReadKept ==
    ASSUME Types, NEW r \in RPorts, ReadOK(r), rport'[r].magic = rport[r].magic,
           rport'[r].buf = rport[r].buf, last'[r] = last[r],
           rport'[r].wport \in {rport[r].wport, None},
           rport[r].magic = "R" /\ rport'[r].wport # None
               => /\ accepted'[rport[r].wport] \in Nat
                  /\ accepted'[rport[r].wport] >= accepted[rport[r].wport]
    PROVE  ReadOK(r)'
<1> SUFFICES ASSUME rport[r].magic = "R" PROVE ReadOK(r)'
  BY DEF ReadOK
<1>1. After(rport[r].buf, last[r])
  BY DEF ReadOK
<1>2. CASE rport'[r].wport = None
  BY <1>1, <1>2 DEF ReadOK
<1>3. CASE rport'[r].wport # None
  <2> DEFINE w == rport[r].wport
  <2>1. w # None /\ rport'[r].wport = w /\ w \in WPorts
    BY <1>3 DEF Types
  <2>2. UpTo(rport[r].buf, accepted[w]) /\ last[r] <= accepted[w]
    BY <2>1 DEF ReadOK
  <2>3. /\ accepted'[w] \in Nat /\ accepted[w] \in Nat /\ accepted'[w] >= accepted[w]
        /\ last[r] \in Nat
    BY <1>3, <2>1 DEF Types
  <2>4. \A i \in 1 .. Len(rport[r].buf) : rport[r].buf[i] \in Nat
    BY <1>1 DEF After, Buffers
  <2>5. UpTo(rport[r].buf, accepted'[w])
    BY <2>2, <2>3, <2>4 DEF UpTo
  <2>6. last[r] <= accepted'[w]
    BY <2>2, <2>3
  <2>7. QED
    BY <1>1, <2>1, <2>5, <2>6 DEF ReadOK
<1>4. QED
  BY <1>2, <1>3

\* What no step but the ones below touches.
PacketFrame ==
    /\ UNCHANGED <<write_port_list, wport, accepted, delivered, last>>
    /\ \A r \in RPorts : /\ rport'[r].magic = rport[r].magic
                         /\ rport'[r].buf = rport[r].buf
                         /\ rport'[r].wport = rport[r].wport

\* Such a step.
LEMMA FramePackets ==
    ASSUME Types, PacketInv, PacketFrame
    PROVE  PacketInv'
<1>1. Lists(write_port_list, {w \in WPorts : wport[w].magic # "0"})'
  BY DEF PacketInv, PacketFrame
<1>2. ASSUME NEW w \in WPorts PROVE WriteOK(w)'
  <2>1. OpenOn(w)' = OpenOn(w)
    BY DEF OpenOn, PacketFrame
  <2>2. WriteOK(w) /\ \A r \in OpenOn(w) : rport'[r].buf = rport[r].buf
    BY DEF OpenOn, PacketFrame, PacketInv
  <2>3. QED
    BY <2>1, <2>2, WriteKept DEF PacketFrame
<1>3. ASSUME NEW r \in RPorts PROVE ReadOK(r)'
  <2>1. rport[r].wport # None => accepted[rport[r].wport] \in Nat
    BY DEF Types
  <2>2. ReadOK(r)
    BY DEF PacketInv
  <2>3. QED
    BY <2>1, <2>2, ReadKept DEF PacketFrame
<1>4. QED
  BY <1>1, <1>2, <1>3 DEF PacketInv

\* A freed write port has no reader, a new one neither.
LEMMA NoReader ==
    ASSUME NEW w \in WPorts, WriteOK(w), wport[w].rp_list = <<>>
    PROVE  OpenOn(w) = {}
BY ListsEmpty DEF WriteOK

\* port_create.
LEMMA CreatePackets ==
    ASSUME Types, PacketInv, NEW w \in WPorts, NEW mode \in Modes, wport[w].magic = "0",
           wport' = [wport EXCEPT ![w] =
                       [magic |-> "W", mode |-> mode, buf |-> <<>>, rp_list |-> <<>>]],
           write_port_list' = Append(write_port_list, w),
           accepted' = [accepted EXCEPT ![w] = 0],
           delivered' = [delivered EXCEPT ![w] = 0],
           UNCHANGED <<rport, last>>
    PROVE  PacketInv'
<1>1. /\ \A v \in WPorts \ {w} : /\ wport'[v] = wport[v] /\ accepted'[v] = accepted[v]
                                 /\ delivered'[v] = delivered[v]
      /\ wport'[w] = [magic |-> "W", mode |-> mode, buf |-> <<>>, rp_list |-> <<>>]
      /\ accepted'[w] = 0 /\ delivered'[w] = 0
  BY DEF Types
<1>2. \A v \in WPorts : WriteOK(v) /\ OpenOn(v)' = OpenOn(v)
  BY DEF PacketInv, OpenOn
<1>3. OpenOn(w) = {}
  BY <1>2, NoReader DEF WriteOK
<1>4. Lists(write_port_list, {v \in WPorts : wport[v].magic # "0"})'
  <2>1. {v \in WPorts : wport'[v].magic # "0"} = {v \in WPorts : wport[v].magic # "0"} \cup {w}
    BY <1>1
  <2>2. QED
    BY <2>1, ListsAppend DEF PacketInv
<1>5. WriteOK(w)'
  <2>1. Lists(<<>>, {})
    BY DEF Lists
  <2>2. After(<<>>, 0) /\ UpTo(<<>>, 0) /\ <<>> \in Buffers /\ <<>> # None
    BY EmptyBuffer, BufferIsNotNone
  <2>3. Exactly(<<>>, w)'
    BY <1>1, <2>2 DEF Exactly
  <2>4. QED
    BY <1>1, <1>2, <1>3, <2>1, <2>2, <2>3 DEF WriteOK
<1>6. ASSUME NEW v \in WPorts \ {w} PROVE WriteOK(v)'
  BY <1>1, <1>2, WriteKept
<1>7. ASSUME NEW r \in RPorts PROVE ReadOK(r)'
  <2>1. rport[r].magic = "R" => rport[r].wport # w
    BY <1>3 DEF OpenOn
  <2>2. rport[r].wport \in WPorts \cup {None}
    BY DEF Types
  <2>3. rport[r].magic = "R" /\ rport[r].wport # None
            => /\ accepted'[rport[r].wport] = accepted[rport[r].wport]
               /\ accepted[rport[r].wport] \in Nat
    BY <1>1, <2>1, <2>2 DEF Types
  <2>4. ReadOK(r)
    BY DEF PacketInv
  <2>5. QED
    BY <2>3, <2>4, ReadKept
<1>8. QED
  BY <1>4, <1>5, <1>6, <1>7 DEF PacketInv

\* port_open.
LEMMA OpenPackets ==
    ASSUME Types, PacketInv, NEW r \in RPorts, port_open(r)
    PROVE  PacketInv'
<1>a. PICK w : w = Head(write_port_list)
  OBVIOUS
<1>b. PICK buf : buf = IF wport[w].buf # None THEN wport[w].buf ELSE <<>>
  OBVIOUS
<1>1. /\ rport[r].magic = "0" /\ write_port_list # <<>>
      /\ wport[w].mode = "UNICAST" => wport[w].buf # None
      /\ rport' = [rport EXCEPT ![r] = [magic |-> "R", buf |-> buf, wport |-> w, gport |-> None]]
      /\ wport' = [wport EXCEPT ![w].buf = None, ![w].rp_list = Append(@, r)]
      /\ last' = [last EXCEPT ![r] = 0]
      /\ UNCHANGED <<write_port_list, accepted, delivered>>
  BY <1>a, <1>b DEF port_open
<1>2. w \in WPorts /\ wport[w].magic # "0"
  <2>1. write_port_list # <<>> /\ Lists(write_port_list, {v \in WPorts : wport[v].magic # "0"})
    BY <1>1 DEF PacketInv
  <2>2. Head(write_port_list) \in {v \in WPorts : wport[v].magic # "0"}
    BY ONLY <2>1, ListsTail
  <2>3. QED
    BY <1>a, <2>2
<1>3. /\ \A v \in WPorts \ {w} : wport'[v] = wport[v]
      /\ wport'[w].magic = wport[w].magic /\ wport'[w].mode = wport[w].mode
      /\ wport'[w].buf = None /\ wport'[w].rp_list = Append(wport[w].rp_list, r)
  <2>1. wport \in [WPorts -> WPortType]
    BY DEF Types
  <2>2. QED
    BY ONLY <1>1, <1>2, <2>1
<1>4. /\ \A q \in RPorts \ {r} : rport'[q] = rport[q] /\ last'[q] = last[q]
      /\ rport'[r] = [magic |-> "R", buf |-> buf, wport |-> w, gport |-> None]
      /\ last'[r] = 0
  BY <1>1 DEF Types
<1>5. \A v \in WPorts : WriteOK(v)
  BY DEF PacketInv
<1>6. /\ OpenOn(w)' = OpenOn(w) \cup {r} /\ r \notin OpenOn(w)
      /\ \A v \in WPorts \ {w} : OpenOn(v)' = OpenOn(v) /\ r \notin OpenOn(v)
  BY <1>1, <1>2, <1>4 DEF OpenOn
<1>7. /\ After(buf, 0) /\ UpTo(buf, accepted[w])
      /\ wport[w].mode = "UNICAST" => OpenOn(w) = {} /\ Exactly(buf, w)
      /\ accepted[w] \in Nat
  <2>1. accepted[w] \in Nat
    BY <1>2 DEF Types
  <2>2. CASE wport[w].buf # None
    <3>1. wport[w].rp_list = <<>>
      BY <1>2, <1>5, <2>2 DEF WriteOK
    <3>2. OpenOn(w) = {}
      BY <1>2, <1>5, <3>1, NoReader
    <3>3. QED
      BY <1>b, <1>2, <1>5, <2>1, <2>2, <3>2 DEF WriteOK
  <2>3. CASE wport[w].buf = None
    BY <1>b, <1>1, <2>1, <2>3, EmptyBuffer
  <2>4. QED
    BY <2>2, <2>3
<1>8. WriteOK(w)'
  <2>1. Lists(wport[w].rp_list, OpenOn(w))'
    BY <1>2, <1>3, <1>5, <1>6, ListsAppend DEF WriteOK
  <2>2. Append(wport[w].rp_list, r) # <<>>
    <3>1. wport[w].rp_list \in Seq(RPorts)
      BY <1>2 DEF Types
    <3>2. QED
      BY <3>1
  <2>3. ASSUME wport[w].mode = "UNICAST"
        PROVE  /\ OpenOn(w)' = {r} /\ Exactly(rport[r].buf, w)'
    <3>1. OpenOn(w)' = {r}
      BY <1>6, <1>7, <2>3
    <3>2. Exactly(buf, w) /\ rport'[r].buf = buf
      BY <1>4, <1>7, <2>3
    <3>3. QED
      BY <1>1, <3>1, <3>2 DEF Exactly
  <2>4. wport[w].mode \in Modes
    BY <1>2, <1>5 DEF WriteOK
  <2>5. QED
    BY <1>2, <1>3, <2>1, <2>2, <2>3, <2>4 DEF WriteOK
<1>9. ASSUME NEW v \in WPorts \ {w} PROVE WriteOK(v)'
  <2>1. \A q \in OpenOn(v) : rport'[q].buf = rport[q].buf
    BY <1>4, <1>6 DEF OpenOn
  <2>2. QED
    BY <1>1, <1>3, <1>5, <1>6, <2>1, WriteKept
<1>10. ReadOK(r)'
  BY <1>1, <1>4, <1>7 DEF ReadOK
<1>11. ASSUME NEW q \in RPorts \ {r} PROVE ReadOK(q)'
  <2>1. ReadOK(q) /\ (rport[q].wport # None => accepted[rport[q].wport] \in Nat)
    BY DEF PacketInv, Types
  <2>2. QED
    BY <1>1, <1>4, <2>1, ReadKept
<1>12. Lists(write_port_list, {v \in WPorts : wport[v].magic # "0"})'
  <2>1. {v \in WPorts : wport'[v].magic # "0"} = {v \in WPorts : wport[v].magic # "0"}
    BY <1>2, <1>3
  <2>2. QED
    BY <1>1, <2>1 DEF PacketInv
<1>13. QED
  BY <1>8, <1>9, <1>10, <1>11, <1>12 DEF PacketInv

\* port_write into the buffer of the write port.
LEMMA WriteOwnPackets ==
    ASSUME Types, PacketInv, NEW w \in WPorts, NEW count \in Nat, wport[w].magic = "W",
           wport[w].buf # None, Room(wport[w].buf, count),
           wport' = [wport EXCEPT ![w].buf = @ \o Packets(w, count)],
           accepted' = [accepted EXCEPT ![w] = @ + count],
           UNCHANGED <<write_port_list, rport, delivered, last>>
    PROVE  PacketInv'
<1>a. PICK old : old = wport[w].buf
  OBVIOUS
<1>b. PICK a : a = accepted[w]
  OBVIOUS
<1> DEFINE buf == old \o [i \in 1 .. count |-> a + i]
<1>1. /\ \A v \in WPorts \ {w} : wport'[v] = wport[v] /\ accepted'[v] = accepted[v]
      /\ wport'[w].magic = "W" /\ wport'[w].mode = wport[w].mode
      /\ wport'[w].buf = buf /\ wport'[w].rp_list = wport[w].rp_list
      /\ accepted'[w] = a + count /\ a \in Nat /\ delivered[w] \in Nat
  <2>1. Packets(w, count) = [i \in 1 .. count |-> a + i]
    BY <1>b DEF Packets
  <2>2. accepted'[w] = a + count /\ a \in Nat /\ delivered[w] \in Nat
    BY <1>b DEF Types
  <2>3. \A v \in WPorts \ {w} : wport'[v] = wport[v] /\ accepted'[v] = accepted[v]
    BY DEF Types
  <2>4. wport' = [wport EXCEPT ![w].buf = buf]
    BY <1>a, <2>1
  <2> HIDE DEF buf
  <2>5. wport \in [WPorts -> WPortType]
    BY DEF Types
  <2>6. /\ wport'[w].magic = wport[w].magic /\ wport'[w].mode = wport[w].mode
        /\ wport'[w].buf = buf /\ wport'[w].rp_list = wport[w].rp_list
    BY ONLY <2>4, <2>5, w \in WPorts
  <2>7. QED
    BY <2>2, <2>3, <2>6
<1>2. \A v \in WPorts : WriteOK(v) /\ OpenOn(v)' = OpenOn(v)
  BY DEF PacketInv, OpenOn
<1>3. After(old, 0) /\ UpTo(old, a) /\ wport[w].rp_list = <<>>
  BY <1>a, <1>b, <1>2 DEF WriteOK
<1>4. OpenOn(w) = {}
  BY <1>2, <1>3, NoReader
<1>5. /\ buf \in Buffers /\ After(buf, 0) /\ UpTo(buf, a + count)
      /\ Len(buf) = Len(old) + count
      /\ \A i \in 1 .. Len(buf) : buf[i] = IF i <= Len(old) THEN old[i] ELSE a + i - Len(old)
  <2>1. 0 <= a /\ Room(old, count)
    BY <1>a, <1>1
  <2>2. QED
    BY ONLY <1>1, <1>3, <2>1, count \in Nat, AppendPackets
<1>6. wport[w].mode = "UNICAST" => Exactly(old, w)
  BY <1>a, <1>2 DEF WriteOK
<1> HIDE DEF buf
<1>7. wport[w].mode = "UNICAST" => Exactly(buf, w)'
  <2> SUFFICES ASSUME wport[w].mode = "UNICAST" PROVE Exactly(buf, w)'
    OBVIOUS
  <2>1. /\ delivered[w] <= a /\ Len(old) = a - delivered[w]
        /\ \A i \in 1 .. Len(old) : old[i] = delivered[w] + i
    BY <1>b, <1>6 DEF Exactly
  <2>2. Len(buf) = (a + count) - delivered[w] /\ delivered[w] <= a + count
    BY <1>1, <1>5, <2>1
  <2>3. ASSUME NEW i \in 1 .. Len(buf) PROVE buf[i] = delivered[w] + i
    <3>1. CASE i <= Len(old)
      BY <1>1, <1>5, <2>1, <3>1
    <3>2. CASE ~(i <= Len(old))
      BY <1>1, <1>5, <2>1, <3>2
    <3>3. QED
      BY <3>1, <3>2
  <2>4. QED
    BY <1>1, <1>5, <2>2, <2>3 DEF Exactly
<1>8. WriteOK(w)'
  <2>1. buf # None
    BY <1>5, BufferIsNotNone
  <2>2. wport[w].mode \in Modes /\ Lists(wport[w].rp_list, OpenOn(w))
    BY <1>2 DEF WriteOK
  <2>3. QED
    BY <1>1, <1>2, <1>3, <1>4, <1>5, <1>7, <2>1, <2>2 DEF WriteOK
<1>9. ASSUME NEW v \in WPorts \ {w} PROVE WriteOK(v)'
  BY <1>1, <1>2, WriteKept
<1>10. ASSUME NEW r \in RPorts PROVE ReadOK(r)'
  <2>1. ReadOK(r) /\ rport[r].wport \in WPorts \cup {None}
    BY DEF PacketInv, Types
  <2>2. \A v \in WPorts : accepted'[v] \in Nat /\ accepted[v] \in Nat /\ accepted'[v] >= accepted[v]
    <3>1. accepted \in [WPorts -> Nat]
      BY DEF Types
    <3>2. QED
      BY ONLY <3>1, accepted' = [accepted EXCEPT ![w] = @ + count], count \in Nat
  <2>3. QED
    BY <2>1, <2>2, ReadKept
<1>11. Lists(write_port_list, {v \in WPorts : wport[v].magic # "0"})'
  <2>1. {v \in WPorts : wport'[v].magic # "0"} = {v \in WPorts : wport[v].magic # "0"}
    BY <1>1
  <2>2. QED
    BY <2>1 DEF PacketInv
<1>12. QED
  BY <1>8, <1>9, <1>10, <1>11 DEF PacketInv

\* port_write into the buffers of the read ports that have room.
LEMMA WriteReaderPackets ==
    ASSUME Types, PacketInv, NEW w \in WPorts, NEW count \in Nat, wport[w].magic = "W",
           wport[w].buf = None,
           NEW takers \in SUBSET OpenOn(w), takers # {},
           \A r \in takers : Room(rport[r].buf, count),
           rport' = [r \in RPorts |-> IF r \in takers
                                      THEN [rport[r] EXCEPT !.buf = @ \o Packets(w, count)]
                                      ELSE rport[r]],
           accepted' = [accepted EXCEPT ![w] = @ + count],
           UNCHANGED <<write_port_list, wport, delivered, last>>
    PROVE  PacketInv'
<1>0. PICK a : a = accepted[w]
  OBVIOUS
<1> DEFINE P == [i \in 1 .. count |-> a + i]
<1>1. /\ \A v \in WPorts \ {w} : accepted'[v] = accepted[v]
      /\ accepted'[w] = a + count /\ a \in Nat /\ delivered[w] \in Nat
      /\ \A v \in WPorts : accepted[v] \in Nat /\ accepted'[v] \in Nat /\ accepted[v] <= accepted'[v]
  <2>1. accepted \in [WPorts -> Nat] /\ delivered \in [WPorts -> Nat]
    BY DEF Types
  <2>2. QED
    BY ONLY <1>0, <2>1, accepted' = [accepted EXCEPT ![w] = @ + count], count \in Nat, w \in WPorts
<1>2. \A v \in WPorts : WriteOK(v)
  BY DEF PacketInv
<1>3. takers \subseteq OpenOn(w) /\ \A r \in takers : Room(rport[r].buf, count)
  OBVIOUS
<1>4. \A r \in RPorts :
         /\ rport'[r].magic = rport[r].magic /\ rport'[r].wport = rport[r].wport
         /\ rport'[r].buf = IF r \in takers THEN rport[r].buf \o P ELSE rport[r].buf
  <2>1. Packets(w, count) = P
    BY <1>0 DEF Packets
  <2> HIDE DEF P
  <2>2. rport \in [RPorts -> RPortType]
    BY DEF Types
  <2>3. ASSUME NEW r \in RPorts
        PROVE  /\ rport'[r].magic = rport[r].magic /\ rport'[r].wport = rport[r].wport
               /\ rport'[r].buf = IF r \in takers THEN rport[r].buf \o P ELSE rport[r].buf
    <3>1. CASE r \in takers
      <4>1. rport'[r] = [rport[r] EXCEPT !.buf = @ \o P]
        BY <2>1, <3>1
      <4>2. rport[r] \in RPortType
        BY <2>2
      <4>3. QED
        BY ONLY <3>1, <4>1, <4>2
    <3>2. CASE r \notin takers
      BY <3>2
    <3>3. QED
      BY <3>1, <3>2
  <2>4. QED
    BY <2>3
<1>5. \A v \in WPorts : OpenOn(v)' = OpenOn(v)
  BY <1>4 DEF OpenOn
<1>6. ASSUME NEW r \in takers
      PROVE  /\ After(rport[r].buf, last[r]) /\ UpTo(rport[r].buf, a) /\ last[r] <= a
             /\ last[r] \in Nat /\ r \in RPorts /\ rport[r].wport = w /\ rport[r].magic = "R"
             /\ rport[r].buf \o P \in Buffers /\ After(rport[r].buf \o P, last[r])
             /\ UpTo(rport[r].buf \o P, a + count)
             /\ Len(rport[r].buf \o P) = Len(rport[r].buf) + count
             /\ \A i \in 1 .. Len(rport[r].buf \o P) :
                   (rport[r].buf \o P)[i]
                     = IF i <= Len(rport[r].buf) THEN rport[r].buf[i] ELSE a + i - Len(rport[r].buf)
  <2>1. r \in RPorts /\ rport[r].magic = "R" /\ rport[r].wport = w
    BY <1>3, <1>6 DEF OpenOn
  <2>2. w # None
    BY PortAssumption
  <2>3. ReadOK(r)
    BY <2>1 DEF PacketInv
  <2>4. /\ After(rport[r].buf, last[r]) /\ UpTo(rport[r].buf, a) /\ last[r] <= a
    BY <1>0, <2>1, <2>2, <2>3 DEF ReadOK
  <2>5. last[r] \in Nat
    BY <2>1 DEF Types
  <2>6. Room(rport[r].buf, count)
    BY <1>3, <1>6
  <2>7. QED
    <3> DEFINE s == rport[r].buf
               lo == last[r]
    <3>1. /\ lo \in Nat /\ a \in Nat /\ lo <= a /\ After(s, lo) /\ UpTo(s, a)
          /\ count \in Nat /\ Room(s, count)
      BY <1>1, <2>4, <2>5, <2>6
    <3> HIDE DEF s, lo
    <3>2. LET t == s \o P
          IN  /\ t \in Buffers /\ After(t, lo) /\ UpTo(t, a + count)
              /\ Len(t) = Len(s) + count
              /\ \A i \in 1 .. Len(t) : t[i] = IF i <= Len(s) THEN s[i] ELSE a + i - Len(s)
      BY ONLY <3>1, AppendPackets
    <3> HIDE DEF P
    <3> USE DEF s, lo
    <3>3. QED
      BY ONLY <2>1, <2>4, <2>5, <3>2
<1> HIDE DEF P
<1>7. ASSUME NEW r \in RPorts PROVE ReadOK(r)'
  <2>1. CASE r \in takers
    <3>1. /\ rport'[r].buf = rport[r].buf \o P /\ rport'[r].wport = w
          /\ rport'[r].magic = "R"
      BY <1>4, <1>6, <2>1
    <3>2. After(rport'[r].buf, last[r]) /\ UpTo(rport'[r].buf, a + count)
      BY <1>6, <2>1, <3>1
    <3>3. last[r] <= a + count
      BY <1>1, <1>6, <2>1
    <3>4. QED
      BY <1>1, <3>1, <3>2, <3>3 DEF ReadOK
  <2>2. CASE r \notin takers
    <3>1. ReadOK(r) /\ rport[r].wport \in WPorts \cup {None}
      BY DEF PacketInv, Types
    <3>2. rport[r].wport # None => /\ accepted'[rport[r].wport] \in Nat
                                   /\ accepted'[rport[r].wport] >= accepted[rport[r].wport]
      BY <1>1, <3>1
    <3>3. QED
      BY <1>4, <2>2, <3>1, <3>2, ReadKept
  <2>3. QED
    BY <2>1, <2>2
<1>8. ASSUME NEW v \in WPorts \ {w} PROVE WriteOK(v)'
  <2>1. \A r \in OpenOn(v) : r \in RPorts /\ r \notin takers
    BY <1>3 DEF OpenOn
  <2>2. \A r \in OpenOn(v) : rport'[r].buf = rport[r].buf
    BY <1>4, <2>1
  <2>3. QED
    BY <1>1, <1>2, <1>5, <2>2, WriteKept
<1>9. WriteOK(w)'
  <2>1. ASSUME wport[w].mode = "UNICAST", NEW r \in OpenOn(w)
        PROVE  Exactly(rport[r].buf, w)'
    <3>1. r \in takers /\ r \in RPorts
      <4>1. \A q, p \in OpenOn(w) : q = p
        BY <1>2, <2>1 DEF WriteOK
      <4>2. PICK q \in takers : TRUE
        OBVIOUS
      <4>3. r = q
        BY <1>3, <2>1, <4>1, <4>2
      <4>4. QED
        BY <2>1, <4>2, <4>3 DEF OpenOn
    <3>2. PICK old : old = rport[r].buf
      OBVIOUS
    <3>3. PICK buf : buf = old \o P
      OBVIOUS
    <3>4. rport'[r].buf = buf
      BY <1>4, <3>1, <3>2, <3>3
    <3>5. /\ buf \in Buffers
          /\ Len(buf) = Len(old) + count
          /\ \A i \in 1 .. Len(buf) : buf[i] = IF i <= Len(old) THEN old[i] ELSE a + i - Len(old)
      BY ONLY <1>6, <3>1, <3>2, <3>3
    <3>6. Exactly(old, w)
      BY <1>2, <2>1, <3>2 DEF WriteOK
    <3>7. /\ delivered[w] <= a /\ Len(old) = a - delivered[w]
          /\ \A i \in 1 .. Len(old) : old[i] = delivered[w] + i
      BY <1>0, <3>6 DEF Exactly
    <3>8. Len(buf) = (a + count) - delivered[w] /\ delivered[w] <= a + count
      <4>1. Len(old) \in Nat
        BY <1>1, <3>7
      <4>2. QED
        BY ONLY <1>1, <3>5, <3>7, <4>1, count \in Nat
    <3>9. ASSUME NEW i \in 1 .. Len(buf) PROVE buf[i] = delivered[w] + i
      <4>1. CASE i <= Len(old)
        BY <1>1, <3>5, <3>7, <4>1
      <4>2. CASE ~(i <= Len(old))
        BY <1>1, <3>5, <3>7, <4>2
      <4>3. QED
        BY <4>1, <4>2
    <3>10. QED
      BY <1>1, <3>4, <3>5, <3>8, <3>9 DEF Exactly
  <2>2. WriteOK(w)
    BY <1>2
  <2>3. QED
    BY <1>5, <2>1, <2>2 DEF WriteOK
<1>10. QED
  BY <1>7, <1>8, <1>9 DEF PacketInv

\* buf_read from an open port that has a packet.
LEMMA TakePackets ==
    ASSUME Types, PacketInv, NEW r \in RPorts, rport[r].magic = "R", HasPacket(r), Take(r)
    PROVE  PacketInv'
<1>a. PICK w : w = rport[r].wport
  OBVIOUS
<1>b. PICK old : old = rport[r].buf
  OBVIOUS
<1>1. /\ \A q \in RPorts \ {r} : rport'[q] = rport[q]
      /\ rport'[r].magic = "R" /\ rport'[r].wport = w /\ rport'[r].buf = Tail(old)
      /\ w \in WPorts \cup {None}
  <2>1. rport \in [RPorts -> RPortType]
    BY DEF Types
  <2>2. rport' = [rport EXCEPT ![r].buf = Tail(@)]
    BY DEF Take
  <2>3. QED
    BY ONLY <1>a, <1>b, <2>1, <2>2, r \in RPorts, rport[r].magic = "R"
<1>2. \A v \in WPorts : WriteOK(v)
  BY DEF PacketInv
<1>3. /\ After(old, last[r]) /\ old # <<>> /\ last[r] \in Nat
      /\ w # None => UpTo(old, accepted[w]) /\ last[r] <= accepted[w]
  BY <1>a, <1>b DEF PacketInv, ReadOK, HasPacket, Types
<1>4. /\ Head(old) \in Nat /\ Head(old) = old[1] /\ last[r] < Head(old)
      /\ Tail(old) \in Buffers /\ After(Tail(old), Head(old)) /\ After(Tail(old), last[r])
      /\ Len(old) >= 1 /\ Len(Tail(old)) = Len(old) - 1
      /\ \A i \in 1 .. Len(Tail(old)) : Tail(old)[i] = old[i + 1] /\ i + 1 \in 1 .. Len(old)
  BY <1>3, TailPackets
<1>5. w # None => UpTo(Tail(old), accepted[w]) /\ Head(old) <= accepted[w]
  <2>1. Len(old) \in Nat
    BY <1>3 DEF After, Buffers
  <2>2. 1 \in 1 .. Len(old)
    BY <1>4, <2>1
  <2>3. QED
    BY <1>3, <1>4, <2>2 DEF UpTo
<1>6. PICK new : new = Tail(old)
  OBVIOUS
<1>7. \A v \in WPorts : OpenOn(v)' = OpenOn(v)
  BY <1>a, <1>1 DEF OpenOn
<1>8. Lists(write_port_list, {v \in WPorts : wport[v].magic # "0"})'
  BY DEF PacketInv, Take
<1>9. UNCHANGED <<wport, accepted>>
  BY DEF Take
<1>10. \A v \in WPorts : accepted[v] \in Nat
  BY DEF Types
<1>11. ASSUME NEW q \in RPorts \ {r}, last'[q] = last[q] PROVE ReadOK(q)'
  <2>1. ReadOK(q) /\ rport[q].wport \in WPorts \cup {None}
    BY DEF PacketInv, Types
  <2>2. rport[q].wport # None => /\ accepted'[rport[q].wport] \in Nat
                                 /\ accepted'[rport[q].wport] >= accepted[rport[q].wport]
    BY <1>9, <1>10, <2>1
  <2>3. QED
    BY <1>1, <1>11, <2>1, <2>2, ReadKept
<1>12. ASSUME NEW v \in WPorts, v # w, delivered'[v] = delivered[v] PROVE WriteOK(v)'
  <2>1. \A q \in OpenOn(v) : q \in RPorts /\ q # r
    BY <1>a, <1>12 DEF OpenOn
  <2>2. \A q \in OpenOn(v) : rport'[q].buf = rport[q].buf
    BY <1>1, <2>1
  <2>3. QED
    BY <1>2, <1>7, <1>9, <1>12, <2>2, WriteKept
<1>13. CASE w # None /\ wport[w].mode = "UNICAST"
  <2>1. delivered' = [delivered EXCEPT ![w] = Head(old)] /\ UNCHANGED last
    BY <1>a, <1>b, <1>13 DEF Take
  <2>2. w \in WPorts /\ r \in OpenOn(w)
    BY <1>a, <1>1, <1>13 DEF OpenOn
  <2>3. delivered'[w] = Head(old) /\ \A v \in WPorts \ {w} : delivered'[v] = delivered[v]
    BY <2>1, <2>2 DEF Types
  <2>4. ReadOK(r)'
    BY <1>1, <1>3, <1>4, <1>5, <1>9, <2>1 DEF ReadOK
  <2>5. wport[w].magic # "0" /\ wport[w].buf = None
    <3>1. wport[w].rp_list # <<>>
      BY <1>2, <2>2, NoReader
    <3>2. QED
      BY <1>2, <2>2, <3>1 DEF WriteOK
  <2>6. Exactly(old, w)
    BY <1>b, <1>2, <1>13, <2>2, <2>5 DEF WriteOK
  <2>7. Exactly(new, w)'
    <3>1. /\ delivered[w] \in Nat /\ accepted[w] \in Nat /\ Len(old) = accepted[w] - delivered[w]
          /\ \A i \in 1 .. Len(old) : old[i] = delivered[w] + i
      BY <2>2, <2>6 DEF Exactly, Types
    <3>2. 1 \in 1 .. Len(old)
      BY <1>4, <3>1
    <3>3. Head(old) = delivered[w] + 1
      BY <1>4, <3>1, <3>2
    <3>4. ASSUME NEW i \in 1 .. Len(new) PROVE new[i] = Head(old) + i
      <4>1. new[i] = old[i + 1] /\ i + 1 \in 1 .. Len(old)
        BY ONLY <1>4, <1>6, i \in 1 .. Len(new)
      <4>2. old[i + 1] = delivered[w] + (i + 1)
        BY ONLY <3>1, <4>1
      <4>3. QED
        <5>1. i \in Int
          BY <1>4, <1>6, <3>1
        <5>2. delivered[w] \in Nat
          BY <3>1
        <5>3. QED
          BY ONLY <3>3, <4>1, <4>2, <5>1, <5>2
    <3>5. Len(new) = accepted[w] - Head(old) /\ Head(old) <= accepted[w]
      BY <1>4, <1>6, <3>1, <3>3
    <3>6. new \in Buffers
      BY <1>4, <1>6
    <3>7. QED
      BY <1>9, <2>3, <3>4, <3>5, <3>6 DEF Exactly
  <2>8. WriteOK(w)'
    <3>1. \A q \in OpenOn(w) : q = r
      BY <1>2, <1>13, <2>2, <2>5 DEF WriteOK
    <3>2. rport'[r].buf = new
      BY <1>1, <1>6
    <3>3. \A q \in OpenOn(w) : Exactly(rport[q].buf, w)'
      BY <2>7, <3>1, <3>2
    <3>4. QED
      BY <1>2, <1>7, <1>9, <2>2, <2>5, <3>3 DEF WriteOK
  <2>9. QED
    BY <1>8, <1>11, <1>12, <2>1, <2>3, <2>4, <2>8 DEF PacketInv
<1>14. CASE ~(w # None /\ wport[w].mode = "UNICAST")
  <2>1. last' = [last EXCEPT ![r] = Head(old)] /\ UNCHANGED delivered
    BY <1>a, <1>b, <1>14 DEF Take
  <2>2. last'[r] = Head(old) /\ \A q \in RPorts \ {r} : last'[q] = last[q]
    BY <2>1 DEF Types
  <2>3. ReadOK(r)'
    BY <1>1, <1>4, <1>5, <1>9, <2>2 DEF ReadOK
  <2>4. ASSUME w \in WPorts PROVE WriteOK(w)'
    <3>1. wport[w].mode # "UNICAST"
      BY <1>14, <2>4, PortAssumption
    <3>2. QED
      BY <1>2, <1>7, <1>9, <2>4, <3>1 DEF WriteOK
  <2>5. QED
    BY <1>8, <1>11, <1>12, <2>1, <2>2, <2>3, <2>4 DEF PacketInv
<1>15. QED
  BY <1>13, <1>14

\* buf_read from a port that is being closed.
LEMMA TakeClosingPackets ==
    ASSUME Types, PacketInv, NEW r \in RPorts, rport[r].magic = "closing", rport[r].buf # None,
           HasPacket(r), Take(r)
    PROVE  PacketInv'
<1>1. PICK old : old = rport[r].buf
  OBVIOUS
<1>2. /\ \A q \in RPorts \ {r} : rport'[q] = rport[q]
      /\ rport'[r].magic = "closing" /\ rport'[r].buf = Tail(old)
  <2>1. rport \in [RPorts -> RPortType]
    BY DEF Types
  <2>2. rport' = [rport EXCEPT ![r].buf = Tail(@)]
    BY DEF Take
  <2>3. QED
    BY ONLY <1>1, <2>1, <2>2, r \in RPorts, rport[r].magic = "closing"
<1>3. /\ UNCHANGED <<write_port_list, wport, accepted, delivered>>
      /\ last' = [last EXCEPT ![r] = Head(old)]
  BY <1>1 DEF Take
<1>4. last'[r] = Head(old) /\ \A q \in RPorts \ {r} : last'[q] = last[q]
  BY <1>3 DEF Types
<1>5. After(old, last[r]) /\ old # <<>> /\ last[r] \in Nat
  BY <1>1 DEF PacketInv, ReadOK, HasPacket, Types
<1>6. After(Tail(old), Head(old))
  BY <1>5, TailPackets
<1>7. ReadOK(r)'
  BY <1>2, <1>4, <1>6 DEF ReadOK
<1>8. ASSUME NEW q \in RPorts \ {r} PROVE ReadOK(q)'
  <2>1. ReadOK(q) /\ (rport[q].wport # None => accepted[rport[q].wport] \in Nat)
    BY DEF PacketInv, Types
  <2>2. QED
    BY <1>2, <1>3, <1>4, <2>1, ReadKept
<1>9. ASSUME NEW v \in WPorts PROVE WriteOK(v)'
  <2>1. OpenOn(v)' = OpenOn(v) /\ \A q \in OpenOn(v) : q \in RPorts \ {r}
    BY <1>2 DEF OpenOn
  <2>2. \A q \in OpenOn(v) : rport'[q].buf = rport[q].buf
    BY <1>2, <2>1
  <2>3. WriteOK(v)
    BY DEF PacketInv
  <2>4. QED
    BY <1>3, <2>1, <2>2, <2>3, WriteKept
<1>10. QED
  BY <1>3, <1>7, <1>8, <1>9 DEF PacketInv

\* port_destroy.
LEMMA DestroyPackets ==
    ASSUME Types, PacketInv, NEW w \in WPorts, wport[w].magic = "X",
           write_port_list' = list_delete(write_port_list, w),
           wport' = [wport EXCEPT ![w] = NoWPort],
           rport' = [r \in RPorts |-> IF r \in ToSet(wport[w].rp_list)
                                      THEN [rport[r] EXCEPT !.wport = None] ELSE rport[r]],
           accepted' = [accepted EXCEPT ![w] = 0], delivered' = [delivered EXCEPT ![w] = 0],
           UNCHANGED last
    PROVE  PacketInv'
<1>1. /\ \A v \in WPorts \ {w} : /\ wport'[v] = wport[v] /\ accepted'[v] = accepted[v]
                                 /\ delivered'[v] = delivered[v]
      /\ wport'[w].magic = "0" /\ wport'[w].rp_list = <<>>
  BY DEF Types, NoWPort
<1>2. \A v \in WPorts : WriteOK(v)
  BY DEF PacketInv
<1>3. ToSet(wport[w].rp_list) = OpenOn(w)
  BY <1>2, ListsToSet DEF WriteOK
<1>4. ASSUME NEW r \in RPorts
      PROVE  /\ rport'[r].magic = rport[r].magic /\ rport'[r].buf = rport[r].buf
             /\ rport'[r].wport = IF r \in OpenOn(w) THEN None ELSE rport[r].wport
  <2>1. rport[r] \in RPortType
    BY DEF Types
  <2>2. rport'[r] = IF r \in OpenOn(w) THEN [rport[r] EXCEPT !.wport = None] ELSE rport[r]
    BY <1>3
  <2>3. QED
    BY ONLY <2>1, <2>2
<1>5. w # None
  BY PortAssumption
<1>6. OpenOn(w)' = {} /\ \A v \in WPorts \ {w} : OpenOn(v)' = OpenOn(v)
  <2>1. OpenOn(w)' = {}
    BY <1>4, <1>5 DEF OpenOn
  <2>2. ASSUME NEW v \in WPorts \ {w} PROVE OpenOn(v)' = OpenOn(v)
    <3>1. v # None
      BY PortAssumption
    <3>2. QED
      BY <1>4, <3>1 DEF OpenOn
  <2>3. QED
    BY <2>1, <2>2
<1>7. Lists(write_port_list, {v \in WPorts : wport[v].magic # "0"})'
  <2>1. {v \in WPorts : wport'[v].magic # "0"} = {v \in WPorts : wport[v].magic # "0"} \ {w}
    BY <1>1
  <2>2. QED
    BY <2>1, ListDelete DEF PacketInv
<1>8. WriteOK(w)'
  <2>1. Lists(<<>>, {})
    BY DEF Lists
  <2>2. QED
    BY <1>1, <1>6, <2>1 DEF WriteOK
<1>9. ASSUME NEW v \in WPorts \ {w} PROVE WriteOK(v)'
  <2>1. \A r \in OpenOn(v) : rport'[r].buf = rport[r].buf
    BY <1>4 DEF OpenOn
  <2>2. QED
    BY <1>1, <1>2, <1>6, <2>1, WriteKept
<1>10. ASSUME NEW r \in RPorts PROVE ReadOK(r)'
  <2>1. ReadOK(r) /\ rport[r].wport \in WPorts \cup {None}
    BY DEF PacketInv, Types
  <2>2. rport'[r].wport \in {rport[r].wport, None}
    BY <1>4
  <2>3. ASSUME rport[r].magic = "R", rport'[r].wport # None
        PROVE  /\ accepted'[rport[r].wport] \in Nat
               /\ accepted'[rport[r].wport] >= accepted[rport[r].wport]
    <3>1. rport[r].wport \in WPorts \ {w}
      BY <1>4, <2>1, <2>3 DEF OpenOn
    <3>2. accepted[rport[r].wport] \in Nat
      BY <3>1 DEF Types
    <3>3. QED
      BY <1>1, <3>1, <3>2
  <2>4. QED
    BY <1>4, <2>1, <2>2, <2>3, ReadKept
<1>11. QED
  BY <1>7, <1>8, <1>9, <1>10 DEF PacketInv

\* port_close of a read port: the buffer of the last one goes back.
LEMMA ClosePackets ==
    ASSUME Types, PacketInv, fault = "none", NEW r \in RPorts, port_close_read(r), fault' = fault
    PROVE  PacketInv'
<1>a. PICK w : w = rport[r].wport
  OBVIOUS
<1>b. PICK others : others = list_delete(wport[w].rp_list, r)
  OBVIOUS
<1>c. PICK kept : kept = IF w # None /\ others = <<>> THEN None ELSE rport[r].buf
  OBVIOUS
<1>d. PICK new : new = IF wait[r] = <<>> THEN NoRPort
                       ELSE [rport[r] EXCEPT !.magic = "closing", !.buf = kept]
  OBVIOUS
<1> USE <1>a, <1>b
<1>0. /\ rport[r].magic = "R"
      /\ rport' = [rport EXCEPT ![r] = new]
      /\ wport' = IF w = None THEN wport
                  ELSE [wport EXCEPT ![w].rp_list = others,
                                     ![w].buf = IF others = <<>> THEN rport[r].buf ELSE None]
      /\ last' = [last EXCEPT ![r] = IF wait[r] = <<>> THEN 0 ELSE @]
      /\ UNCHANGED <<write_port_list, accepted, delivered>>
  <2>1. rport[r].magic = "R"
    BY DEF port_close_read, Fault, IsReadPort
  <2>2. QED
    BY <1>c, <1>d, <2>1 DEF port_close_read, Fault
<1>00. UNCHANGED <<write_port_list, accepted, delivered>> /\ rport[r].magic = "R"
  BY <1>0
<1>01. wport' = IF w = None THEN wport
                  ELSE [wport EXCEPT ![w].rp_list = others,
                                     ![w].buf = IF others = <<>> THEN rport[r].buf ELSE None]
  BY <1>0
<1>1. /\ \A q \in RPorts \ {r} : rport'[q] = rport[q] /\ last'[q] = last[q]
      /\ \/ rport'[r] = NoRPort
         \/ /\ rport'[r].magic = "closing" /\ rport'[r].buf \in {None, rport[r].buf}
            /\ last'[r] = last[r]
      /\ w \in WPorts \cup {None}
  <2>1. rport \in [RPorts -> RPortType] /\ last \in [RPorts -> Nat] /\ w \in WPorts \cup {None}
    BY DEF Types
  <2>2. \A q \in RPorts \ {r} : rport'[q] = rport[q] /\ last'[q] = last[q]
    BY ONLY <1>0, <2>1, r \in RPorts
  <2>3. CASE wait[r] = <<>>
    BY <1>d, <1>0, <2>1, <2>2, <2>3
  <2>4. CASE wait[r] # <<>>
    <3>1. rport'[r] = [rport[r] EXCEPT !.magic = "closing", !.buf = kept]
      BY ONLY <1>d, <1>0, <2>1, <2>4, r \in RPorts
    <3>2. rport[r] \in RPortType
      BY <2>1
    <3>3. rport'[r].magic = "closing" /\ rport'[r].buf \in {None, rport[r].buf}
      BY ONLY <1>c, <3>1, <3>2
    <3>4. last'[r] = last[r]
      BY ONLY <1>0, <2>1, <2>4, r \in RPorts
    <3>5. QED
      BY <2>1, <2>2, <3>3, <3>4
  <2>5. QED
    BY <2>3, <2>4
<1> USE <1>00, <1>01
<1>2. \A v \in WPorts : WriteOK(v)
  BY DEF PacketInv
<1>3. \A v \in WPorts : OpenOn(v)' = OpenOn(v) \ {r}
  <2>1. rport'[r].magic # "R"
    BY <1>1 DEF NoRPort
  <2>2. QED
    BY <1>1, <2>1 DEF OpenOn
<1>4. \A v \in WPorts \ {w} : r \notin OpenOn(v)
  BY DEF OpenOn
<1>5. \A v \in WPorts \ {w} : wport'[v] = wport[v]
  BY <1>1 DEF Types
<1>6. ASSUME NEW q \in RPorts PROVE ReadOK(q)'
  <2>1. CASE q = r
    <3>1. After(rport[r].buf, last[r])
      BY DEF PacketInv, ReadOK
    <3>2. CASE rport'[r] = NoRPort
      BY <2>1, <3>2 DEF ReadOK, NoRPort
    <3>3. CASE rport'[r].magic = "closing" /\ rport'[r].buf \in {None, rport[r].buf}
               /\ last'[r] = last[r]
      BY <2>1, <3>1, <3>3 DEF ReadOK
    <3>4. QED
      BY <1>1, <3>2, <3>3
  <2>2. CASE q # r
    <3>1. ReadOK(q) /\ (rport[q].wport # None => accepted[rport[q].wport] \in Nat)
      BY DEF PacketInv, Types
    <3>2. QED
      BY <1>1, <2>2, <3>1, ReadKept
  <2>3. QED
    BY <2>1, <2>2
<1>7. ASSUME NEW v \in WPorts \ {w} PROVE WriteOK(v)'
  <2>1. \A q \in OpenOn(v) : q \in RPorts \ {r}
    BY <1>4 DEF OpenOn
  <2>2. \A q \in OpenOn(v) : rport'[q].buf = rport[q].buf
    BY <1>1, <2>1
  <2>3. OpenOn(v)' = OpenOn(v)
    BY <1>3, <1>4
  <2>4. QED
    BY <1>2, <1>5, <2>2, <2>3, WriteKept
<1>8. CASE w = None
  <2>1. \A v \in WPorts : v \in WPorts \ {w}
    BY <1>8, PortAssumption
  <2>2. wport' = wport
    BY <1>8
  <2>3. QED
    BY <1>6, <1>7, <2>1, <2>2 DEF PacketInv
<1>9. CASE w # None
  <2>1. w \in WPorts /\ r \in OpenOn(w)
    BY <1>1, <1>9 DEF OpenOn
  <2>2. PICK buf : buf = IF others = <<>> THEN rport[r].buf ELSE None
    OBVIOUS
  <2>3. /\ wport'[w].magic = wport[w].magic /\ wport'[w].mode = wport[w].mode
        /\ wport'[w].rp_list = others /\ wport'[w].buf = buf
    <3>1. wport \in [WPorts -> WPortType]
      BY DEF Types
    <3>2. wport' = [wport EXCEPT ![w].rp_list = others, ![w].buf = buf]
      BY <1>9, <2>2
    <3>3. QED
      BY ONLY <2>1, <3>1, <3>2
  <2>3a. {v \in WPorts : wport'[v].magic # "0"} = {v \in WPorts : wport[v].magic # "0"}
    BY ONLY <1>5, <2>1, <2>3
  <2>4. Lists(others, OpenOn(w) \ {r})
    BY <1>2, <2>1, ListDelete DEF WriteOK
  <2>5. wport[w].magic # "0"
    <3>1. wport[w].rp_list # <<>>
      BY <1>2, <2>1, NoReader
    <3>2. QED
      BY <1>2, <2>1, <3>1 DEF WriteOK
  <2>6. CASE others = <<>>
    <3>1. buf = rport[r].buf /\ OpenOn(w)' = {}
      BY <1>3, <2>1, <2>2, <2>4, <2>6, ListsEmpty
    <3>2. After(buf, last[r]) /\ UpTo(buf, accepted[w]) /\ last[r] \in Nat
      BY <1>9, <3>1 DEF PacketInv, ReadOK, Types
    <3>3. After(buf, 0) /\ buf # None
      <4>1. \A i \in 1 .. Len(buf) : buf[i] \in Nat /\ 0 < buf[i]
        BY <3>2 DEF After, Buffers
      <4>2. buf # None
        BY <3>2, BufferIsNotNone DEF After
      <4>3. QED
        BY <3>2, <4>1, <4>2 DEF After
    <3>4. wport[w].mode = "UNICAST" => Exactly(buf, w)'
      <4>1. wport[w].mode = "UNICAST" => Exactly(buf, w)
        BY <1>2, <2>1, <2>5, <3>1 DEF WriteOK
      <4>2. QED
        BY <4>1 DEF Exactly
    <3>5. WriteOK(w)'
      <4>1. WriteOK(w) /\ OpenOn(w)' = OpenOn(w) \ {r} /\ accepted' = accepted
        BY <1>2, <1>3, <2>1
      <4>2. QED
        BY ONLY <2>1, <2>3, <2>4, <2>5, <2>6, <3>1, <3>2, <3>3, <3>4, <4>1 DEF WriteOK
    <3>6. QED
      BY <1>00, <1>6, <1>7, <2>3a, <3>5 DEF PacketInv
  <2>7. CASE others # <<>>
    <3>1. buf = None
      BY <2>2, <2>7
    <3>2. wport[w].mode = "UNICAST"
            => /\ \A q, p \in OpenOn(w) \ {r} : q = p
               /\ \A q \in OpenOn(w) \ {r} : Exactly(rport[q].buf, w)'
      <4>1. \A q \in OpenOn(w) \ {r} : rport'[q] = rport[q]
        BY <1>1 DEF OpenOn
      <4>2. wport[w].mode = "UNICAST" => /\ \A q, p \in OpenOn(w) : q = p
                                         /\ \A q \in OpenOn(w) : Exactly(rport[q].buf, w)
        BY <1>2, <2>1, <2>5 DEF WriteOK
      <4>3. QED
        BY <4>1, <4>2 DEF Exactly
    <3>3. WriteOK(w)'
      <4>1. WriteOK(w) /\ OpenOn(w)' = OpenOn(w) \ {r}
        BY <1>2, <1>3, <2>1
      <4>2. QED
        BY ONLY <2>1, <2>3, <2>4, <2>5, <2>7, <3>1, <3>2, <4>1 DEF WriteOK
    <3>4. QED
      BY <1>00, <1>6, <1>7, <2>3a, <3>3 DEF PacketInv
  <2>8. QED
    BY <2>6, <2>7
<1>10. QED
  BY <1>8, <1>9

\* The memory of a read port is freed.
LEMMA CloseReadEndPackets ==
    ASSUME Types, PacketInv, NEW r \in RPorts, rport[r].magic = "closing",
           rport' = [rport EXCEPT ![r] = NoRPort], last' = [last EXCEPT ![r] = 0],
           UNCHANGED <<write_port_list, wport, accepted, delivered>>
    PROVE  PacketInv'
<1>1. /\ \A q \in RPorts \ {r} : rport'[q] = rport[q] /\ last'[q] = last[q]
      /\ rport'[r] = NoRPort
  BY DEF Types
<1>2. ReadOK(r)'
  BY <1>1 DEF ReadOK, NoRPort
<1>3. ASSUME NEW q \in RPorts \ {r} PROVE ReadOK(q)'
  <2>1. ReadOK(q) /\ (rport[q].wport # None => accepted[rport[q].wport] \in Nat)
    BY DEF PacketInv, Types
  <2>2. QED
    BY <1>1, <2>1, ReadKept
<1>4. ASSUME NEW v \in WPorts PROVE WriteOK(v)'
  <2>1. OpenOn(v)' = OpenOn(v) /\ \A q \in OpenOn(v) : q \in RPorts \ {r}
    BY <1>1 DEF OpenOn, NoRPort
  <2>2. \A q \in OpenOn(v) : rport'[q].buf = rport[q].buf
    BY <1>1, <2>1
  <2>3. WriteOK(v)
    BY DEF PacketInv
  <2>4. QED
    BY <2>1, <2>2, <2>3, WriteKept
<1>5. QED
  BY <1>2, <1>3, <1>4 DEF PacketInv

\* port_close of a write port.
LEMMA CloseWritePackets ==
    ASSUME Types, PacketInv, NEW w \in WPorts, port_close_write(w)
    PROVE  PacketInv'
<1>1. /\ wport[w].magic = "W" /\ wport' = [wport EXCEPT ![w].magic = "X"]
      /\ UNCHANGED <<write_port_list, rport, accepted, delivered, last>>
  BY DEF port_close_write, ghosts
<1>2. /\ \A v \in WPorts : /\ wport'[v].buf = wport[v].buf /\ wport'[v].mode = wport[v].mode
                           /\ wport'[v].rp_list = wport[v].rp_list
                           /\ wport'[v].magic = "0" <=> wport[v].magic = "0"
  <2>1. wport \in [WPorts -> WPortType]
    BY DEF Types
  <2>2. QED
    BY ONLY <1>1, <2>1, w \in WPorts
<1>3. \A v \in WPorts : WriteOK(v)
  BY DEF PacketInv
<1>4. ASSUME NEW v \in WPorts PROVE WriteOK(v)'
  <2>1. OpenOn(v)' = OpenOn(v) /\ \A x : Exactly(x, v)' <=> Exactly(x, v)
    BY <1>1 DEF OpenOn, Exactly
  <2>2. WriteOK(v) /\ UNCHANGED <<rport, accepted>>
    BY <1>1, <1>3
  <2>3. QED
    BY ONLY <1>2, <2>1, <2>2, v \in WPorts DEF WriteOK
<1>5. \A r \in RPorts : ReadOK(r)'
  BY <1>1 DEF PacketInv, ReadOK
<1>6. QED
  BY <1>1, <1>2, <1>4, <1>5 DEF PacketInv

\* The packets are in order.
LEMMA PacketsInOrder ==
    ASSUME Types, PacketInv
    PROVE  InOrder
<1>1. ASSUME NEW r \in RPorts, rport[r].buf # None PROVE Increasing(<<last[r]>> \o rport[r].buf)
  <2>1. PICK s : s = rport[r].buf
    OBVIOUS
  <2>2. PICK lo : lo = last[r]
    OBVIOUS
  <2>3. After(s, lo) /\ lo \in Nat /\ s \in Seq(Nat) /\ Len(s) \in Nat
    <3>1. After(s, lo)
      <4>1. ReadOK(r) /\ rport[r].magic \in {"0", "R", "closing"}
        BY DEF PacketInv, Types
      <4>2. QED
        BY <1>1, <2>1, <2>2, <4>1 DEF ReadOK
    <3>2. lo \in Nat
      BY <2>2 DEF Types
    <3>3. QED
      BY <3>1, <3>2 DEF After, Buffers
  <2> DEFINE t == <<lo>> \o s
  <2>4. <<lo>> \in Seq(Nat) /\ Len(<<lo>>) = 1 /\ <<lo>>[1] = lo
    BY <2>3
  <2>5. /\ t \in Seq(Nat) /\ Len(t) = 1 + Len(s)
        /\ \A i \in 1 .. 1 + Len(s) : t[i] = IF i <= 1 THEN <<lo>>[i] ELSE s[i - 1]
    BY <2>3, <2>4, ConcatProperties
  <2>6. DOMAIN t = 1 .. 1 + Len(s)
    BY <2>5
  <2> HIDE DEF t
  <2>7. ASSUME NEW i \in 1 .. 1 + Len(s), NEW j \in 1 .. 1 + Len(s), i < j PROVE t[i] < t[j]
    <3>1. j - 1 \in 1 .. Len(s) /\ t[j] = s[j - 1]
      BY <2>3, <2>5, <2>7
    <3>2. CASE i = 1
      <4>1. t[i] = lo
        BY <2>3, <2>4, <2>5, <3>2
      <4>2. lo < s[j - 1]
        BY <2>3, <3>1 DEF After
      <4>3. QED
        BY <3>1, <4>1, <4>2
    <3>3. CASE i # 1
      <4>1. i - 1 \in 1 .. Len(s) /\ t[i] = s[i - 1] /\ i - 1 < j - 1
        BY <2>3, <2>5, <2>7, <3>3
      <4>2. s[i - 1] < s[j - 1]
        BY <2>3, <3>1, <4>1 DEF After
      <4>3. QED
        BY <3>1, <4>1, <4>2
    <3>4. QED
      BY <3>2, <3>3
  <2>8. Increasing(t)
    BY <2>6, <2>7 DEF Increasing
  <2>9. QED
    BY <2>1, <2>2, <2>8 DEF t
<1>2. ASSUME NEW w \in WPorts, wport[w].magic # "0"
      PROVE  LET rs == wport[w].rp_list
             IN /\ wport[w].buf # None <=> rs = <<>>
                /\ wport[w].mode = "UNICAST" =>
                      /\ Len(rs) <= 1
                      /\ LET buf == IF rs = <<>> THEN wport[w].buf ELSE rport[rs[1]].buf
                         IN buf = [i \in 1 .. accepted[w] - delivered[w] |-> delivered[w] + i]
  <2>1. WriteOK(w)
    BY DEF PacketInv
  <2>2. wport[w].buf # None <=> wport[w].rp_list = <<>>
    BY <1>2, <2>1 DEF WriteOK
  <2>3. ASSUME wport[w].mode = "UNICAST"
        PROVE  Len(wport[w].rp_list) <= 1
    <3>1. PICK rs : rs = wport[w].rp_list
      OBVIOUS
    <3>2. /\ Lists(rs, OpenOn(w)) /\ \A r, q \in OpenOn(w) : r = q
      BY <1>2, <2>1, <2>3, <3>1 DEF WriteOK
    <3>3. rs \in Seq(OpenOn(w)) /\ Len(rs) \in Nat /\ \A i, j \in 1 .. Len(rs) : rs[i] = rs[j] => i = j
      BY <3>2 DEF Lists
    <3>4. \A i \in 1 .. Len(rs) : rs[i] \in OpenOn(w)
      BY <3>3
    <3>5. ASSUME Len(rs) > 1 PROVE FALSE
      <4>1. 1 \in 1 .. Len(rs) /\ 2 \in 1 .. Len(rs)
        BY <3>3, <3>5
      <4>2. rs[1] = rs[2]
        BY <3>2, <3>4, <4>1
      <4>3. QED
        BY <3>3, <4>1, <4>2
    <3>6. QED
      BY <3>1, <3>3, <3>5
  <2>4. ASSUME wport[w].mode = "UNICAST",
               NEW buf, buf = IF wport[w].rp_list = <<>> THEN wport[w].buf
                                                         ELSE rport[wport[w].rp_list[1]].buf
        PROVE  buf = [i \in 1 .. accepted[w] - delivered[w] |-> delivered[w] + i]
    <3>1. Exactly(buf, w)
      <4>1. CASE wport[w].rp_list = <<>>
        BY <1>2, <2>1, <2>4, <4>1 DEF WriteOK
      <4>2. CASE wport[w].rp_list # <<>>
        <5>1. Head(wport[w].rp_list) \in OpenOn(w)
          BY <2>1, <4>2, ListsTail DEF WriteOK
        <5>2. Head(wport[w].rp_list) = wport[w].rp_list[1]
          <6>1. wport[w].rp_list \in Seq(RPorts)
            BY DEF Types
          <6>2. QED
            BY <4>2, <6>1
        <5>3. QED
          BY <1>2, <2>1, <2>4, <4>2, <5>1, <5>2 DEF WriteOK
      <4>3. QED
        BY <4>1, <4>2
    <3>2. /\ buf \in Seq(Nat) /\ Len(buf) = accepted[w] - delivered[w]
          /\ \A i \in 1 .. Len(buf) : buf[i] = delivered[w] + i
      BY <3>1 DEF Exactly, Buffers
    <3>3. buf = [i \in 1 .. Len(buf) |-> buf[i]]
      BY <3>2
    <3>4. QED
      BY <3>2, <3>3
  <2>5. QED
    BY <2>2, <2>3, <2>4
<1>3. QED
  BY <1>1, <1>2 DEF InOrder
-----------------------------------------------------------------------------
(* The groups. *)

GroupFrame ==
    /\ group' = group
    /\ \A r \in RPorts : rport'[r].magic = rport[r].magic /\ rport'[r].gport = rport[r].gport

\* A step that does not touch the groups.
LEMMA FrameGroups ==
    ASSUME GroupInv, GroupFrame
    PROVE  /\ GroupInv' /\ (CarefulGroups => CarefulGroups')
           /\ \A g \in Groups : Members(g)' = Members(g)
<1>1. \A g \in Groups : Members(g)' = Members(g) /\ Linked(g)' = Linked(g)
  BY DEF Members, Linked, IsReadPort, GroupFrame
<1>2. QED
  BY <1>1 DEF GroupInv, CarefulGroups, GroupFrame, IsGroup

\* The lists of all groups but g are as they were.
LEMMA OtherGroups ==
    ASSUME GroupInv, NEW g \in Groups,
           \A h \in Groups \ {g} : /\ group'[h] = group[h] /\ Members(h)' = Members(h)
                                   /\ Linked(h)' = Linked(h),
           \E S \in SUBSET Linked(g)' : Lists(group'[g].rp_list, S),
           group'[g].magic = "0" => group'[g].rp_list = <<>>
    PROVE  /\ GroupInv'
           /\ CarefulGroups /\ Lists(group'[g].rp_list, Members(g)')
                /\ (Members(g)' # {} => IsGroup(g)') => CarefulGroups'
<1>1. GroupInv'
  <2>1. ASSUME NEW h \in Groups \ {g}
        PROVE  /\ \E S \in SUBSET Linked(h)' : Lists(group'[h].rp_list, S)
               /\ group'[h].magic = "0" => group'[h].rp_list = <<>>
    BY DEF GroupInv
  <2>2. QED
    BY <2>1 DEF GroupInv
<1>2. ASSUME CarefulGroups, Lists(group'[g].rp_list, Members(g)'),
             Members(g)' # {} => IsGroup(g)'
      PROVE  CarefulGroups'
  <2>1. ASSUME NEW h \in Groups \ {g}
        PROVE  /\ Lists(group'[h].rp_list, Members(h)')
               /\ Members(h)' # {} => IsGroup(h)'
    BY <1>2 DEF CarefulGroups, IsGroup
  <2>2. QED
    BY <1>2, <2>1 DEF CarefulGroups
<1>3. QED
  BY <1>1, <1>2

\* A port that is in no list becomes free memory or is being closed.
LEMMA LooseFromGroups ==
    ASSUME GroupInv, NEW r \in RPorts, group' = group,
           \A g \in Groups : r \notin ToSet(group[g].rp_list),
           \A q \in RPorts \ {r} : rport'[q] = rport[q], rport'[r].magic # "R"
    PROVE  GroupInv' /\ (CarefulGroups => CarefulGroups')
<1>1. \A g \in Groups : Members(g)' = Members(g) \ {r} /\ Linked(g) \ {r} \subseteq Linked(g)'
  BY DEF Members, Linked, IsReadPort
<1>2. ASSUME NEW g \in Groups, NEW S, Lists(group[g].rp_list, S) PROVE r \notin S
  BY <1>2, ListsToSet
<1>3. ASSUME NEW g \in Groups PROVE \E S \in SUBSET Linked(g)' : Lists(group[g].rp_list, S)
  <2>1. PICK S \in SUBSET Linked(g) : Lists(group[g].rp_list, S)
    BY DEF GroupInv
  <2>2. S \in SUBSET Linked(g)'
    BY <1>1, <1>2, <2>1
  <2>3. QED
    BY <2>1, <2>2
<1>4. GroupInv'
  BY <1>3 DEF GroupInv
<1>5. ASSUME CarefulGroups PROVE CarefulGroups'
  <2>1. ASSUME NEW g \in Groups PROVE Members(g)' = Members(g)
    <3>1. r \notin Members(g)
      BY <1>2, <1>5 DEF CarefulGroups
    <3>2. QED
      BY <1>1, <3>1
  <2>2. QED
    BY <1>5, <2>1 DEF CarefulGroups, IsGroup
<1>6. QED
  BY <1>4, <1>5

\* port_group.
LEMMA NewGroup ==
    ASSUME Types, GroupInv, NEW g \in Groups, NEW ports \in Seq(RPorts), IsInjective(ports),
           port_group(g, ports)
    PROVE  GroupInv' /\ (careful /\ CarefulGroups => CarefulGroups')
<1>1. /\ group[g].magic = "0"
      /\ \A i \in DOMAIN ports : IsReadPort(ports[i]) /\ rport[ports[i]].gport = None
      /\ careful => \A i \in DOMAIN ports : rport[ports[i]].magic = "R"
      /\ group' = [group EXCEPT ![g] = [magic |-> "G", rp_list |-> ports]]
      /\ rport' = [r \in RPorts |-> IF r \in ToSet(ports) THEN [rport[r] EXCEPT !.gport = g]
                                                          ELSE rport[r]]
  BY DEF port_group, Careful
<1>2. /\ \A h \in Groups \ {g} : group'[h] = group[h]
      /\ group'[g].magic = "G" /\ group'[g].rp_list = ports
  BY <1>1 DEF Types
<1>3. Lists(ports, ToSet(ports)) /\ ToSet(ports) \in SUBSET RPorts
  BY DEF Lists, ToSet, IsInjective
<1>4. ASSUME NEW r \in ToSet(ports)
      PROVE  IsReadPort(r) /\ rport[r].gport = None /\ (careful => rport[r].magic = "R")
  BY <1>1 DEF ToSet
<1>5. ASSUME NEW r \in RPorts
      PROVE  /\ rport'[r].magic = rport[r].magic
             /\ rport'[r].gport = IF r \in ToSet(ports) THEN g ELSE rport[r].gport
  <2>1. rport[r] \in RPortType
    BY DEF Types
  <2>2. rport'[r] = IF r \in ToSet(ports) THEN [rport[r] EXCEPT !.gport = g] ELSE rport[r]
    BY <1>1
  <2>3. QED
    BY ONLY <2>1, <2>2
<1>6. None \notin Groups
  BY PortAssumption
<1>7. /\ careful => Members(g)' = Members(g) \cup ToSet(ports)
      /\ Linked(g)' = Linked(g) \cup ToSet(ports)
      /\ \A h \in Groups \ {g} : Members(h)' = Members(h) /\ Linked(h)' = Linked(h)
  <2>1. careful => Members(g)' = Members(g) \cup ToSet(ports)
    BY <1>3, <1>4, <1>5 DEF Members
  <2>2. Linked(g)' = Linked(g) \cup ToSet(ports)
    BY <1>3, <1>4, <1>5 DEF Linked, IsReadPort
  <2>3. \A h \in Groups \ {g} : Members(h)' = Members(h) /\ Linked(h)' = Linked(h)
    BY <1>3, <1>4, <1>5, <1>6 DEF Members, Linked, IsReadPort
  <2>4. QED
    BY <2>1, <2>2, <2>3
<1>8. CarefulGroups => Members(g) = {}
  BY <1>1 DEF CarefulGroups, IsGroup
<1>9. IsGroup(g)'
  BY <1>2 DEF IsGroup
<1>10. \E S \in SUBSET Linked(g)' : Lists(group'[g].rp_list, S)
  BY <1>2, <1>3, <1>7
<1>11. careful /\ CarefulGroups => Lists(group'[g].rp_list, Members(g)')
  BY <1>2, <1>3, <1>7, <1>8
<1>12. QED
  BY <1>2, <1>7, <1>9, <1>10, <1>11, OtherGroups

\* A port is put at the end of the list of a group.
LEMMA AddToGroup ==
    ASSUME Types, GroupInv, NEW g \in Groups, NEW r \in RPorts,
           IsReadPort(r), rport[r].gport = None, IsGroup(g),
           rport' = [rport EXCEPT ![r].gport = g],
           group' = [group EXCEPT ![g].rp_list = Append(@, r)]
    PROVE  /\ GroupInv' /\ (CarefulGroups /\ rport[r].magic = "R" => CarefulGroups')
           /\ rport[r].magic = "R" => Members(g)' = Members(g) \cup {r}
           /\ \A h \in Groups \ {g} : Members(h)' = Members(h)
<1>1. /\ \A h \in Groups \ {g} : group'[h] = group[h]
      /\ group'[g].magic = group[g].magic /\ group'[g].rp_list = Append(group[g].rp_list, r)
  <2>1. group \in [Groups -> GroupType]
    BY DEF Types
  <2>2. QED
    BY ONLY <2>1, group' = [group EXCEPT ![g].rp_list = Append(@, r)], g \in Groups
<1>2. None \notin Groups
  BY PortAssumption
<1>3. /\ \A q \in RPorts \ {r} : rport'[q] = rport[q]
      /\ rport'[r].magic = rport[r].magic /\ rport'[r].gport = g
  <2>1. rport \in [RPorts -> RPortType]
    BY DEF Types
  <2>2. QED
    BY ONLY <2>1, rport' = [rport EXCEPT ![r].gport = g], r \in RPorts
<1>4. /\ rport[r].magic = "R" => Members(g)' = Members(g) \cup {r} /\ r \notin Members(g)
      /\ Linked(g)' = Linked(g) \cup {r} /\ r \notin Linked(g)
      /\ \A h \in Groups \ {g} : Members(h)' = Members(h) /\ Linked(h)' = Linked(h)
  <2>1. rport[r].magic = "R" => Members(g)' = Members(g) \cup {r} /\ r \notin Members(g)
    BY <1>2, <1>3 DEF Members
  <2>2. Linked(g)' = Linked(g) \cup {r} /\ r \notin Linked(g)
    BY <1>2, <1>3 DEF Linked, IsReadPort
  <2>3. \A h \in Groups \ {g} : Members(h)' = Members(h) /\ Linked(h)' = Linked(h)
    BY <1>2, <1>3 DEF Members, Linked, IsReadPort
  <2>4. QED
    BY <2>1, <2>2, <2>3
<1>5. PICK S \in SUBSET Linked(g) : Lists(group[g].rp_list, S)
  BY DEF GroupInv
<1>6. Lists(group'[g].rp_list, S \cup {r}) /\ S \cup {r} \in SUBSET Linked(g)'
  BY <1>1, <1>4, <1>5, ListsAppend
<1>7. CarefulGroups /\ rport[r].magic = "R" => Lists(group'[g].rp_list, Members(g)')
  BY <1>1, <1>4, ListsAppend DEF CarefulGroups
<1>8. IsGroup(g)' /\ group'[g].magic # "0"
  BY <1>1 DEF IsGroup
<1>9. QED
  BY <1>1, <1>4, <1>6, <1>7, <1>8, OtherGroups

\* A port is taken out of the list of a group and, unless it is port_group_remove that
\* does it, out of the group.
LEMMA DropFromGroup ==
    ASSUME Types, GroupInv, NEW g \in Groups, NEW r \in RPorts,
           NEW drop \in SUBSET {r}, NEW freed \in SUBSET {r},
           IsGroup(g), r \in ToSet(group[g].rp_list),
           \A h \in Groups : Members(h)' = Members(h) \ drop /\ Linked(h)' = Linked(h) \ freed,
           group' = [group EXCEPT ![g].rp_list = list_delete(@, r)]
    PROVE  GroupInv' /\ (CarefulGroups /\ drop = {r} => CarefulGroups')
<1>1. /\ \A h \in Groups \ {g} : group'[h] = group[h]
      /\ group'[g].magic = group[g].magic
      /\ group'[g].rp_list = list_delete(group[g].rp_list, r)
  <2>1. group \in [Groups -> GroupType]
    BY DEF Types
  <2>2. QED
    BY ONLY <2>1, group' = [group EXCEPT ![g].rp_list = list_delete(@, r)], g \in Groups
<1>2. PICK S \in SUBSET Linked(g) : Lists(group[g].rp_list, S)
  BY DEF GroupInv
<1>3. r \in S
  BY <1>2, ListsToSet
<1>4. Lists(group'[g].rp_list, S \ {r}) /\ S \ {r} \in SUBSET Linked(g)'
  BY <1>1, <1>2, <1>3, ListDelete
<1>5. \A h \in Groups \ {g} : r \notin Members(h) /\ r \notin Linked(h)
  BY <1>2, <1>3 DEF Members, Linked
<1>6. ASSUME NEW h \in Groups \ {g} PROVE Members(h)' = Members(h) /\ Linked(h)' = Linked(h)
  <2>1. /\ Members(h)' = Members(h) \ drop /\ r \notin Members(h)
        /\ Linked(h)' = Linked(h) \ freed /\ r \notin Linked(h)
    BY <1>5
  <2>2. QED
    BY <2>1
<1>7. CarefulGroups /\ drop = {r} => Lists(group'[g].rp_list, Members(g)')
  <2>1. CarefulGroups => Lists(group[g].rp_list, Members(g)) /\ r \in Members(g)
    BY ListsToSet DEF CarefulGroups
  <2>2. QED
    BY <1>1, <2>1, ListDelete
<1>8. IsGroup(g)' /\ group'[g].magic # "0"
  BY <1>1 DEF IsGroup
<1>9. QED
  BY <1>1, <1>4, <1>6, <1>7, <1>8, OtherGroups

\* port_close of a group, before the reschedule.
LEMMA MarkGroup ==
    ASSUME Types, GroupInv, NEW g \in Groups, group[g].magic = "G", rport' = rport,
           group' = [group EXCEPT ![g].magic = "closing"]
    PROVE  /\ GroupInv' /\ (CarefulGroups => CarefulGroups')
           /\ \A h \in Groups \ {g} : group'[h] = group[h]
           /\ \A h \in Groups : Members(h)' = Members(h)
<1>1. /\ \A h \in Groups \ {g} : group'[h] = group[h]
      /\ group'[g].magic = "closing" /\ group'[g].rp_list = group[g].rp_list
  <2>1. group \in [Groups -> GroupType]
    BY DEF Types
  <2>2. QED
    BY ONLY <2>1, group' = [group EXCEPT ![g].magic = "closing"], g \in Groups
<1>2. \A h \in Groups : Members(h)' = Members(h) /\ Linked(h)' = Linked(h)
  BY DEF Members, Linked, IsReadPort
<1>3. \E S \in SUBSET Linked(g)' : Lists(group'[g].rp_list, S)
  BY <1>1, <1>2 DEF GroupInv
<1>4. CarefulGroups => Lists(group'[g].rp_list, Members(g)')
  BY <1>1, <1>2 DEF CarefulGroups
<1>5. IsGroup(g)'
  BY <1>1 DEF IsGroup
<1>6. QED
  BY <1>1, <1>2, <1>3, <1>4, <1>5, OtherGroups

\* The end of port_close of a group.
LEMMA CloseGroup ==
    ASSUME Types, GroupInv, NEW g \in Groups,
           group' = [group EXCEPT ![g] = NoGroup], rport' = Detached(g)
    PROVE  /\ GroupInv' /\ (CarefulGroups => CarefulGroups')
           /\ \A h \in Groups \ {g} : group'[h] = group[h] /\ Members(h)' = Members(h)
           /\ \A r \in RPorts : /\ rport'[r].magic = rport[r].magic /\ rport'[r].buf = rport[r].buf
                                /\ rport'[r].wport = rport[r].wport
                                /\ rport'[r].gport \in {rport[r].gport, None}
<1>1. rport' = [r \in RPorts |-> IF r \in ToSet(group[g].rp_list)
                                 THEN [rport[r] EXCEPT !.gport = None] ELSE rport[r]]
  BY DEF Detached
<1>2. /\ \A h \in Groups \ {g} : group'[h] = group[h]
      /\ group'[g].magic = "0" /\ group'[g].rp_list = <<>>
  BY DEF Types, NoGroup
<1>3. PICK S \in SUBSET Linked(g) : Lists(group[g].rp_list, S)
  BY DEF GroupInv
<1>4. ToSet(group[g].rp_list) = S
  BY <1>3, ListsToSet
<1>5. ASSUME NEW r \in RPorts
      PROVE  /\ rport'[r].magic = rport[r].magic /\ rport'[r].buf = rport[r].buf
             /\ rport'[r].wport = rport[r].wport
             /\ rport'[r].gport = IF r \in S THEN None ELSE rport[r].gport
  <2>1. rport[r] \in RPortType
    BY DEF Types
  <2>2. rport'[r] = IF r \in S THEN [rport[r] EXCEPT !.gport = None] ELSE rport[r]
    BY <1>1, <1>4
  <2>3. QED
    BY ONLY <2>1, <2>2
<1>6. None \notin Groups
  BY PortAssumption
<1>7. /\ Members(g)' = Members(g) \ S
      /\ \A h \in Groups \ {g} : Members(h)' = Members(h) /\ Linked(h)' = Linked(h)
  <2>1. Members(g)' = Members(g) \ S
    BY <1>5, <1>6 DEF Members
  <2>2. \A r \in S : rport[r].gport = g
    BY <1>3 DEF Linked
  <2>3. \A h \in Groups \ {g} : Members(h)' = Members(h)
    BY <1>5, <1>6, <2>2 DEF Members
  <2>4. \A h \in Groups \ {g} : Linked(h)' = Linked(h)
    BY <1>5, <1>6, <2>2 DEF Linked, IsReadPort
  <2>5. QED
    BY <2>1, <2>3, <2>4
<1>8. Lists(<<>>, {})
  BY DEF Lists
<1>9. CarefulGroups => Members(g)' = {}
  <2>1. CarefulGroups => Lists(group[g].rp_list, Members(g))
    BY DEF CarefulGroups
  <2>2. CarefulGroups => S = Members(g)
    BY <1>4, <2>1, ListsToSet
  <2>3. QED
    BY <1>7, <2>2
<1>10. \E T \in SUBSET Linked(g)' : Lists(group'[g].rp_list, T)
  BY <1>2, <1>8
<1>11. QED
  BY <1>2, <1>5, <1>7, <1>8, <1>9, <1>10, OtherGroups
-----------------------------------------------------------------------------
(* The threads. *)

Readers == {"blocked", "woken"}

\* The threads of W, and no others, are taken out of their wait queues.  Other threads
\* may come to the end of what they do, or begin a port_create.
Quieter(W) ==
    \A t \in Threads :
        IF t \in W
        THEN /\ thread[t].at = "blocked"
             /\ thread'[t] \in {Idle, [thread[t] EXCEPT !.at = "woken"]}
        ELSE \/ thread'[t] = thread[t]
             \/ /\ thread[t].at # "blocked"
                /\ thread'[t] \in {Idle, [Idle EXCEPT !.at = "create"]}

\* The fields of the threads after such a step.
LEMMA QuietThreads ==
    ASSUME Types, NEW W, Quieter(W), NEW t \in Threads
    PROVE  /\ thread'[t].at \in Readers
                => thread[t].at \in Readers /\ thread'[t].port = thread[t].port
           /\ thread'[t].at = "blocked" <=> thread[t].at = "blocked" /\ t \notin W
           /\ thread'[t].at = "add" => thread'[t] = thread[t]
           /\ thread'[t].at \in {"idle", "create"}
                => \/ thread'[t] = thread[t]
                   \/ thread'[t].port = None /\ thread'[t].group = None
<1>1. thread[t] \in ThreadType
  BY DEF Types
<1>2. /\ Idle.at = "idle" /\ Idle.port = None /\ Idle.group = None
  BY DEF Idle
<1>3. PICK c : c = [Idle EXCEPT !.at = "create"]
  OBVIOUS
<1>4. c.at = "create" /\ c.port = None /\ c.group = None
  BY <1>3 DEF Idle
<1>5. PICK u : u = [thread[t] EXCEPT !.at = "woken"]
  OBVIOUS
<1>6. u.at = "woken" /\ u.port = thread[t].port /\ u.group = thread[t].group
  BY <1>1, <1>5
<1>7. CASE t \in W
  <2>1. thread[t].at = "blocked" /\ thread'[t] \in {Idle, u}
    BY <1>5, <1>7 DEF Quieter
  <2>2. QED
    BY ONLY <1>2, <1>6, <1>7, <2>1 DEF Readers
<1>8. CASE t \notin W
  <2>1. thread'[t] = thread[t] \/ (thread[t].at # "blocked" /\ thread'[t] \in {Idle, c})
    BY <1>3, <1>8 DEF Quieter
  <2>2. QED
    BY ONLY <1>2, <1>4, <1>8, <2>1 DEF Readers
<1>9. QED
  BY <1>7, <1>8

\* The wait queues after such a step.
LEMMA QuietWait ==
    ASSUME Types, WaitInv, NEW W, Quieter(W), \A o \in Objects : Lists(wait'[o], Blocked(o) \ W)
    PROVE  WaitInv' /\ \A o : Blocked(o)' = Blocked(o) \ W
<1>1. ASSUME NEW o PROVE Blocked(o)' = Blocked(o) \ W
  <2>1. ASSUME NEW t \in Threads
        PROVE  t \in Blocked(o)' <=> t \in Blocked(o) \ W
    <3>1. /\ thread'[t].at = "blocked" <=> thread[t].at = "blocked" /\ t \notin W
          /\ thread'[t].at = "blocked" => thread'[t].port = thread[t].port
      BY QuietThreads DEF Readers
    <3>2. QED
      BY <3>1 DEF Blocked
  <2>2. QED
    BY <2>1 DEF Blocked
<1>2. ASSUME NEW t \in Threads
      PROVE  /\ thread'[t].at \in {"idle", "create"}
                  => thread'[t].port = None /\ thread'[t].group = None
             /\ thread'[t].at = "add" => thread'[t].port \in RPorts /\ thread'[t].group \in Groups
             /\ thread'[t].at \in Readers => thread'[t].port \in Objects
  BY QuietThreads DEF WaitInv, Readers
<1>3. QED
  BY <1>1, <1>2 DEF WaitInv, Readers

\* What careful clients have to see to in such a step.
LEMMA QuietCareful ==
    ASSUME Types, WaitInv, CarefulReaders, CarefulAdd, NEW W, Quieter(W),
           \A t \in Threads : thread'[t].at \in Readers =>
               /\ Open(thread[t].port)'
               /\ thread[t].port \in RPorts => rport'[thread[t].port].gport = None,
           \A t \in Threads : thread'[t].at = "add" =>
               /\ rport'[thread[t].port].magic = "R" /\ rport'[thread[t].port].gport = None
               /\ group'[thread[t].group].magic = "G"
    PROVE  CarefulReaders' /\ CarefulAdd'
<1>1. ASSUME NEW t \in Threads
      PROVE  /\ thread'[t].at \in Readers
                  => thread[t].at \in Readers /\ thread'[t].port = thread[t].port
             /\ thread'[t].at = "add" => thread[t].at = "add" /\ thread'[t].port = thread[t].port
                                         /\ thread'[t].group = thread[t].group
  BY QuietThreads
<1>2. CarefulReaders'
  <2>1. \A t, u \in Threads :
            thread'[t].at \in Readers /\ thread'[u].at \in Readers
              /\ thread'[t].port = thread'[u].port => t = u
    BY <1>1 DEF CarefulReaders, Readers
  <2>2. ASSUME NEW t \in Threads, thread'[t].at \in Readers
        PROVE  /\ Open(thread[t].port)' /\ thread'[t].port = thread[t].port
               /\ thread[t].port \in RPorts => rport'[thread[t].port].gport = None
    BY <1>1, <2>2
  <2>3. ASSUME NEW t \in Threads, thread'[t].at \in Readers
        PROVE  /\ (Open(thread[t].port))'
               /\ thread'[t].port \in RPorts => rport'[thread'[t].port].gport = None
    BY <2>2, <2>3 DEF Open
  <2>4. QED
    BY <2>1, <2>3 DEF CarefulReaders, Readers
<1>3. CarefulAdd'
  BY <1>1 DEF CarefulAdd, Readers
<1>4. QED
  BY <1>2, <1>3

\* The threads that are woken are written as a function.
LEMMA WokenUpThreads ==
    ASSUME Types, NEW W, \A t \in W : t \in Threads /\ thread[t].at = "blocked", NEW err,
           thread' = WokenUp(W, err)
    PROVE  Quieter(W) /\ thread' \in [Threads -> ThreadType]
<1>1. \A t \in Threads : thread'[t] = IF t \notin W THEN thread[t]
                                       ELSE IF err = "NO_ERROR"
                                            THEN [thread[t] EXCEPT !.at = "woken"] ELSE Idle
  BY DEF WokenUp
<1>2. Quieter(W)
  BY <1>1 DEF Quieter
<1>3. Idle \in ThreadType
  BY DEF Idle
<1>4. ASSUME NEW t \in Threads
      PROVE  thread[t] \in ThreadType /\ [thread[t] EXCEPT !.at = "woken"] \in ThreadType
  <2>1. thread[t] \in ThreadType
    BY DEF Types
  <2>2. QED
    BY ONLY <2>1
<1>5. ASSUME NEW t \in Threads PROVE thread'[t] \in ThreadType
  <2> HIDE DEF ThreadType
  <2>1. QED
    BY <1>1, <1>3, <1>4
<1>6. thread' = [t \in Threads |-> thread'[t]]
  BY DEF WokenUp
<1>7. QED
  BY <1>2, <1>5, <1>6

\* All waiters of the objects of S wake up.
LEMMA WakeAllThreads ==
    ASSUME Types, WaitInv, NEW S \in SUBSET Objects, NEW err, WakeAll(S, err)
    PROVE  \E W \in SUBSET Threads :
              /\ Quieter(W)
              /\ \A o \in Objects : Lists(wait'[o], Blocked(o) \ W)
              /\ \A o \in S : Blocked(o) \subseteq W
              /\ err # "NO_ERROR" => \A t \in W : thread'[t] = Idle
              /\ thread' \in [Threads -> ThreadType]
              /\ wait' \in [Objects -> Seq(Threads)]
<1>1. PICK W : W = UNION {ToSet(wait[o]) : o \in S}
  OBVIOUS
<1>2. \A o \in Objects : Lists(wait[o], Blocked(o)) /\ ToSet(wait[o]) = Blocked(o)
  BY ListsToSet DEF WaitInv
<1>3. W = {t \in Threads : thread[t].at = "blocked" /\ thread[t].port \in S}
  <2>1. \A t : t \in W <=> \E o \in S : t \in ToSet(wait[o])
    BY <1>1
  <2>2. \A t : t \in W <=> \E o \in S : t \in Blocked(o)
    BY <1>2, <2>1
  <2>3. QED
    BY <2>2 DEF Blocked
<1>4. thread' = WokenUp(W, err) /\ wait' = [o \in DOMAIN wait |-> IF o \in S THEN <<>> ELSE wait[o]]
  BY <1>1 DEF WakeAll
<1>5. DOMAIN wait = Objects
  BY DEF Types
<1>6. Quieter(W) /\ thread' \in [Threads -> ThreadType]
  BY <1>3, <1>4, WokenUpThreads
<1>7. ASSUME NEW o \in Objects PROVE Lists(wait'[o], Blocked(o) \ W)
  <2>1. CASE o \in S
    <3>1. Blocked(o) \ W = {} /\ wait'[o] = <<>>
      BY <1>3, <1>4, <1>5, <2>1 DEF Blocked
    <3>2. Lists(<<>>, {})
      BY DEF Lists
    <3>3. QED
      BY <3>1, <3>2
  <2>2. CASE o \notin S
    <3>1. Blocked(o) \ W = Blocked(o) /\ wait'[o] = wait[o]
      BY <1>3, <1>4, <1>5, <2>2 DEF Blocked
    <3>2. QED
      BY <1>2, <3>1
  <2>3. QED
    BY <2>1, <2>2
<1>8. \A o \in S : Blocked(o) \subseteq W
  BY <1>3 DEF Blocked
<1>9. wait' \in [Objects -> Seq(Threads)]
  <2>1. \A o \in Objects : wait[o] \in Seq(Threads)
    BY DEF Types
  <2>2. wait' = [o \in Objects |-> IF o \in S THEN <<>> ELSE wait[o]]
    BY <1>4, <1>5
  <2>3. <<>> \in Seq(Threads)
    OBVIOUS
  <2>4. QED
    BY ONLY <2>1, <2>2, <2>3
<1>10. W \in SUBSET Threads
  BY <1>3
<1>11. err # "NO_ERROR" => \A t \in W : thread'[t] = Idle
  BY <1>4, <1>10 DEF WokenUp
<1>12. QED
  BY <1>6, <1>7, <1>8, <1>9, <1>10, <1>11

\* The queue where the reader of r sleeps, when clients are careful.
ReaderOf(r) == IF rport[r].gport = None THEN r ELSE rport[r].gport

\* What the wakes for the first ports of the list have done to the queues.
WakesInv(acc, done) ==
    /\ acc.wait \in [Objects -> Seq(Threads)]
    /\ acc.woken \subseteq {t \in Threads : thread[t].at = "blocked"}
    /\ \A o \in Objects : Lists(acc.wait[o], Blocked(o) \ acc.woken)
    /\ careful => \A r \in done : Blocked(ReaderOf(r)) \subseteq acc.woken

\* One wake.
LEMMA WakeForOne ==
    ASSUME Types, WaitInv, careful => CarefulReaders,
           NEW acc, NEW done, WakesInv(acc, done), NEW r \in RPorts
    PROVE  WakesInv(WakeFor(acc, r), done \cup {r})
<1>0. PICK q : q = WakeQueue(r, acc.wait)
  OBVIOUS
<1>1. q \in Objects /\ (rport[r].gport = None => q = r)
      /\ (rport[r].gport # None => IF acc.wait[rport[r].gport] # <<>> THEN q = rport[r].gport ELSE q = r)
  BY <1>0 DEF WakeQueue, Objects, Types
<1>2. rport[r].gport # None => rport[r].gport \in Objects
  BY DEF Types, Objects
<1>3. \A o \in Objects : acc.wait[o] = <<>> => Blocked(o) \subseteq acc.woken
  <2>1. ASSUME NEW o \in Objects, acc.wait[o] = <<>> PROVE Blocked(o) \ acc.woken = {}
    BY <2>1, ListsEmpty DEF WakesInv
  <2>2. QED
    BY <2>1
<1>4. ReaderOf(r) = q \/ (ReaderOf(r) \in Objects /\ acc.wait[ReaderOf(r)] = <<>>)
  BY <1>1, <1>2 DEF ReaderOf
<1>5. CASE acc.wait[q] = <<>>
  <2>1. WakeFor(acc, r) = acc
    BY <1>0, <1>5 DEF WakeFor
  <2>2. Blocked(ReaderOf(r)) \subseteq acc.woken
    BY <1>1, <1>3, <1>4, <1>5
  <2>3. QED
    BY <2>1, <2>2 DEF WakesInv
<1>6. CASE acc.wait[q] # <<>>
  <2>0. PICK t : t = Head(acc.wait[q])
    OBVIOUS
  <2>1. PICK new : new = WakeFor(acc, r)
    OBVIOUS
  <2>2. new.wait = [acc.wait EXCEPT ![q] = Tail(@)] /\ new.woken = acc.woken \cup {t}
    BY <1>0, <1>6, <2>0, <2>1 DEF WakeFor
  <2>3. acc.wait \in [Objects -> Seq(Threads)] /\ Lists(acc.wait[q], Blocked(q) \ acc.woken)
    BY <1>1 DEF WakesInv
  <2>4. t \in Blocked(q) \ acc.woken /\ Lists(Tail(acc.wait[q]), (Blocked(q) \ acc.woken) \ {t})
    BY ONLY <1>6, <2>0, <2>3, ListsTail
  <2>5. t \in Threads /\ thread[t].at = "blocked" /\ thread[t].port = q
    BY <2>4 DEF Blocked
  <2>6. new.wait \in [Objects -> Seq(Threads)]
    <3>1. Tail(acc.wait[q]) \in Seq(Threads)
      BY <1>1, <1>6, <2>3
    <3>2. QED
      BY <2>2, <2>3, <3>1
  <2>7. ASSUME NEW o \in Objects PROVE Lists(new.wait[o], Blocked(o) \ new.woken)
    <3>1. CASE o = q
      <4>1. new.wait[o] = Tail(acc.wait[q]) /\ Blocked(o) \ new.woken = (Blocked(q) \ acc.woken) \ {t}
        BY <2>2, <2>3, <3>1
      <4>2. QED
        BY <2>4, <4>1
    <3>2. CASE o # q
      <4>1. t \notin Blocked(o)
        BY <2>5, <3>2 DEF Blocked
      <4>2. Blocked(o) \ new.woken = Blocked(o) \ acc.woken /\ new.wait[o] = acc.wait[o]
        BY <2>2, <2>3, <3>2, <4>1
      <4>3. QED
        BY <4>2 DEF WakesInv
    <3>3. QED
      BY <3>1, <3>2
  <2>8. careful => Blocked(q) \subseteq {t}
    BY <2>5 DEF Blocked, CarefulReaders
  <2>9. careful => Blocked(ReaderOf(r)) \subseteq new.woken
    BY <1>3, <1>4, <2>2, <2>8
  <2>10. careful => \A p \in done \cup {r} : Blocked(ReaderOf(p)) \subseteq new.woken
    BY <2>2, <2>9 DEF WakesInv
  <2>11. new.woken \subseteq {u \in Threads : thread[u].at = "blocked"}
    BY <2>2, <2>5 DEF WakesInv
  <2>12. QED
    BY <2>1, <2>6, <2>7, <2>10, <2>11 DEF WakesInv
<1>7. QED
  BY <1>5, <1>6

\* All wakes of a port_write.
LEMMA WakesForAll ==
    ASSUME Types, WaitInv, careful => CarefulReaders, NEW ports \in Seq(RPorts), NEW takers
    PROVE  WakesInv(Wakes(ports, takers), ToSet(ports) \cap takers)
<1> DEFINE n == Len(ports)
           Step(q, i) == IF i = 0 THEN [wait |-> wait, woken |-> {}]
                         ELSE IF ports[i] \in takers THEN WakeFor(q[i - 1], ports[i])
                         ELSE q[i - 1]
           IsFold(q, m) == q = [i \in 0 .. m |-> Step(q, i)]
<1>1. n \in Nat /\ \A i \in 1 .. n : ports[i] \in RPorts
  OBVIOUS
<1>2. \E q : IsFold(q, n)
  <2> DEFINE E == {m \in Nat : \E q : IsFold(q, m)}
  <2>1. 0 \in E
    <3> DEFINE q == [i \in 0 .. 0 |-> [wait |-> wait, woken |-> {}]]
    <3>1. q = [i \in 0 .. 0 |-> Step(q, i)]
      OBVIOUS
    <3>2. QED
      BY <3>1
  <2>2. ASSUME NEW m \in E PROVE m + 1 \in E
    <3>1. PICK g : IsFold(g, m)
      OBVIOUS
    <3> DEFINE h == [i \in 0 .. m + 1 |-> IF i <= m THEN g[i] ELSE Step(g, i)]
    <3>2. m \in Nat
      OBVIOUS
    <3>3. ASSUME NEW i \in 0 .. m + 1 PROVE h[i] = Step(g, i)
      <4> HIDE DEF Step
      <4>1. CASE i <= m
        <5>1. i \in 0 .. m
          BY <3>2, <4>1
        <5>2. QED
          BY <3>1, <4>1, <5>1
      <4>2. CASE ~(i <= m)
        BY <4>2
      <4>3. QED
        BY <4>1, <4>2
    <3>4. ASSUME NEW i \in 0 .. m + 1 PROVE h[i] = Step(h, i)
      <4>1. CASE i = 0
        BY <3>3, <4>1
      <4>2. CASE i # 0
        <5>1. i - 1 \in 0 .. m /\ i - 1 <= m /\ i - 1 \in 0 .. m + 1
          BY <3>2, <4>2
        <5>2. h[i - 1] = g[i - 1]
          BY <5>1
        <5>3. QED
          BY <3>3, <5>2
      <4>3. QED
        BY <4>1, <4>2
    <3>5. h = [i \in 0 .. m + 1 |-> Step(h, i)]
      <4> HIDE DEF Step
      <4>1. [i \in 0 .. m + 1 |-> IF i <= m THEN g[i] ELSE Step(g, i)]
              = [i \in 0 .. m + 1 |-> Step(h, i)]
        BY <3>4
      <4>2. QED
        BY <4>1
    <3>6. IsFold(h, m + 1)
      BY <3>5
    <3> HIDE DEF IsFold, h
    <3>7. QED
      BY <3>2, <3>6
  <2>3. E \in SUBSET Nat
    OBVIOUS
  <2> HIDE DEF E
  <2>4. E = Nat
    BY <2>1, <2>2, <2>3, SetInduction
  <2> USE DEF E
  <2> HIDE DEF IsFold
  <2>5. QED
    BY <1>1, <2>4
<1> DEFINE q == CHOOSE q : IsFold(q, n)
<1>3. IsFold(q, n)
  <2> HIDE DEF IsFold
  <2>1. QED
    BY <1>2
<1>4. Wakes(ports, takers) = q[n]
  BY DEF Wakes
<1> HIDE DEF q
<1>5. \A i \in 0 .. n : q[i] = Step(q, i)
  BY <1>3
<1> DEFINE Upto(i) == {ports[j] : j \in 1 .. i} \cap takers
           G == {i \in Nat : i <= n => WakesInv(q[i], Upto(i))}
<1>6. 0 \in G
  <2>1. q[0] = [wait |-> wait, woken |-> {}]
    <3>1. 0 \in 0 .. n
      BY <1>1
    <3>2. q[0] = Step(q, 0)
      <4> HIDE DEF Step
      <4>1. QED
        BY <1>5, <3>1
    <3>3. QED
      BY ONLY <3>2
  <2>2. Upto(0) = {}
    OBVIOUS
  <2> HIDE DEF Upto
  <2>3. WakesInv([wait |-> wait, woken |-> {}], {})
    <3>1. PICK acc : acc = [wait |-> wait, woken |-> {}]
      OBVIOUS
    <3>2. acc.wait = wait /\ acc.woken = {}
      BY <3>1
    <3>3. WakesInv(acc, {})
      <4>1. \A o \in Objects : Lists(wait[o], Blocked(o)) /\ Blocked(o) \ {} = Blocked(o)
        BY DEF WaitInv
      <4>2. wait \in [Objects -> Seq(Threads)]
        BY DEF Types
      <4>3. QED
        BY ONLY <3>2, <4>1, <4>2 DEF WakesInv
    <3>4. QED
      BY ONLY <3>1, <3>3
  <2>4. QED
    BY <2>1, <2>2, <2>3
<1>7. ASSUME NEW i \in G PROVE i + 1 \in G
  <2> SUFFICES ASSUME i + 1 <= n
               PROVE  WakesInv(q[i + 1], Upto(i + 1))
    OBVIOUS
  <2>1. i \in Nat /\ i <= n /\ i + 1 \in 1 .. n /\ i + 1 \in 0 .. n /\ i + 1 # 0 /\ (i + 1) - 1 = i
    BY <1>1
  <2>2. WakesInv(q[i], Upto(i))
    BY <2>1
  <2>3. q[i + 1] = IF ports[i + 1] \in takers THEN WakeFor(q[i], ports[i + 1]) ELSE q[i]
    <3>1. q[i + 1] = Step(q, i + 1)
      BY <1>5, <2>1
    <3>2. QED
      BY <2>1, <3>1
  <2>4. Upto(i + 1) = IF ports[i + 1] \in takers THEN Upto(i) \cup {ports[i + 1]} ELSE Upto(i)
    <3>1. 1 .. (i + 1) = (1 .. i) \cup {i + 1}
      BY <2>1
    <3>2. QED
      BY <3>1
  <2>5. ports[i + 1] \in RPorts
    BY <1>1, <2>1
  <2> HIDE DEF Upto
  <2>6. CASE ports[i + 1] \in takers
    BY <2>2, <2>3, <2>4, <2>5, <2>6, WakeForOne
  <2>7. CASE ports[i + 1] \notin takers
    BY <2>2, <2>3, <2>4, <2>7
  <2>8. QED
    BY <2>6, <2>7
<1>8. G \in SUBSET Nat
  OBVIOUS
<1>9. n \in G
  <2> HIDE DEF G, n
  <2>1. G = Nat
    BY <1>6, <1>7, <1>8, SetInduction
  <2>2. QED
    BY <1>1, <2>1
<1>10. Upto(n) = ToSet(ports) \cap takers
  BY DEF ToSet
<1>11. WakesInv(q[n], Upto(n))
  BY <1>1, <1>9
<1> HIDE DEF Upto
<1>12. QED
  BY ONLY <1>4, <1>10, <1>11
-----------------------------------------------------------------------------
(* The steps. *)

\* The ports that are open stay open and stay in their groups, the groups stay.
ObjectsKept ==
    /\ \A r \in RPorts : rport[r].magic = "R"
                            => rport'[r].magic = "R" /\ rport'[r].gport = rport[r].gport
    /\ \A g \in Groups : group[g].magic = "G" => group'[g].magic = "G"

\* Then the readers keep what they read.
LEMMA KeptCareful ==
    ASSUME Types, WaitInv, CarefulReaders, CarefulAdd, NEW W, Quieter(W), ObjectsKept
    PROVE  CarefulReaders' /\ CarefulAdd'
<1>1. ASSUME NEW t \in Threads, thread'[t].at \in Readers
      PROVE  /\ Open(thread[t].port)'
             /\ thread[t].port \in RPorts => rport'[thread[t].port].gport = None
  <2>1. PICK p : p = thread[t].port
    OBVIOUS
  <2>2. thread[t].at \in Readers /\ thread'[t].port = p
    BY <1>1, <2>1, QuietThreads
  <2>3. p \in Objects /\ Open(p) /\ (p \in RPorts => rport[p].gport = None)
    BY <2>1, <2>2 DEF WaitInv, CarefulReaders, Readers
  <2>4. Open(p)' /\ (p \in RPorts => rport'[p].gport = None)
    BY <2>3 DEF ObjectsKept, Open, Objects
  <2>5. QED
    BY <2>1, <2>2, <2>4 DEF Open
<1>2. ASSUME NEW t \in Threads, thread'[t].at = "add"
      PROVE  /\ rport'[thread[t].port].magic = "R" /\ rport'[thread[t].port].gport = None
             /\ group'[thread[t].group].magic = "G"
  <2>1. thread[t].at = "add" /\ thread[t].port \in RPorts /\ thread[t].group \in Groups
    BY <1>2, QuietThreads DEF WaitInv
  <2>2. /\ rport[thread[t].port].magic = "R" /\ rport[thread[t].port].gport = None
        /\ group[thread[t].group].magic = "G"
    BY <2>1 DEF CarefulAdd
  <2>3. QED
    BY <2>1, <2>2 DEF ObjectsKept
<1>3. QED
  BY <1>1, <1>2, QuietCareful

\* Those who go on sleeping have nothing to read still.
LEMMA QuietAsleep ==
    ASSUME Types, WaitInv, Asleep, NEW W, Quieter(W),
           \A p \in RPorts : Blocked(p) \ W # {} /\ rport[p].buf = <<>> => rport'[p].buf = <<>>,
           \A g \in Groups : Blocked(g) \ W # {} /\ (\A r \in Members(g) : rport[r].buf = <<>>)
                                => \A r \in Members(g)' : rport'[r].buf = <<>>
    PROVE  Asleep'
<1>1. ASSUME NEW t \in Threads, thread'[t].at = "blocked"
      PROVE  /\ thread'[t].port \in RPorts => rport'[thread'[t].port].buf = <<>>
             /\ thread'[t].port \in Groups
                  => \A r \in Members(thread[t].port)' : rport'[r].buf = <<>>
  <2>1. PICK p : p = thread[t].port
    OBVIOUS
  <2>2. thread[t].at = "blocked" /\ t \notin W /\ thread'[t].port = p
    BY <1>1, <2>1, QuietThreads DEF Readers
  <2>3. t \in Blocked(p) \ W
    BY <2>1, <2>2 DEF Blocked
  <2>4. CASE p \in RPorts
    <3>1. p \notin Groups
      BY <2>4, PortAssumption
    <3>2. rport[p].buf = <<>>
      BY <2>1, <2>2, <2>4 DEF Asleep
    <3>3. QED
      BY <2>2, <2>3, <2>4, <3>1, <3>2
  <2>5. CASE p \in Groups
    <3>1. p \notin RPorts
      BY <2>5, PortAssumption
    <3>2. \A r \in Members(p) : rport[r].buf = <<>>
      BY <2>1, <2>2, <2>5 DEF Asleep
    <3>3. \A r \in Members(p)' : rport'[r].buf = <<>>
      BY <2>3, <2>5, <3>2
    <3>4. QED
      BY <2>2, <3>1, <3>3 DEF Members
  <2>6. p \in Objects
    BY <2>1, <2>2 DEF WaitInv
  <2>7. QED
    BY <2>4, <2>5, <2>6 DEF Objects
<1>2. QED
  BY <1>1 DEF Asleep, Members

\* A step that changes threads only, and wakes nobody.
LEMMA ThreadsOnly ==
    ASSUME IInv, CInv, fault = "none", UNCHANGED <<objects, wait, ghosts, careful, fault>>,
           Quieter({}), thread' \in [Threads -> ThreadType]
    PROVE  IInv' /\ CInv'
<1>1. Types' /\ PacketFrame /\ GroupFrame /\ ObjectsKept /\ UNCHANGED <<wait, careful, fault, rport>>
  BY DEF IInv, Types, PacketFrame, GroupFrame, ObjectsKept, objects, ghosts
<1>2. PacketInv' /\ GroupInv' /\ (CarefulGroups => CarefulGroups')
      /\ \A g \in Groups : Members(g)' = Members(g)
  BY <1>1, FramePackets, FrameGroups DEF IInv
<1>3. WaitInv'
  <2>1. \A o \in Objects : Lists(wait'[o], Blocked(o) \ {})
    <3>1. \A o \in Objects : Blocked(o) \ {} = Blocked(o)
      OBVIOUS
    <3>2. QED
      BY <1>1, <3>1 DEF IInv, WaitInv
  <2>2. QED
    BY <2>1, QuietWait DEF IInv
<1>4. ASSUME careful PROVE CarefulReaders' /\ CarefulAdd'
  BY <1>1, <1>4, KeptCareful DEF IInv, CInv
<1>5. ASSUME careful PROVE Asleep'
  <2>1. \A p \in RPorts : rport'[p].buf = rport[p].buf
    BY <1>1
  <2>2. \A g \in Groups : (\A r \in Members(g) : rport[r].buf = <<>>)
                            => \A r \in Members(g)' : rport'[r].buf = <<>>
    BY <1>1, <1>2
  <2>3. QED
    BY <1>5, <2>1, <2>2, QuietAsleep DEF IInv, CInv
<1>6. QED
  BY <1>1, <1>2, <1>3, <1>4, <1>5 DEF IInv, CInv

\* A step into the fault, which careful clients do not take.
LEMMA FaultStep ==
    ASSUME IInv, ~careful, NEW why, Fault(why)
    PROVE  IInv' /\ CInv'
<1>1. UNCHANGED <<objects, wait, thread, ghosts, careful>>
  BY DEF Fault
<1>2. IInv'
  <2>1. Types'
    BY <1>1 DEF IInv, Types, objects, ghosts
  <2>2. PacketInv'
    BY <1>1, FramePackets DEF IInv, PacketFrame, objects, ghosts
  <2>3. GroupInv'
    BY <1>1, FrameGroups DEF IInv, GroupFrame, objects
  <2>4. WaitInv'
    BY <1>1 DEF IInv, WaitInv, Blocked
  <2>5. QED
    BY <2>1, <2>2, <2>3, <2>4 DEF IInv
<1>3. QED
  BY <1>1, <1>2 DEF CInv

\* port_create, its lookup.
LEMMA LookupStep ==
    ASSUME IInv, CInv, fault = "none", NEW t \in Threads, port_create_lookup(t)
    PROVE  IInv' /\ CInv'
<1>1. /\ thread[t] = Idle /\ thread' = [thread EXCEPT ![t].at = "create"]
      /\ UNCHANGED <<objects, wait, ghosts, careful, fault>>
  BY DEF port_create_lookup
<1>2. thread \in [Threads -> ThreadType]
  BY DEF IInv, Types
<1>3. thread'[t] = [Idle EXCEPT !.at = "create"] /\ \A u \in Threads \ {t} : thread'[u] = thread[u]
  BY <1>1, <1>2
<1>4. thread[t].at = "idle"
  BY <1>1 DEF Idle
<1>5. Quieter({})
  BY <1>3, <1>4 DEF Quieter
<1>6. thread' \in [Threads -> ThreadType]
  BY ONLY <1>1, <1>2, t \in Threads
<1>7. QED
  BY <1>1, <1>5, <1>6, ThreadsOnly

\* A step that leaves the groups and the buffers of the read ports alone.
LEMMA BuffersKept ==
    ASSUME IInv, CInv, fault = "none", UNCHANGED <<careful, fault>>, Types', PacketInv',
           GroupFrame, ObjectsKept, \A r \in RPorts : rport'[r].buf = rport[r].buf,
           NEW W, Quieter(W), \A o \in Objects : Lists(wait'[o], Blocked(o) \ W)
    PROVE  IInv' /\ CInv'
<1>1. GroupInv' /\ (CarefulGroups => CarefulGroups')
      /\ \A g \in Groups : Members(g)' = Members(g)
  BY FrameGroups DEF IInv
<1>2. WaitInv'
  BY QuietWait DEF IInv
<1>3. ASSUME careful PROVE CarefulReaders' /\ CarefulAdd'
  BY <1>3, KeptCareful DEF IInv, CInv
<1>4. ASSUME careful PROVE Asleep'
  <2>1. \A g \in Groups : (\A r \in Members(g) : rport[r].buf = <<>>)
                            => \A r \in Members(g)' : rport'[r].buf = <<>>
    BY <1>1 DEF Members
  <2>2. QED
    BY <1>4, <2>1, QuietAsleep DEF IInv, CInv
<1>5. QED
  BY <1>1, <1>2, <1>3, <1>4 DEF IInv, CInv

\* The wait queues of a step that wakes nobody.
LEMMA NobodyWoken ==
    ASSUME WaitInv, wait' = wait
    PROVE  \A o \in Objects : Lists(wait'[o], Blocked(o) \ {})
<1>1. \A o \in Objects : Blocked(o) \ {} = Blocked(o)
  OBVIOUS
<1>2. QED
  BY <1>1 DEF WaitInv

\* A thread comes to the end of what it does.
LEMMA BackToIdle ==
    ASSUME Types, NEW t \in Threads, thread[t].at # "blocked",
           thread' = [thread EXCEPT ![t] = Idle]
    PROVE  Quieter({}) /\ thread' \in [Threads -> ThreadType]
<1>1. thread \in [Threads -> ThreadType]
  BY DEF Types
<1>2. thread'[t] = Idle /\ \A u \in Threads \ {t} : thread'[u] = thread[u]
  BY <1>1
<1>3. Idle \in ThreadType
  BY DEF Idle
<1>4. thread' \in [Threads -> ThreadType]
  BY ONLY <1>1, <1>3, thread' = [thread EXCEPT ![t] = Idle], t \in Threads
<1>5. QED
  BY <1>2, <1>4 DEF Quieter

\* port_create.
LEMMA CreateStep ==
    ASSUME IInv, CInv, fault = "none", NEW t \in Threads, NEW mode \in Modes, port_create(t, mode)
    PROVE  IInv' /\ CInv'
<1>1. /\ thread[t].at = "create" /\ thread' = [thread EXCEPT ![t] = Idle]
      /\ UNCHANGED <<rport, group, last, wait, careful, fault>>
  BY DEF port_create
<1>2. Quieter({}) /\ thread' \in [Threads -> ThreadType]
  BY <1>1, BackToIdle DEF IInv
<1>3. CASE UNCHANGED <<write_port_list, wport, accepted, delivered>>
  BY <1>1, <1>2, <1>3, ThreadsOnly DEF objects, ghosts
<1>4. ASSUME NEW w \in WPorts, wport[w].magic = "0",
             wport' = [wport EXCEPT ![w] =
                         [magic |-> "W", mode |-> mode, buf |-> <<>>, rp_list |-> <<>>]],
             write_port_list' = Append(write_port_list, w),
             accepted' = [accepted EXCEPT ![w] = 0],
             delivered' = [delivered EXCEPT ![w] = 0]
      PROVE  IInv' /\ CInv'
  <2>1. PacketInv'
    BY <1>1, <1>4, CreatePackets DEF IInv
  <2>2. Types'
    <3>1. [magic |-> "W", mode |-> mode, buf |-> <<>>, rp_list |-> <<>>] \in WPortType
      <4>1. <<>> \in Buffers /\ <<>> \in Seq(RPorts)
        BY EmptyBuffer
      <4>2. QED
        BY <4>1
    <3> HIDE DEF WPortType
    <3>2. wport' \in [WPorts -> WPortType]
      BY <1>4, <3>1 DEF IInv, Types
    <3>3. accepted' \in [WPorts -> Nat] /\ delivered' \in [WPorts -> Nat]
      BY <1>4 DEF IInv, Types
    <3>4. QED
      BY <1>1, <1>2, <3>2, <3>3 DEF IInv, Types
  <2>3. GroupFrame /\ ObjectsKept /\ \A r \in RPorts : rport'[r].buf = rport[r].buf
    BY <1>1 DEF GroupFrame, ObjectsKept
  <2>4. \A o \in Objects : Lists(wait'[o], Blocked(o) \ {})
    BY <1>1, NobodyWoken DEF IInv
  <2>5. QED
    BY <1>1, <1>2, <2>1, <2>2, <2>3, <2>4, BuffersKept
<1>5. QED
  BY <1>3, <1>4 DEF port_create

\* port_close of a write port.
LEMMA CloseWriteStep ==
    ASSUME IInv, CInv, fault = "none", NEW w \in WPorts, port_close_write(w)
    PROVE  IInv' /\ CInv'
<1>1. /\ wport' = [wport EXCEPT ![w].magic = "X"]
      /\ UNCHANGED <<write_port_list, rport, group, wait, thread, ghosts, careful, fault>>
  BY DEF port_close_write
<1>2. PacketInv'
  BY CloseWritePackets DEF IInv
<1>3. Types'
  <2>1. wport \in [WPorts -> WPortType]
    BY DEF IInv, Types
  <2>2. wport' \in [WPorts -> WPortType]
    BY ONLY <1>1, <2>1, w \in WPorts
  <2> HIDE DEF WPortType
  <2>3. QED
    BY <1>1, <2>2 DEF IInv, Types, ghosts
<1>4. GroupFrame /\ ObjectsKept /\ \A r \in RPorts : rport'[r].buf = rport[r].buf
  BY <1>1 DEF GroupFrame, ObjectsKept
<1>5. Quieter({}) /\ \A o \in Objects : Lists(wait'[o], Blocked(o) \ {})
  BY <1>1, NobodyWoken DEF IInv, Quieter
<1>6. QED
  BY <1>1, <1>2, <1>3, <1>4, <1>5, BuffersKept

\* The timeout of a wait.
LEMMA TimeoutStep ==
    ASSUME IInv, CInv, fault = "none", NEW t \in Threads, wait_queue_timeout_handler(t)
    PROVE  IInv' /\ CInv'
<1>0. PICK p : p = thread[t].port
  OBVIOUS
<1>1. /\ thread[t].at = "blocked"
      /\ wait' = [wait EXCEPT ![p] = list_delete(@, t)]
      /\ thread' = WokenUp({t}, "ERR_TIMED_OUT")
      /\ UNCHANGED <<objects, ghosts, careful, fault>>
  BY <1>0 DEF wait_queue_timeout_handler
<1>2. Quieter({t}) /\ thread' \in [Threads -> ThreadType]
  BY <1>1, WokenUpThreads DEF IInv
<1>3. p \in Objects /\ t \in Blocked(p) /\ Lists(wait[p], Blocked(p))
  BY <1>0, <1>1 DEF IInv, WaitInv, Blocked
<1>4. Lists(list_delete(wait[p], t), Blocked(p) \ {t})
  BY <1>3, ListDelete
<1>5. ASSUME NEW o \in Objects PROVE Lists(wait'[o], Blocked(o) \ {t})
  <2>1. wait'[o] = IF o = p THEN list_delete(wait[p], t) ELSE wait[o]
    BY <1>1, <1>3 DEF IInv, Types
  <2>2. CASE o = p
    BY <1>4, <2>1, <2>2
  <2>3. CASE o # p
    <3>1. Blocked(o) \ {t} = Blocked(o)
      BY <1>0, <2>3 DEF Blocked
    <3>2. QED
      BY <2>1, <2>3, <3>1 DEF IInv, WaitInv
  <2>4. QED
    BY <2>2, <2>3
<1>6. wait' \in [Objects -> Seq(Threads)]
  <2>1. list_delete(wait[p], t) \in Seq(Threads)
    <3>1. list_delete(wait[p], t) \in Seq(Blocked(p) \ {t}) /\ Blocked(p) \ {t} \subseteq Threads
      BY <1>4 DEF Lists, Blocked
    <3>2. QED
      BY <3>1
  <2>2. QED
    BY <1>1, <2>1 DEF IInv, Types
<1>7. Types'
  BY <1>1, <1>2, <1>6 DEF IInv, Types, objects, ghosts
<1>8. PacketInv'
  BY <1>1, FramePackets DEF IInv, PacketFrame, objects, ghosts
<1>9. GroupFrame /\ ObjectsKept /\ \A r \in RPorts : rport'[r].buf = rport[r].buf
  BY <1>1 DEF GroupFrame, ObjectsKept, objects
<1>10. QED
  BY <1>1, <1>2, <1>5, <1>7, <1>8, <1>9, BuffersKept

\* port_destroy.
LEMMA DestroyStep ==
    ASSUME IInv, CInv, fault = "none", NEW w \in WPorts, port_destroy(w)
    PROVE  IInv' /\ CInv'
<1>a. PICK rs : rs = ToSet(wport[w].rp_list)
  OBVIOUS
<1>b. PICK gs : gs = {rport[r].gport : r \in rs} \ {None}
  OBVIOUS
<1>1. rs = OpenOn(w) /\ rs \subseteq RPorts
  <2>1. Lists(wport[w].rp_list, OpenOn(w))
    BY DEF IInv, PacketInv, WriteOK
  <2>2. QED
    BY <1>a, <2>1, ListsToSet DEF OpenOn
<1>2. CASE \E g \in gs : group[g].magic = "0"
  <2>1. PICK g \in gs : group[g].magic = "0"
    BY <1>2
  <2>2. PICK r \in rs : rport[r].gport = g /\ g # None
    BY <1>b, <2>1
  <2>3. g \in Groups /\ r \in Members(g)
    BY <1>1, <2>2 DEF OpenOn, Members, IInv, Types
  <2>4. ~careful
    BY <2>1, <2>3 DEF CInv, CarefulGroups, IsGroup
  <2>5. Fault("port_destroy")
    BY <1>a, <1>b, <1>2 DEF port_destroy
  <2>6. QED
    BY <2>4, <2>5, FaultStep
<1>3. CASE ~\E g \in gs : group[g].magic = "0"
  <2>1. /\ wport[w].magic = "X"
        /\ write_port_list' = list_delete(write_port_list, w)
        /\ wport' = [wport EXCEPT ![w] = NoWPort]
        /\ rport' = [r \in RPorts |-> IF r \in rs THEN [rport[r] EXCEPT !.wport = None]
                                                  ELSE rport[r]]
        /\ WakeAll(rs \cup gs, "ERR_CANCELLED")
        /\ accepted' = [accepted EXCEPT ![w] = 0]
        /\ delivered' = [delivered EXCEPT ![w] = 0]
        /\ UNCHANGED <<group, last, careful, fault>>
    BY <1>a, <1>b, <1>3 DEF port_destroy
  <2>2. PacketInv'
    BY <1>a, <2>1, DestroyPackets DEF IInv
  <2>3. rs \cup gs \in SUBSET Objects
    <3>1. gs \subseteq Groups
      <4>1. \A r \in rs : rport[r].gport \in Groups \cup {None}
        BY <1>1 DEF IInv, Types
      <4>2. QED
        BY <1>b, <4>1
    <3>2. QED
      BY <1>1, <3>1 DEF Objects
  <2>4. PICK W \in SUBSET Threads :
              /\ Quieter(W)
              /\ \A o \in Objects : Lists(wait'[o], Blocked(o) \ W)
              /\ thread' \in [Threads -> ThreadType]
              /\ wait' \in [Objects -> Seq(Threads)]
    BY <2>1, <2>3, WakeAllThreads DEF IInv
  <2>5. ASSUME NEW r \in RPorts
        PROVE  /\ rport'[r] \in RPortType /\ rport'[r].magic = rport[r].magic
               /\ rport'[r].buf = rport[r].buf /\ rport'[r].gport = rport[r].gport
    <3>1. rport[r] \in RPortType
      BY DEF IInv, Types
    <3>2. rport'[r] = IF r \in rs THEN [rport[r] EXCEPT !.wport = None] ELSE rport[r]
      BY <2>1
    <3>3. QED
      BY ONLY <3>1, <3>2
  <2>6. Types'
    <3>1. NoWPort \in WPortType
      <4>1. <<>> \in Seq(RPorts)
        OBVIOUS
      <4>2. QED
        BY <4>1 DEF NoWPort
    <3> HIDE DEF WPortType, RPortType
    <3>2. wport' \in [WPorts -> WPortType]
      BY <2>1, <3>1 DEF IInv, Types
    <3>3. rport' \in [RPorts -> RPortType]
      BY <2>1, <2>5
    <3>4. accepted' \in [WPorts -> Nat] /\ delivered' \in [WPorts -> Nat]
      BY <2>1 DEF IInv, Types
    <3>5. QED
      BY <2>1, <2>4, <3>2, <3>3, <3>4 DEF IInv, Types
  <2>7. GroupFrame /\ ObjectsKept /\ \A r \in RPorts : rport'[r].buf = rport[r].buf
    BY <2>1, <2>5 DEF GroupFrame, ObjectsKept
  <2>8. QED
    BY <2>1, <2>2, <2>4, <2>6, <2>7, BuffersKept
<1>4. QED
  BY <1>2, <1>3

\* port_open.
LEMMA OpenStep ==
    ASSUME IInv, CInv, fault = "none", NEW r \in RPorts, port_open(r)
    PROVE  IInv' /\ CInv'
<1>a. PICK w : w = Head(write_port_list)
  OBVIOUS
<1>b. PICK buf : buf = IF wport[w].buf # None THEN wport[w].buf ELSE <<>>
  OBVIOUS
<1>1. /\ rport[r].magic = "0" /\ write_port_list # <<>>
      /\ rport' = [rport EXCEPT ![r] = [magic |-> "R", buf |-> buf, wport |-> w, gport |-> None]]
      /\ wport' = [wport EXCEPT ![w].buf = None, ![w].rp_list = Append(@, r)]
      /\ last' = [last EXCEPT ![r] = 0]
      /\ UNCHANGED <<write_port_list, group, wait, thread, accepted, delivered, careful, fault>>
  BY <1>a, <1>b DEF port_open
<1>2. w \in WPorts
  <2>1. Lists(write_port_list, {v \in WPorts : wport[v].magic # "0"})
    BY DEF IInv, PacketInv
  <2>2. Head(write_port_list) \in {v \in WPorts : wport[v].magic # "0"}
    BY <1>1, <2>1, ListsTail
  <2>3. QED
    BY <1>a, <2>2
<1>3. PacketInv'
  BY OpenPackets DEF IInv
<1>4. /\ \A q \in RPorts \ {r} : rport'[q] = rport[q]
      /\ rport'[r] = [magic |-> "R", buf |-> buf, wport |-> w, gport |-> None]
  BY <1>1 DEF IInv, Types
<1>5. Types'
  <2>1. [magic |-> "R", buf |-> buf, wport |-> w, gport |-> None] \in RPortType
    <3>1. buf \in Buffers \cup {None}
      BY <1>b, <1>2, EmptyBuffer DEF IInv, Types
    <3>2. QED
      BY <1>2, <3>1
  <2>2. wport \in [WPorts -> WPortType]
    BY DEF IInv, Types
  <2>3. wport' \in [WPorts -> WPortType]
    <3>1. Append(wport[w].rp_list, r) \in Seq(RPorts)
      <4>1. wport[w].rp_list \in Seq(RPorts)
        BY <1>2, <2>2
      <4>2. QED
        BY <4>1
    <3>2. PICK new : new = Append(wport[w].rp_list, r)
      OBVIOUS
    <3>3. wport' = [wport EXCEPT ![w].buf = None, ![w].rp_list = new]
      BY <1>1, <3>2
    <3>4. wport'[w] = [wport[w] EXCEPT !.buf = None, !.rp_list = new]
      BY ONLY <1>2, <2>2, <3>3
    <3>5. wport[w] \in WPortType
      BY ONLY <1>2, <2>2
    <3>6. wport'[w] \in WPortType
      BY ONLY <3>1, <3>2, <3>4, <3>5
    <3> HIDE DEF WPortType
    <3>7. QED
      BY ONLY <1>2, <2>2, <3>3, <3>6
  <2> HIDE DEF WPortType, RPortType
  <2>4. rport' \in [RPorts -> RPortType] /\ last' \in [RPorts -> Nat]
    BY <1>1, <2>1 DEF IInv, Types
  <2>5. QED
    BY <1>1, <2>3, <2>4 DEF IInv, Types
<1>6. None \notin Groups
  BY PortAssumption
<1>7. \A g \in Groups : /\ Members(g)' = Members(g) /\ r \notin Members(g)
                        /\ Linked(g)' = Linked(g)
  BY <1>1, <1>4, <1>6 DEF Members, Linked, IsReadPort
<1>8. GroupInv' /\ (CarefulGroups => CarefulGroups')
  BY <1>1, <1>7 DEF IInv, GroupInv, CarefulGroups, IsGroup
<1>9. Quieter({}) /\ \A o \in Objects : Lists(wait'[o], Blocked(o) \ {})
  BY <1>1, NobodyWoken DEF IInv, Quieter
<1>10. WaitInv'
  BY <1>9, QuietWait DEF IInv
<1>11. ObjectsKept
  BY <1>1, <1>4 DEF ObjectsKept
<1>12. ASSUME careful PROVE CarefulReaders' /\ CarefulAdd'
  BY <1>9, <1>11, <1>12, KeptCareful DEF IInv, CInv
<1>13. ASSUME careful PROVE Asleep'
  <2>1. Blocked(r) = {}
    BY <1>1, <1>13 DEF Blocked, CInv, CarefulReaders, Open
  <2>2. \A p \in RPorts : Blocked(p) \ {} # {} /\ rport[p].buf = <<>> => rport'[p].buf = <<>>
    BY <1>4, <2>1
  <2>3. \A g \in Groups : (\A q \in Members(g) : rport[q].buf = <<>>)
                            => \A q \in Members(g)' : rport'[q].buf = <<>>
    BY <1>4, <1>7 DEF Members
  <2>4. QED
    BY <1>9, <1>13, <2>2, <2>3, QuietAsleep DEF IInv, CInv
<1>14. QED
  BY <1>1, <1>3, <1>5, <1>8, <1>10, <1>12, <1>13 DEF IInv, CInv

\* The reader of a port that is open, when clients are careful: it is the only one.
LEMMA ReaderQueue ==
    ASSUME IInv, CInv, careful, NEW r \in RPorts, rport[r].magic = "R", NEW o \in Objects,
           Blocked(o) # {}, o = r \/ r \in Members(o)
    PROVE  o = ReaderOf(r)
<1>1. PICK t \in Threads : thread[t].at = "blocked" /\ thread[t].port = o
  BY DEF Blocked
<1>2. CASE o = r
  BY <1>1, <1>2 DEF CInv, CarefulReaders, ReaderOf
<1>3. CASE r \in Members(o)
  <2>1. rport[r].gport = o /\ o \in Groups
    <3>1. rport[r].gport \in Groups \cup {None}
      BY DEF IInv, Types
    <3>2. o # None
      BY PortAssumption DEF Objects
    <3>3. QED
      BY <1>3, <3>1, <3>2 DEF Members
  <2>2. None \notin Groups
    BY PortAssumption
  <2>3. QED
    BY <2>1, <2>2 DEF ReaderOf
<1>4. QED
  BY <1>2, <1>3

\* port_write.
LEMMA WriteStep ==
    ASSUME IInv, CInv, fault = "none", NEW w \in WPorts, NEW count \in Nat, port_write(w, count)
    PROVE  IInv' /\ CInv'
<1>a. PICK takers : takers = {r \in ToSet(wport[w].rp_list) : Room(rport[r].buf, count)}
  OBVIOUS
<1>b. PICK wakes : wakes = Wakes(wport[w].rp_list, takers)
  OBVIOUS
<1>1. wport[w].magic = "W"
  BY DEF port_write
<1>2. ToSet(wport[w].rp_list) = OpenOn(w) /\ takers \subseteq OpenOn(w)
  <2>1. Lists(wport[w].rp_list, OpenOn(w))
    BY DEF IInv, PacketInv, WriteOK
  <2>2. QED
    BY <1>a, <2>1, ListsToSet
<1>3. ASSUME wport[w].buf # None, Room(wport[w].buf, count),
             wport' = [wport EXCEPT ![w].buf = @ \o Packets(w, count)],
             accepted' = [accepted EXCEPT ![w] = @ + count],
             UNCHANGED <<write_port_list, rport, group, wait, thread, delivered, last, careful,
                         fault>>
      PROVE  IInv' /\ CInv'
  <2>1. PacketInv'
    BY <1>1, <1>3, WriteOwnPackets DEF IInv
  <2>2. Types'
    <3>0. PICK new : new = wport[w].buf \o Packets(w, count)
      OBVIOUS
    <3>1. new \in Buffers
      <4>1. After(wport[w].buf, 0) /\ UpTo(wport[w].buf, accepted[w]) /\ accepted[w] \in Nat
        BY <1>1, <1>3 DEF IInv, PacketInv, WriteOK, Types
      <4>2. 0 <= accepted[w]
        BY <4>1
      <4>3. QED
        BY ONLY <1>3, <3>0, <4>1, <4>2, count \in Nat, AppendPackets DEF Packets
    <3>2. wport \in [WPorts -> WPortType] /\ accepted \in [WPorts -> Nat]
      BY DEF IInv, Types
    <3>3. wport' \in [WPorts -> WPortType]
      BY ONLY <1>3, <3>0, <3>1, <3>2, w \in WPorts
    <3>4. accepted' \in [WPorts -> Nat]
      <4>1. accepted' = [accepted EXCEPT ![w] = @ + count]
        BY ONLY <1>3
      <4>2. accepted \in [WPorts -> Nat]
        BY ONLY <3>2
      <4>3. QED
        BY ONLY <4>1, <4>2, w \in WPorts, count \in Nat
    <3> HIDE DEF WPortType
    <3>5. QED
      BY <1>3, <3>3, <3>4 DEF IInv, Types
  <2>3. GroupFrame /\ ObjectsKept /\ \A r \in RPorts : rport'[r].buf = rport[r].buf
    BY <1>3 DEF GroupFrame, ObjectsKept
  <2>4. Quieter({}) /\ \A o \in Objects : Lists(wait'[o], Blocked(o) \ {})
    BY <1>3, NobodyWoken DEF IInv, Quieter
  <2>5. QED
    BY <1>3, <2>1, <2>2, <2>3, <2>4, BuffersKept
<1>4. ASSUME \E r \in takers : rport[r].gport # None /\ group[rport[r].gport].magic = "0",
             Fault("port_write")
      PROVE  IInv' /\ CInv'
  <2>1. PICK r \in takers : rport[r].gport # None /\ group[rport[r].gport].magic = "0"
    BY <1>4
  <2>2. r \in RPorts /\ rport[r].magic = "R"
    BY <1>2, <2>1 DEF OpenOn
  <2>3. rport[r].gport \in Groups /\ r \in Members(rport[r].gport)
    BY <2>1, <2>2 DEF Members, IInv, Types
  <2>4. ~careful
    BY <2>1, <2>3 DEF CInv, CarefulGroups, IsGroup
  <2>5. QED
    BY <1>4, <2>4, FaultStep
<1>5. ASSUME wport[w].buf = None, takers # {},
             rport' = [r \in RPorts |-> IF r \in takers
                                        THEN [rport[r] EXCEPT !.buf = @ \o Packets(w, count)]
                                        ELSE rport[r]],
             accepted' = [accepted EXCEPT ![w] = @ + count],
             wait' = wakes.wait, thread' = WokenUp(wakes.woken, "NO_ERROR"),
             UNCHANGED <<write_port_list, wport, group, delivered, last, careful, fault>>
      PROVE  IInv' /\ CInv'
  <2>1. PacketInv'
    <3>1. Types /\ PacketInv
      BY DEF IInv
    <3>2. UNCHANGED <<write_port_list, wport, delivered, last>>
      BY <1>5
    <3>3. takers \in SUBSET OpenOn(w) /\ \A r \in takers : Room(rport[r].buf, count)
      BY <1>a, <1>2
    <3>4. QED
      BY ONLY <1>1, <1>5, <3>1, <3>2, <3>3, w \in WPorts, count \in Nat, WriteReaderPackets
  <2>2. WakesInv(wakes, takers)
    <3>1. wport[w].rp_list \in Seq(RPorts)
      BY DEF IInv, Types
    <3>2. ToSet(wport[w].rp_list) \cap takers = takers
      BY <1>a
    <3>3. careful => CarefulReaders
      BY DEF CInv
    <3>4. QED
      BY <1>b, <3>1, <3>2, <3>3, WakesForAll DEF IInv
  <2>3. PICK W : W = wakes.woken
    OBVIOUS
  <2>4. Quieter(W) /\ thread' \in [Threads -> ThreadType]
    <3>1. \A t \in W : t \in Threads /\ thread[t].at = "blocked"
      BY <2>2, <2>3 DEF WakesInv
    <3>2. QED
      BY <1>5, <2>3, <3>1, WokenUpThreads DEF IInv
  <2>5. /\ \A o \in Objects : Lists(wait'[o], Blocked(o) \ W)
        /\ wait' \in [Objects -> Seq(Threads)]
        /\ careful => \A r \in takers : Blocked(ReaderOf(r)) \subseteq W
    BY <1>5, <2>2, <2>3 DEF WakesInv
  <2>6. ASSUME NEW r \in RPorts
        PROVE  /\ rport'[r].magic = rport[r].magic /\ rport'[r].gport = rport[r].gport
               /\ rport'[r].wport = rport[r].wport
               /\ r \notin takers => rport'[r] = rport[r]
    <3>1. rport[r] \in RPortType
      BY DEF IInv, Types
    <3>2. PICK b : b = rport[r].buf \o Packets(w, count)
      OBVIOUS
    <3>3. rport'[r] = IF r \in takers THEN [rport[r] EXCEPT !.buf = b] ELSE rport[r]
      BY <1>5, <3>2
    <3>4. QED
      BY ONLY <3>1, <3>3
  <2>7. ASSUME NEW r \in RPorts PROVE rport'[r] \in RPortType
    <3>1. rport[r] \in RPortType
      BY DEF IInv, Types
    <3>2. CASE r \notin takers
      <4> HIDE DEF RPortType
      <4>1. QED
        BY <2>6, <3>1, <3>2
    <3>3. CASE r \in takers
      <4>1. PICK b : b = rport[r].buf \o Packets(w, count)
        OBVIOUS
      <4>2. rport'[r] = [rport[r] EXCEPT !.buf = b]
        BY <1>5, <3>3, <4>1
      <4>3. rport[r].magic = "R"
        BY <1>2, <3>3 DEF OpenOn
      <4>4. rport'[r].buf = b
        BY ONLY <3>1, <4>2
      <4>5. b \in Buffers
        BY <2>1, <2>6, <4>3, <4>4 DEF PacketInv, ReadOK, After
      <4>6. QED
        BY ONLY <3>1, <4>2, <4>5
    <3>4. QED
      BY <3>2, <3>3
  <2>8. Types'
    <3>1. rport' \in [RPorts -> RPortType]
      <4> HIDE DEF RPortType
      <4>1. QED
        BY <1>5, <2>7
    <3>2. accepted' \in [WPorts -> Nat]
      <4>1. accepted \in [WPorts -> Nat]
        BY DEF IInv, Types
      <4>2. QED
        BY ONLY <1>5, <4>1, w \in WPorts, count \in Nat
    <3>3. QED
      BY <1>5, <2>4, <2>5, <3>1, <3>2 DEF IInv, Types
  <2>9. GroupFrame /\ ObjectsKept
    BY <1>5, <2>6 DEF GroupFrame, ObjectsKept
  <2>10. GroupInv' /\ (CarefulGroups => CarefulGroups')
         /\ \A g \in Groups : Members(g)' = Members(g)
    BY <2>9, FrameGroups DEF IInv
  <2>11. WaitInv'
    BY <2>4, <2>5, QuietWait DEF IInv
  <2>12. ASSUME careful PROVE CarefulReaders' /\ CarefulAdd'
    BY <2>4, <2>9, <2>12, KeptCareful DEF IInv, CInv
  <2>13. ASSUME careful PROVE Asleep'
    <3>1. ASSUME NEW r \in takers, NEW o \in Objects, o = r \/ r \in Members(o)
          PROVE  Blocked(o) \ W = {}
      <4>1. CASE Blocked(o) = {}
        BY <4>1
      <4>2. CASE Blocked(o) # {}
        <5>1. r \in RPorts /\ rport[r].magic = "R"
          BY <1>2 DEF OpenOn
        <5>2. o = ReaderOf(r)
          BY <2>13, <3>1, <4>2, <5>1, ReaderQueue
        <5>3. QED
          BY <2>5, <2>13, <5>2
      <4>3. QED
        BY <4>1, <4>2
    <3>2. \A p \in RPorts : Blocked(p) \ W # {} /\ rport[p].buf = <<>> => rport'[p].buf = <<>>
      <4>1. \A p \in RPorts : Blocked(p) \ W # {} => p \notin takers
        BY <3>1 DEF Objects
      <4>2. QED
        BY <2>6, <4>1
    <3>3. ASSUME NEW g \in Groups, Blocked(g) \ W # {}, \A r \in Members(g) : rport[r].buf = <<>>
          PROVE  \A r \in Members(g)' : rport'[r].buf = <<>>
      <4>1. \A r \in Members(g) : r \notin takers /\ r \in RPorts
        BY <3>1, <3>3 DEF Objects, Members
      <4>2. QED
        BY <2>6, <2>10, <3>3, <4>1
    <3>4. QED
      BY <2>4, <2>13, <3>2, <3>3, QuietAsleep DEF IInv, CInv
  <2>14. QED
    BY <1>5, <2>1, <2>8, <2>10, <2>11, <2>12, <2>13 DEF IInv, CInv
<1>6. QED
  BY <1>a, <1>b, <1>3, <1>4, <1>5 DEF port_write

\* The ports that port_read looks at are not freed; careful clients read open ones.
LEMMA SourcesOpen ==
    ASSUME IInv, CInv, NEW o \in Objects, Live(o), NEW i \in DOMAIN Sources(o)
    PROVE  /\ Sources(o)[i] \in RPorts /\ IsReadPort(Sources(o)[i])
           /\ careful /\ Open(o) => /\ rport[Sources(o)[i]].magic = "R"
                                    /\ Sources(o)[i] = o \/ Sources(o)[i] \in Members(o)
<1>1. CASE o \in RPorts
  BY <1>1 DEF Sources, Open, Live
<1>2. CASE o \notin RPorts
  <2>1. o \in Groups /\ Sources(o) = group[o].rp_list
    BY <1>2 DEF Sources, Objects
  <2>2. PICK S \in SUBSET Linked(o) : Lists(group[o].rp_list, S)
    BY <2>1 DEF IInv, GroupInv
  <2>3. Sources(o)[i] \in S
    BY <2>1, <2>2 DEF Lists
  <2>4. careful => Lists(group[o].rp_list, Members(o))
    BY <2>1 DEF CInv, CarefulGroups
  <2>5. careful => Sources(o)[i] \in Members(o)
    BY <2>1, <2>4 DEF Lists
  <2>6. QED
    BY <2>2, <2>3, <2>5 DEF Members, Linked
<1>3. QED
  BY <1>1, <1>2

\* port_read takes a packet.
LEMMA TakeStep ==
    ASSUME IInv, CInv, fault = "none", NEW t \in Threads, thread[t].at # "blocked",
           NEW r \in RPorts, IsReadPort(r), rport[r].buf # None, HasPacket(r), Take(r),
           thread' = [thread EXCEPT ![t] = Idle]
    PROVE  IInv' /\ CInv'
<1>1. /\ rport' = [rport EXCEPT ![r].buf = Tail(@)]
      /\ UNCHANGED <<write_port_list, wport, group, wait, accepted, careful, fault>>
  BY DEF Take
<1>2. rport \in [RPorts -> RPortType] /\ rport[r].buf # <<>>
  BY DEF IInv, Types, HasPacket
<1>3. PICK buf : buf = Tail(rport[r].buf)
  OBVIOUS
<1>4. rport' = [rport EXCEPT ![r].buf = buf]
  BY <1>1, <1>3
<1>5. buf \in Buffers /\ Head(rport[r].buf) \in Nat
  <2>1. After(rport[r].buf, last[r]) /\ last[r] \in Nat
    BY DEF IInv, PacketInv, ReadOK, Types, IsReadPort
  <2>2. QED
    BY <1>2, <1>3, <2>1, TailPackets
<1>6. ASSUME NEW q \in RPorts
      PROVE  /\ rport'[q].magic = rport[q].magic /\ rport'[q].gport = rport[q].gport
             /\ q # r => rport'[q] = rport[q]
  BY ONLY <1>2, <1>4, <1>6, q \in RPorts, r \in RPorts
<1>7. rport' \in [RPorts -> RPortType]
  BY ONLY <1>2, <1>4, <1>5, r \in RPorts
<1>8. Quieter({}) /\ thread' \in [Threads -> ThreadType]
  BY BackToIdle DEF IInv
<1>9. Types'
  <2>1. delivered \in [WPorts -> Nat] /\ last \in [RPorts -> Nat]
    BY DEF IInv, Types
  <2>2. delivered' \in [WPorts -> Nat] /\ last' \in [RPorts -> Nat]
    <3>1. PICK p : p = Head(rport[r].buf)
      OBVIOUS
    <3>2. \/ delivered' = [delivered EXCEPT ![rport[r].wport] = p] /\ UNCHANGED last
          \/ last' = [last EXCEPT ![r] = p] /\ UNCHANGED delivered
      BY <3>1 DEF Take
    <3>3. QED
      BY ONLY <1>5, <2>1, <3>1, <3>2
  <2> HIDE DEF RPortType
  <2>3. QED
    BY <1>1, <1>7, <1>8, <2>2 DEF IInv, Types
<1>10. PacketInv'
  BY TakePackets, TakeClosingPackets DEF IInv, IsReadPort
<1>11. GroupFrame /\ ObjectsKept
  BY <1>1, <1>6 DEF GroupFrame, ObjectsKept
<1>12. GroupInv' /\ (CarefulGroups => CarefulGroups')
       /\ \A g \in Groups : Members(g)' = Members(g)
  BY <1>11, FrameGroups DEF IInv
<1>13. WaitInv'
  BY <1>1, <1>8, NobodyWoken, QuietWait DEF IInv
<1>14. ASSUME careful PROVE CarefulReaders' /\ CarefulAdd'
  BY <1>8, <1>11, <1>14, KeptCareful DEF IInv, CInv
<1>15. ASSUME careful PROVE Asleep'
  <2>1. \A p \in RPorts : rport[p].buf = <<>> => rport'[p].buf = <<>>
    BY <1>2, <1>6
  <2>2. \A g \in Groups : (\A q \in Members(g) : rport[q].buf = <<>>)
                            => \A q \in Members(g)' : rport'[q].buf = <<>>
    BY <1>12, <2>1 DEF Members
  <2>3. QED
    BY <1>8, <1>15, <2>1, <2>2, QuietAsleep DEF IInv, CInv
<1>16. QED
  BY <1>1, <1>9, <1>10, <1>12, <1>13, <1>14, <1>15 DEF IInv, CInv

\* port_read goes to sleep.
LEMMA BlockStep ==
    ASSUME IInv, CInv, fault = "none", NEW t \in Threads, thread[t].at # "blocked",
           NEW o \in Objects, careful => Open(o),
           careful => /\ \A u \in Threads \ {t} : thread[u].at \in Readers => thread[u].port # o
                      /\ o \in RPorts => /\ rport[o].gport = None
                                         /\ \A u \in Threads : thread[u].at = "add"
                                                                    => thread[u].port # o,
           \A i \in DOMAIN Sources(o) : ~HasPacket(Sources(o)[i]),
           wait' = [wait EXCEPT ![o] = Append(@, t)],
           thread' = [thread EXCEPT ![t] = [Idle EXCEPT !.at = "blocked", !.port = o]],
           UNCHANGED <<objects, ghosts, careful, fault>>
    PROVE  IInv' /\ CInv'
<1>1. thread \in [Threads -> ThreadType] /\ wait \in [Objects -> Seq(Threads)]
  BY DEF IInv, Types
<1>2. /\ thread'[t].at = "blocked" /\ thread'[t].port = o /\ thread'[t].group = None
      /\ \A u \in Threads \ {t} : thread'[u] = thread[u]
  <2>1. thread'[t] = [Idle EXCEPT !.at = "blocked", !.port = o]
    BY <1>1
  <2>2. QED
    BY <1>1, <2>1 DEF Idle
<1>3. thread' \in [Threads -> ThreadType]
  <2>1. [Idle EXCEPT !.at = "blocked", !.port = o] \in ThreadType
    BY DEF Idle
  <2> HIDE DEF ThreadType
  <2>2. QED
    BY <1>1, <2>1
<1>4. wait' \in [Objects -> Seq(Threads)]
  <2>1. Append(wait[o], t) \in Seq(Threads)
    BY <1>1
  <2>2. QED
    BY <1>1, <2>1
<1>5. Types'
  <2> HIDE DEF WPortType, RPortType, GroupType, ThreadType
  <2>1. QED
    BY <1>3, <1>4 DEF IInv, Types, objects, ghosts
<1>6. PacketInv'
  BY FramePackets DEF IInv, PacketFrame, objects, ghosts
<1>7. GroupInv' /\ (CarefulGroups => CarefulGroups')
      /\ \A g \in Groups : Members(g)' = Members(g)
  BY FrameGroups DEF IInv, GroupFrame, objects
<1>8. WaitInv'
  <2>1. ASSUME NEW x \in Objects PROVE Lists(wait'[x], Blocked(x)')
    <3>1. Lists(wait[x], Blocked(x)) /\ t \notin Blocked(x)
      BY DEF IInv, WaitInv, Blocked
    <3>2. CASE x = o
      <4>1. Blocked(x)' = Blocked(x) \cup {t}
        BY <1>2, <3>2 DEF Blocked
      <4>2. wait'[x] = Append(wait[x], t)
        BY <1>1, <3>2
      <4>3. QED
        BY <3>1, <4>1, <4>2, ListsAppend
    <3>3. CASE x # o
      <4>1. Blocked(x)' = Blocked(x)
        BY <1>2, <3>3 DEF Blocked
      <4>2. wait'[x] = wait[x]
        BY <1>1, <3>3
      <4>3. QED
        BY <3>1, <4>1, <4>2
    <3>4. QED
      BY <3>2, <3>3
  <2>2. ASSUME NEW u \in Threads
        PROVE  /\ thread'[u].at \in {"idle", "create"}
                    => thread'[u].port = None /\ thread'[u].group = None
               /\ thread'[u].at = "add" => thread'[u].port \in RPorts /\ thread'[u].group \in Groups
               /\ thread'[u].at \in {"blocked", "woken"} => thread'[u].port \in Objects
    BY <1>2 DEF IInv, WaitInv
  <2>3. QED
    BY <2>1, <2>2 DEF WaitInv
<1>9. ASSUME careful PROVE CarefulReaders'
  <2>1. Open(o)' /\ (o \in RPorts => rport'[o].gport = None)
    BY <1>9 DEF objects, Open
  <2>2. ASSUME NEW u \in Threads, NEW v \in Threads, thread'[u].at \in Readers,
               thread'[v].at \in Readers, thread'[u].port = thread'[v].port
        PROVE  u = v
    BY <1>2, <1>9, <2>2 DEF CInv, CarefulReaders, Readers
  <2>3. ASSUME NEW u \in Threads, thread'[u].at \in Readers
        PROVE  /\ (Open(thread[u].port))'
               /\ thread'[u].port \in RPorts => rport'[thread'[u].port].gport = None
    <3>1. CASE u = t
      BY <1>2, <2>1, <3>1 DEF Open
    <3>2. CASE u # t
      <4>1. thread'[u] = thread[u]
        BY <1>2, <3>2
      <4>2. Open(thread[u].port) /\ (thread[u].port \in RPorts => rport[thread[u].port].gport = None)
        BY <1>9, <2>3, <4>1 DEF CInv, CarefulReaders, Readers
      <4>3. QED
        BY <4>1, <4>2 DEF objects, Open
    <3>3. QED
      BY <3>1, <3>2
  <2>4. QED
    BY <2>2, <2>3 DEF CarefulReaders, Readers
<1>10. ASSUME careful PROVE CarefulAdd'
  <2>1. \A u \in Threads : thread'[u].at = "add" => thread'[u] = thread[u] /\ u # t
    BY <1>2
  <2>2. \A u \in Threads : thread'[u].at = "add" => thread[u].port # o
    <3>1. \A u \in Threads : thread[u].at = "add" => thread[u].port \in RPorts
      BY DEF IInv, WaitInv
    <3>2. QED
      BY <1>10, <2>1, <3>1
  <2>3. CarefulAdd /\ UNCHANGED <<rport, group>>
    BY <1>10 DEF CInv, objects
  <2>4. QED
    BY <1>2, <2>1, <2>2, <2>3 DEF CarefulAdd
<1>11. ASSUME careful PROVE Asleep'
  <2>1. o \in RPorts => rport[o].buf = <<>>
    BY DEF Sources, HasPacket
  <2>2. o \in Groups => \A r \in Members(o) : rport[r].buf = <<>>
    <3>1. SUFFICES ASSUME o \in Groups, NEW r \in Members(o) PROVE rport[r].buf = <<>>
      OBVIOUS
    <3>2. Sources(o) = group[o].rp_list /\ Lists(group[o].rp_list, Members(o))
      BY <1>11, <3>1, PortAssumption DEF Sources, CInv, CarefulGroups
    <3>3. \E i \in DOMAIN Sources(o) : Sources(o)[i] = r
      BY <3>2 DEF Lists
    <3>4. QED
      BY <3>3 DEF HasPacket
  <2>3. ASSUME NEW u \in Threads, thread'[u].at = "blocked"
        PROVE  /\ thread'[u].port \in RPorts => rport'[thread'[u].port].buf = <<>>
               /\ thread'[u].port \in Groups
                    => \A r \in Members(thread[u].port)' : rport'[r].buf = <<>>
    <3>1. rport' = rport
      BY DEF objects
    <3>2. CASE u = t
      BY <1>2, <1>7, <2>1, <2>2, <3>1, <3>2 DEF Members
    <3>3. CASE u # t
      <4>1. thread'[u] = thread[u]
        BY <1>2, <3>3
      <4>2. PICK p : p = thread[u].port
        OBVIOUS
      <4>3. /\ p \in RPorts => rport[p].buf = <<>>
            /\ p \in Groups => \A r \in Members(p) : rport[r].buf = <<>>
        BY <1>11, <2>3, <4>1, <4>2 DEF CInv, Asleep
      <4>4. p \in Groups => \A r \in Members(p)' : rport'[r].buf = <<>>
        BY <1>7, <3>1, <4>3
      <4>5. QED
        BY <3>1, <4>1, <4>2, <4>3, <4>4 DEF Members
    <3>4. QED
      BY <3>2, <3>3
  <2>4. QED
    BY <2>3 DEF Asleep, Members
<1>12. QED
  BY <1>5, <1>6, <1>7, <1>8, <1>9, <1>10, <1>11 DEF IInv, CInv

\* The body of port_read.
LEMMA ReadOrBlockStep ==
    ASSUME IInv, CInv, fault = "none", NEW t \in Threads, thread[t].at # "blocked",
           NEW o \in Objects, Live(o), careful => Open(o), NEW timeout,
           careful => /\ \A u \in Threads \ {t} : thread[u].at \in Readers => thread[u].port # o
                      /\ o \in RPorts => /\ rport[o].gport = None
                                         /\ \A u \in Threads : thread[u].at = "add"
                                                                    => thread[u].port # o,
           ReadOrBlock(t, o, timeout)
    PROVE  IInv' /\ CInv'
<1>1. CASE \E i \in DOMAIN Sources(o) : HasPacket(Sources(o)[i]) /\ Take(Sources(o)[i])
                                         /\ thread' = [thread EXCEPT ![t] = Idle]
                                         /\ rport[Sources(o)[i]].buf # None
  BY <1>1, SourcesOpen, TakeStep
<1>0. CASE \E i \in DOMAIN Sources(o) : rport[Sources(o)[i]].buf = None /\ Fault("port_read")
  <2>1. PICK i \in DOMAIN Sources(o) : rport[Sources(o)[i]].buf = None /\ Fault("port_read")
    BY <1>0
  <2>2. PICK q : q = Sources(o)[i]
    OBVIOUS
  <2>3. q \in RPorts /\ (careful => rport[q].magic = "R")
    BY <2>2, SourcesOpen
  <2>4. careful => rport[q].buf \in Buffers
    BY <2>3 DEF IInv, PacketInv, ReadOK, After
  <2>5. ~careful
    BY <2>1, <2>2, <2>4, BufferIsNotNone
  <2>6. QED
    BY <2>1, <2>5, FaultStep
<1>2. CASE /\ \A i \in DOMAIN Sources(o) : ~HasPacket(Sources(o)[i])
           /\ wait' = [wait EXCEPT ![o] = Append(@, t)]
           /\ thread' = [thread EXCEPT ![t] = [Idle EXCEPT !.at = "blocked", !.port = o]]
           /\ UNCHANGED <<objects, ghosts, careful, fault>>
  BY <1>2, BlockStep
<1>3. CASE /\ thread' = [thread EXCEPT ![t] = Idle]
           /\ UNCHANGED <<objects, wait, ghosts, careful, fault>>
  BY <1>3, BackToIdle, ThreadsOnly DEF IInv
<1>4. QED
  BY <1>0, <1>1, <1>2, <1>3 DEF ReadOrBlock

\* port_read.
LEMMA ReadStep ==
    ASSUME IInv, CInv, fault = "none", NEW t \in Threads, NEW o \in Objects, NEW timeout,
           port_read(t, o, timeout)
    PROVE  IInv' /\ CInv'
<1>1. /\ thread[t] = Idle /\ Live(o) /\ (careful => Reading(o) = {} /\ Open(o))
      /\ o \in RPorts /\ careful => rport[o].gport = None /\ \A u \in Threads : thread[u].port # o
      /\ ReadOrBlock(t, o, timeout)
  BY DEF port_read, Careful, Live, Closing, Open, IsReadPort, IsGroup
<1>2. thread[t].at # "blocked"
  BY <1>1 DEF Idle
<1>3. careful => \A u \in Threads : thread[u].at \in Readers => thread[u].port # o
  BY <1>1 DEF Reading, Readers
<1>4. QED
  BY <1>1, <1>2, <1>3, ReadOrBlockStep

\* port_read after its wait.
LEMMA ReadAgainStep ==
    ASSUME IInv, CInv, fault = "none", NEW t \in Threads, port_read_again(t)
    PROVE  IInv' /\ CInv'
<1>1. PICK o : o = thread[t].port
  OBVIOUS
<1>2. /\ thread[t].at = "woken"
      /\ IF Live(o) THEN ReadOrBlock(t, o, "nonzero") ELSE Fault("port_read")
  BY <1>1 DEF port_read_again
<1>3. o \in Objects
  BY <1>1, <1>2 DEF IInv, WaitInv
<1>a. careful => Open(o)
  BY <1>1, <1>2 DEF CInv, CarefulReaders
<1>4. CASE ~Live(o)
  <2>1. ~careful
    BY <1>a, <1>4 DEF Open, Live, IsReadPort, IsGroup
  <2>2. QED
    BY <1>2, <1>4, <2>1, FaultStep
<1>5. CASE Live(o)
  <2>1. ASSUME careful
        PROVE  /\ \A u \in Threads \ {t} : thread[u].at \in Readers => thread[u].port # o
               /\ o \in RPorts => /\ rport[o].gport = None
                                  /\ \A u \in Threads : thread[u].at = "add" => thread[u].port # o
    BY <1>1, <1>2, <2>1 DEF CInv, CarefulReaders, CarefulAdd, Readers
  <2>2. QED
    BY <1>2, <1>3, <1>a, <1>5, <2>1, ReadOrBlockStep
<1>6. QED
  BY <1>4, <1>5

\* port_close of a read port.
LEMMA CloseReadStep ==
    ASSUME IInv, CInv, fault = "none", NEW r \in RPorts, port_close_read(r)
    PROVE  IInv' /\ CInv'
<1>1. PICK w : w = rport[r].wport
  OBVIOUS
<1>2. PICK g : g = rport[r].gport
  OBVIOUS
<1>3. PICK others : others = list_delete(wport[w].rp_list, r)
  OBVIOUS
<1>3a. PICK new : new = IF wait[r] = <<>> THEN NoRPort
                        ELSE [rport[r] EXCEPT !.magic = "closing",
                                 !.buf = IF w # None /\ others = <<>> THEN None ELSE rport[r].buf]
  OBVIOUS
<1>4. /\ IsReadPort(r)
      /\ careful => /\ rport[r].magic = "R" /\ Woken(r) = {}
                    /\ \A t \in Threads : thread[t].at = "add" => thread[t].port # r
  BY DEF port_close_read, Careful
<1>5. rport[r] \in RPortType /\ w \in WPorts \cup {None} /\ g \in Groups \cup {None}
  BY <1>1, <1>2 DEF IInv, Types
<1> DEFINE Bad == \/ rport[r].magic = "closing"
                  \/ g # None /\ (group[g].magic = "0" \/ r \notin ToSet(group[g].rp_list))
<1>6. CASE Bad
  <2>2. ~careful
    <3>1. SUFFICES ASSUME careful PROVE FALSE
      OBVIOUS
    <3>0. g \in Groups /\ r \in Members(g)
      BY <1>2, <1>4, <1>5, <1>6, <3>1 DEF Members
    <3>2. Lists(group[g].rp_list, Members(g)) /\ group[g].magic # "0"
      BY <3>0, <3>1 DEF CInv, CarefulGroups, IsGroup
    <3>3. ToSet(group[g].rp_list) = Members(g)
      BY <3>2, ListsToSet
    <3>4. QED
      BY <1>4, <1>6, <3>0, <3>1, <3>2, <3>3
  <2>3. Fault("port_close")
    BY <1>2, <1>6 DEF port_close_read
  <2>4. QED
    BY <2>2, <2>3, FaultStep
<1>7. CASE ~Bad
  <2>0. rport[r].magic = "R"
    BY <1>4, <1>7 DEF IsReadPort
  <2>1. /\ rport' = [rport EXCEPT ![r] = new]
        /\ wport' = IF w = None THEN wport
                    ELSE [wport EXCEPT ![w].rp_list = others,
                                       ![w].buf = IF others = <<>> THEN rport[r].buf ELSE None]
        /\ group' = IF g = None THEN group
                    ELSE [group EXCEPT ![g].rp_list = list_delete(@, r)]
        /\ WakeAll({r}, "ERR_OBJECT_DESTROYED")
        /\ last' = [last EXCEPT ![r] = IF wait[r] = <<>> THEN 0 ELSE @]
        /\ UNCHANGED <<write_port_list, accepted, delivered, careful, fault>>
    BY <1>1, <1>2, <1>3, <1>3a, <1>7 DEF port_close_read
  <2>2. PacketInv'
    BY <2>1, ClosePackets DEF IInv
  <2>3. PICK W \in SUBSET Threads :
              /\ Quieter(W)
              /\ \A o \in Objects : Lists(wait'[o], Blocked(o) \ W)
              /\ \A o \in {r} : Blocked(o) \subseteq W
              /\ \A t \in W : thread'[t] = Idle
              /\ thread' \in [Threads -> ThreadType]
              /\ wait' \in [Objects -> Seq(Threads)]
    <3>1. {r} \in SUBSET Objects
      BY DEF Objects
    <3>2. "ERR_OBJECT_DESTROYED" # "NO_ERROR" /\ Types /\ WaitInv
      BY DEF IInv
    <3>3. QED
      BY ONLY <2>1, <3>1, <3>2, WakeAllThreads
  <2>4. rport \in [RPorts -> RPortType]
    BY DEF IInv, Types
  <2>5. /\ \A q \in RPorts \ {r} : rport'[q] = rport[q]
        /\ rport'[r] = new /\ new \in RPortType /\ new.magic # "R"
        /\ \/ new.magic = "0"
           \/ new.magic = "closing" /\ new.gport = g
    <3>1. rport'[r] = new /\ \A q \in RPorts \ {r} : rport'[q] = rport[q]
      BY <2>1, <2>4
    <3>2. CASE wait[r] = <<>>
      BY <1>3a, <3>1, <3>2 DEF NoRPort
    <3>3. CASE wait[r] # <<>>
      <4>1. PICK kept : kept = IF w # None /\ others = <<>> THEN None ELSE rport[r].buf
        OBVIOUS
      <4>2. new = [rport[r] EXCEPT !.magic = "closing", !.buf = kept]
        BY <1>3a, <3>3, <4>1
      <4>3. kept \in Buffers \cup {None}
        BY <1>5, <4>1
      <4>4. new \in RPortType /\ new.magic = "closing" /\ new.gport = g
        BY ONLY <1>2, <1>5, <4>2, <4>3
      <4>5. QED
        BY <3>1, <4>4
    <3>4. QED
      BY <3>2, <3>3
  <2>6. /\ \A h \in Groups : Members(h)' = Members(h) \ {r}
        /\ \/ \A h \in Groups : Linked(h)' = Linked(h) \ {r}
           \/ \A h \in Groups : Linked(h)' = Linked(h) \ {}
    <3>1. \A h \in Groups : Members(h)' = Members(h) \ {r}
      BY <2>5 DEF Members
    <3>2. CASE new.magic = "0"
      <4>1. \A h \in Groups : Linked(h)' = Linked(h) \ {r}
        BY <2>5, <3>2 DEF Linked, IsReadPort
      <4>2. QED
        BY <3>1, <4>1
    <3>3. CASE new.magic = "closing" /\ new.gport = g
      <4>1. \A h \in Groups : Linked(h)' = Linked(h) \ {}
        BY <1>2, <1>4, <2>5, <3>3 DEF Linked, IsReadPort
      <4>2. QED
        BY <3>1, <4>1
    <3>4. QED
      BY <2>5, <3>2, <3>3
  <2>7. ASSUME g = None
        PROVE  /\ GroupInv' /\ (CarefulGroups => CarefulGroups')
               /\ group' \in [Groups -> GroupType] /\ \A h \in Groups : group'[h].magic = group[h].magic
    <3>1. group' = group
      BY <2>1, <2>7
    <3>2. \A h \in Groups : /\ r \notin Members(h) /\ r \notin Linked(h)
      BY <1>2, <2>7, PortAssumption DEF Members, Linked
    <3>2a. \A h \in Groups : Members(h)' = Members(h) /\ Linked(h)' = Linked(h)
      BY <2>6, <3>2
    <3>3. GroupInv' /\ (CarefulGroups => CarefulGroups')
      BY <3>1, <3>2a DEF IInv, GroupInv, CarefulGroups, IsGroup
    <3>4. group' \in [Groups -> GroupType] /\ \A h \in Groups : group'[h].magic = group[h].magic
      BY <3>1 DEF IInv, Types
    <3>5. QED
      BY <3>3, <3>4
  <2>8. ASSUME g # None
        PROVE  /\ GroupInv' /\ (CarefulGroups => CarefulGroups')
               /\ group' \in [Groups -> GroupType] /\ \A h \in Groups : group'[h].magic = group[h].magic
    <3>1. /\ g \in Groups /\ group[g].magic # "0" /\ r \in ToSet(group[g].rp_list)
          /\ group' = [group EXCEPT ![g].rp_list = list_delete(@, r)]
      BY <1>5, <1>7, <2>1, <2>8
    <3>2. group \in [Groups -> GroupType]
      BY DEF IInv, Types
    <3>3. IsGroup(g)
      BY ONLY <3>1, <3>2 DEF IsGroup
    <3>4. GroupInv' /\ (CarefulGroups => CarefulGroups')
      <4>1. {r} \in SUBSET {r} /\ {} \in SUBSET {r}
        OBVIOUS
      <4>2. Types /\ GroupInv
        BY DEF IInv
      <4>3. PICK freed \in SUBSET {r} :
                \A h \in Groups : Members(h)' = Members(h) \ {r} /\ Linked(h)' = Linked(h) \ freed
        BY <2>6, <4>1
      <4>4. QED
        BY ONLY <3>1, <3>3, <4>1, <4>2, <4>3, r \in RPorts, DropFromGroup
    <3>5. PICK S \in SUBSET Linked(g) : Lists(group[g].rp_list, S)
      BY <3>1 DEF IInv, GroupInv
    <3>6. Lists(list_delete(group[g].rp_list, r), S \ {r})
      BY <3>1, <3>5, ListsToSet, ListDelete
    <3>7. PICK list : list = list_delete(group[g].rp_list, r)
      OBVIOUS
    <3>8. list \in Seq(RPorts)
      BY <3>6, <3>7, ListType DEF Linked
    <3>9. group' = [group EXCEPT ![g].rp_list = list]
      BY <3>1, <3>7
    <3>10. group' \in [Groups -> GroupType] /\ \A h \in Groups : group'[h].magic = group[h].magic
      BY ONLY <3>1, <3>2, <3>8, <3>9
    <3>11. QED
      BY <3>4, <3>10
  <2>9. /\ GroupInv' /\ (CarefulGroups => CarefulGroups')
        /\ group' \in [Groups -> GroupType] /\ \A h \in Groups : group'[h].magic = group[h].magic
    BY <2>7, <2>8
  <2>10. wport' \in [WPorts -> WPortType]
    <3>1. wport \in [WPorts -> WPortType]
      BY DEF IInv, Types
    <3>2. CASE w = None
      BY <2>1, <3>1, <3>2
    <3>3. CASE w # None
      <4>1. w \in WPorts
        BY <1>5, <3>3
      <4>2. r \in OpenOn(w) /\ Lists(wport[w].rp_list, OpenOn(w))
        BY <1>1, <2>0, <4>1 DEF OpenOn, IInv, PacketInv, WriteOK
      <4>3. others \in Seq(RPorts)
        <5>1. Lists(others, OpenOn(w) \ {r})
          BY ONLY <1>3, <4>2, ListDelete
        <5>2. OpenOn(w) \ {r} \subseteq RPorts
          BY DEF OpenOn
        <5>3. QED
          BY ONLY <5>1, <5>2, ListType
      <4>4. PICK buf : buf = IF others = <<>> THEN rport[r].buf ELSE None
        OBVIOUS
      <4>5. buf \in Buffers \cup {None}
        BY <1>5, <4>4
      <4>6. wport' = [wport EXCEPT ![w].rp_list = others, ![w].buf = buf]
        BY <2>1, <3>3, <4>4
      <4>7. wport'[w] = [wport[w] EXCEPT !.rp_list = others, !.buf = buf]
        BY ONLY <3>1, <4>1, <4>6
      <4>8. wport[w] \in WPortType
        BY ONLY <3>1, <4>1
      <4>9. wport'[w] \in WPortType
        BY ONLY <4>3, <4>5, <4>7, <4>8
      <4> HIDE DEF WPortType
      <4>10. QED
        BY ONLY <3>1, <4>1, <4>6, <4>9
    <3>4. QED
      BY <3>2, <3>3
  <2>11. Types'
    <3>1. new \in RPortType /\ last \in [RPorts -> Nat]
      BY <2>5 DEF IInv, Types
    <3> HIDE DEF WPortType, RPortType, GroupType, ThreadType
    <3>2. rport' \in [RPorts -> RPortType] /\ last' \in [RPorts -> Nat]
      BY <2>1, <2>4, <3>1
    <3>3. QED
      BY <2>1, <2>3, <2>9, <2>10, <3>2 DEF IInv, Types
  <2>12. WaitInv' /\ \A o : Blocked(o)' = Blocked(o) \ W
    BY <2>3, QuietWait DEF IInv
  <2>13. ASSUME careful PROVE CarefulReaders' /\ CarefulAdd'
    <3>1. ASSUME NEW t \in Threads, thread'[t].at \in Readers
          PROVE  /\ Open(thread[t].port)'
                 /\ thread[t].port \in RPorts => rport'[thread[t].port].gport = None
      <4>1. PICK p : p = thread[t].port
        OBVIOUS
      <4>2. thread[t].at \in Readers /\ thread'[t].port = thread[t].port
        BY <2>3, <3>1, QuietThreads DEF IInv
      <4>3. p # r
        <5>1. SUFFICES ASSUME p = r PROVE FALSE
          OBVIOUS
        <5>2. thread[t].at # "woken"
          BY <1>4, <2>13, <4>1, <5>1 DEF Woken, Reading
        <5>3. t \in Blocked(r)
          BY <4>1, <4>2, <5>1, <5>2 DEF Blocked, Readers
        <5>4. thread'[t] = Idle
          BY <2>3, <5>3
        <5>5. QED
          BY <3>1, <5>4 DEF Idle, Readers
      <4>4. p \in Objects /\ Open(p) /\ (p \in RPorts => rport[p].gport = None)
        BY <2>13, <4>1, <4>2 DEF IInv, WaitInv, CInv, CarefulReaders, Readers
      <4>5. Open(p)' /\ (p \in RPorts => rport'[p].gport = None)
        BY <2>5, <2>9, <4>3, <4>4 DEF Open, Objects
      <4>6. QED
        BY <4>1, <4>2, <4>5 DEF Open
    <3>2. ASSUME NEW t \in Threads, thread'[t].at = "add"
          PROVE  /\ rport'[thread[t].port].magic = "R" /\ rport'[thread[t].port].gport = None
                 /\ group'[thread[t].group].magic = "G"
      <4>1. /\ thread[t].at = "add" /\ thread[t].port \in RPorts /\ thread[t].group \in Groups
            /\ thread[t].port # r
        BY <1>4, <2>3, <2>13, <3>2, QuietThreads DEF IInv, WaitInv
      <4>2. /\ rport[thread[t].port].magic = "R" /\ rport[thread[t].port].gport = None
            /\ group[thread[t].group].magic = "G"
        BY <2>13, <4>1 DEF CInv, CarefulAdd
      <4>3. QED
        BY <2>5, <2>9, <4>1, <4>2
    <3>3. QED
      BY <2>3, <2>13, <3>1, <3>2, QuietCareful DEF IInv, CInv
  <2>14. ASSUME careful PROVE Asleep'
    <3>1. Blocked(r) \ W = {}
      BY <2>3
    <3>2. \A p \in RPorts : Blocked(p) \ W # {} /\ rport[p].buf = <<>> => rport'[p].buf = <<>>
      BY <2>5, <3>1
    <3>3. \A h \in Groups : (\A q \in Members(h) : rport[q].buf = <<>>)
                              => \A q \in Members(h)' : rport'[q].buf = <<>>
      BY <2>5, <2>6 DEF Members
    <3>4. QED
      BY <2>3, <2>14, <3>2, <3>3, QuietAsleep DEF IInv, CInv
  <2>15. QED
    BY <2>1, <2>2, <2>9, <2>11, <2>12, <2>13, <2>14 DEF IInv, CInv
<1>8. QED
  BY <1>6, <1>7

\* The objects when a group is closed or begins to be.
LEMMA CloseGroupObjects ==
    ASSUME IInv, NEW g \in Groups,
           \/ group' = [group EXCEPT ![g] = NoGroup] /\ rport' = Detached(g)
           \/ /\ group[g].magic = "G" /\ group' = [group EXCEPT ![g].magic = "closing"]
              /\ rport' = rport
    PROVE  /\ GroupInv' /\ (CarefulGroups => CarefulGroups')
           /\ \A h \in Groups \ {g} : group'[h] = group[h] /\ Members(h)' = Members(h)
           /\ \A r \in RPorts : /\ rport'[r].magic = rport[r].magic /\ rport'[r].buf = rport[r].buf
                                /\ rport'[r].wport = rport[r].wport
                                /\ rport'[r].gport \in {rport[r].gport, None}
           /\ group' \in [Groups -> GroupType] /\ rport' \in [RPorts -> RPortType]
<1>1. group \in [Groups -> GroupType] /\ rport \in [RPorts -> RPortType] /\ Types /\ GroupInv
  BY DEF IInv, Types
<1>2. CASE group' = [group EXCEPT ![g] = NoGroup] /\ rport' = Detached(g)
  <2>1. NoGroup \in GroupType
    <3>1. <<>> \in Seq(RPorts)
      OBVIOUS
    <3>2. QED
      BY <3>1 DEF NoGroup
  <2>2. ASSUME NEW r \in RPorts PROVE rport'[r] \in RPortType
    <3>1. rport[r] \in RPortType
      BY <1>1
    <3>2. rport'[r] \in {[rport[r] EXCEPT !.gport = None], rport[r]}
      BY <1>2 DEF Detached
    <3>3. QED
      BY ONLY <3>1, <3>2
  <2>3. rport' = [r \in RPorts |-> rport'[r]]
    BY <1>2 DEF Detached
  <2> HIDE DEF RPortType, GroupType
  <2>4. group' \in [Groups -> GroupType] /\ rport' \in [RPorts -> RPortType]
    BY <1>1, <1>2, <2>1, <2>2, <2>3
  <2>5. QED
    BY <1>1, <1>2, <2>4, CloseGroup
<1>3. CASE /\ group[g].magic = "G" /\ group' = [group EXCEPT ![g].magic = "closing"]
           /\ rport' = rport
  <2>1. group' \in [Groups -> GroupType] /\ rport' \in [RPorts -> RPortType]
    BY ONLY <1>1, <1>3, g \in Groups
  <2>2. /\ GroupInv' /\ (CarefulGroups => CarefulGroups')
        /\ \A h \in Groups \ {g} : group'[h] = group[h]
        /\ \A h \in Groups : Members(h)' = Members(h)
    BY <1>1, <1>3, MarkGroup
  <2>3. QED
    BY <1>3, <2>1, <2>2
<1>4. QED
  BY <1>2, <1>3

\* port_close of a group.
LEMMA CloseGroupStep ==
    ASSUME IInv, CInv, fault = "none", NEW g \in Groups, port_close_group(g)
    PROVE  IInv' /\ CInv'
<1>0. CASE group[g].magic = "closing"
  <2>1. ~careful /\ Fault("port_close")
    BY <1>0 DEF port_close_group, Careful
  <2>2. QED
    BY <2>1, FaultStep
<1> SUFFICES ASSUME group[g].magic # "closing" PROVE IInv' /\ CInv'
  BY <1>0
<1>1. /\ group[g].magic = "G"
      /\ careful => Woken(g) = {} /\ \A t \in Threads : thread[t].group # g
      /\ \/ group' = [group EXCEPT ![g] = NoGroup] /\ rport' = Detached(g)
         \/ group' = [group EXCEPT ![g].magic = "closing"] /\ rport' = rport
      /\ WakeAll({g}, "ERR_OBJECT_DESTROYED")
      /\ UNCHANGED <<write_port_list, wport, ghosts, careful, fault>>
  BY DEF port_close_group, Careful, IsGroup
<1>2. /\ GroupInv' /\ (CarefulGroups => CarefulGroups')
      /\ \A h \in Groups \ {g} : group'[h] = group[h] /\ Members(h)' = Members(h)
      /\ \A r \in RPorts : /\ rport'[r].magic = rport[r].magic /\ rport'[r].buf = rport[r].buf
                           /\ rport'[r].wport = rport[r].wport
                           /\ rport'[r].gport \in {rport[r].gport, None}
      /\ group' \in [Groups -> GroupType] /\ rport' \in [RPorts -> RPortType]
  BY <1>1, CloseGroupObjects
<1>3. PICK W \in SUBSET Threads :
            /\ Quieter(W)
            /\ \A o \in Objects : Lists(wait'[o], Blocked(o) \ W)
            /\ \A o \in {g} : Blocked(o) \subseteq W
            /\ \A t \in W : thread'[t] = Idle
            /\ thread' \in [Threads -> ThreadType]
            /\ wait' \in [Objects -> Seq(Threads)]
  <2>1. {g} \in SUBSET Objects
    BY DEF Objects
  <2>2. "ERR_OBJECT_DESTROYED" # "NO_ERROR" /\ Types /\ WaitInv
    BY DEF IInv
  <2>3. QED
    BY ONLY <1>1, <2>1, <2>2, WakeAllThreads
<1>4. Types'
  <2> HIDE DEF WPortType, RPortType, GroupType, ThreadType
  <2>1. QED
    BY <1>1, <1>2, <1>3 DEF IInv, Types, ghosts
<1>5. PacketInv'
  BY <1>1, <1>2, FramePackets DEF IInv, PacketFrame, ghosts
<1>6. WaitInv'
  BY <1>3, QuietWait DEF IInv
<1>7. ASSUME careful PROVE CarefulReaders' /\ CarefulAdd'
  <2>1. ASSUME NEW t \in Threads, thread'[t].at \in Readers
        PROVE  /\ Open(thread[t].port)'
               /\ thread[t].port \in RPorts => rport'[thread[t].port].gport = None
    <3>1. PICK p : p = thread[t].port
      OBVIOUS
    <3>2. thread[t].at \in Readers /\ thread'[t].port = thread[t].port
      BY <1>3, <2>1, QuietThreads DEF IInv
    <3>3. p # g
      <4>1. SUFFICES ASSUME p = g PROVE FALSE
        OBVIOUS
      <4>2. thread[t].at # "woken"
        BY <1>1, <1>7, <3>1, <4>1 DEF Woken, Reading
      <4>3. t \in Blocked(g)
        BY <3>1, <3>2, <4>1, <4>2 DEF Blocked, Readers
      <4>4. thread'[t] = Idle
        BY <1>3, <4>3
      <4>5. QED
        BY <2>1, <4>4 DEF Idle, Readers
    <3>4. p \in Objects /\ Open(p) /\ (p \in RPorts => rport[p].gport = None)
      BY <1>7, <3>1, <3>2 DEF IInv, WaitInv, CInv, CarefulReaders, Readers
    <3>5. Open(p)' /\ (p \in RPorts => rport'[p].gport = None)
      BY <1>2, <3>3, <3>4 DEF Open, Objects
    <3>6. QED
      BY <3>1, <3>2, <3>5 DEF Open
  <2>2. ASSUME NEW t \in Threads, thread'[t].at = "add"
        PROVE  /\ rport'[thread[t].port].magic = "R" /\ rport'[thread[t].port].gport = None
               /\ group'[thread[t].group].magic = "G"
    <3>1. /\ thread[t].at = "add" /\ thread[t].port \in RPorts /\ thread[t].group \in Groups
          /\ thread[t].group # g
      BY <1>1, <1>3, <1>7, <2>2, QuietThreads DEF IInv, WaitInv
    <3>2. /\ rport[thread[t].port].magic = "R" /\ rport[thread[t].port].gport = None
          /\ group[thread[t].group].magic = "G"
      BY <1>7, <3>1 DEF CInv, CarefulAdd
    <3>3. QED
      BY <1>2, <3>1, <3>2
  <2>3. QED
    BY <1>3, <1>7, <2>1, <2>2, QuietCareful DEF IInv, CInv
<1>8. ASSUME careful PROVE Asleep'
  <2>1. \A p \in RPorts : rport[p].buf = <<>> => rport'[p].buf = <<>>
    BY <1>2
  <2>2. ASSUME NEW h \in Groups, Blocked(h) \ W # {}, \A q \in Members(h) : rport[q].buf = <<>>
        PROVE  \A q \in Members(h)' : rport'[q].buf = <<>>
    <3>1. h # g
      BY <1>3, <2>2
    <3>2. Members(h)' = Members(h)
      BY <1>2, <3>1
    <3>3. QED
      BY <1>2, <2>2, <3>2 DEF Members
  <2>3. QED
    BY <1>3, <1>8, <2>1, <2>2, QuietAsleep DEF IInv, CInv
<1>9. QED
  BY <1>1, <1>2, <1>4, <1>5, <1>6, <1>7, <1>8 DEF IInv, CInv

\* The end of port_close of a group.
LEMMA CloseGroupEndStep ==
    ASSUME IInv, CInv, fault = "none", NEW g \in Groups, port_close_group_end(g)
    PROVE  IInv' /\ CInv'
<1>1. g \in Objects /\ g \notin RPorts /\ group[g].magic = "closing"
  BY PortAssumption DEF Objects, port_close_group_end
<1>2. careful => \A t \in Threads : /\ thread[t].at \in Readers => thread[t].port # g
                                    /\ thread[t].at = "add" => thread[t].group # g
  <2>1. ~Open(g)
    BY <1>1 DEF Open
  <2>2. QED
    BY <1>1, <2>1 DEF CInv, CarefulReaders, CarefulAdd, Readers
<1>3. CASE wait[g] # <<>>
  <2>1. ~careful
    <3>1. SUFFICES ASSUME careful PROVE FALSE
      OBVIOUS
    <3>2. Blocked(g) = {}
      BY <1>2, <3>1 DEF Blocked, Readers
    <3>3. wait[g] = <<>>
      BY <1>1, <3>2, ListsEmpty DEF IInv, WaitInv
    <3>4. QED
      BY <1>3, <3>3
  <2>2. Fault("port_close")
    BY <1>3 DEF port_close_group_end
  <2>3. QED
    BY <2>1, <2>2, FaultStep
<1>4. CASE wait[g] = <<>>
  <2>1. /\ group' = [group EXCEPT ![g] = NoGroup] /\ rport' = Detached(g)
        /\ UNCHANGED <<write_port_list, wport, wait, thread, accepted, delivered, last, careful, fault>>
    BY <1>4 DEF port_close_group_end, ghosts
  <2>2. /\ GroupInv' /\ (CarefulGroups => CarefulGroups')
        /\ \A h \in Groups \ {g} : group'[h] = group[h] /\ Members(h)' = Members(h)
        /\ \A r \in RPorts : /\ rport'[r].magic = rport[r].magic /\ rport'[r].buf = rport[r].buf
                             /\ rport'[r].wport = rport[r].wport
                             /\ rport'[r].gport \in {rport[r].gport, None}
        /\ group' \in [Groups -> GroupType] /\ rport' \in [RPorts -> RPortType]
    BY <2>1, CloseGroupObjects
  <2>3. Types'
    <3> HIDE DEF WPortType, RPortType, GroupType, ThreadType
    <3>1. QED
      BY <2>1, <2>2 DEF IInv, Types
  <2>4. PacketInv'
    BY <2>1, <2>2, FramePackets DEF IInv, PacketFrame
  <2>5. Quieter({}) /\ \A o \in Objects : Lists(wait'[o], Blocked(o) \ {})
    BY <2>1, NobodyWoken DEF IInv, Quieter
  <2>6. WaitInv'
    BY <2>5, QuietWait DEF IInv
  <2>7. ASSUME careful PROVE CarefulReaders' /\ CarefulAdd'
    <3>1. ASSUME NEW t \in Threads, thread[t].at \in Readers
          PROVE  /\ Open(thread[t].port)'
                 /\ thread[t].port \in RPorts => rport'[thread[t].port].gport = None
      <4>1. PICK p : p = thread[t].port
        OBVIOUS
      <4>2. p # g /\ p \in Objects /\ Open(p) /\ (p \in RPorts => rport[p].gport = None)
        BY <1>2, <2>7, <3>1, <4>1 DEF IInv, WaitInv, CInv, CarefulReaders, Readers
      <4>3. Open(p)' /\ (p \in RPorts => rport'[p].gport = None)
        BY <2>2, <4>2 DEF Open, Objects
      <4>4. thread'[t] = thread[t]
        BY <2>1
      <4>5. QED
        BY <4>1, <4>3, <4>4 DEF Open
    <3>2. ASSUME NEW t \in Threads, thread[t].at = "add"
          PROVE  /\ rport'[thread[t].port].magic = "R" /\ rport'[thread[t].port].gport = None
                 /\ group'[thread[t].group].magic = "G"
      <4>1. /\ thread[t].port \in RPorts /\ thread[t].group \in Groups /\ thread[t].group # g
        BY <1>2, <2>7, <3>2 DEF IInv, WaitInv
      <4>2. /\ rport[thread[t].port].magic = "R" /\ rport[thread[t].port].gport = None
            /\ group[thread[t].group].magic = "G"
        BY <2>7, <3>2 DEF CInv, CarefulAdd
      <4>3. QED
        BY <2>2, <4>1, <4>2
    <3>3. CarefulReaders /\ CarefulAdd /\ Types /\ WaitInv /\ thread' = thread
      BY <2>1, <2>7 DEF IInv, CInv
    <3>4. QED
      BY <2>5, <3>1, <3>2, <3>3, QuietCareful
  <2>8. ASSUME careful PROVE Asleep'
    <3>1. \A p \in RPorts : rport[p].buf = <<>> => rport'[p].buf = <<>>
      BY <2>2
    <3>2. ASSUME NEW h \in Groups, Blocked(h) \ {} # {}, \A q \in Members(h) : rport[q].buf = <<>>
          PROVE  \A q \in Members(h)' : rport'[q].buf = <<>>
      <4>1. h # g
        BY <1>2, <2>8, <3>2 DEF Blocked, Readers
      <4>2. Members(h)' = Members(h)
        BY <2>2, <4>1
      <4>3. QED
        BY <2>2, <3>2, <4>2 DEF Members
    <3>3. QED
      BY <2>5, <2>8, <3>1, <3>2, QuietAsleep DEF IInv, CInv
  <2>9. QED
    BY <2>1, <2>2, <2>3, <2>4, <2>6, <2>7, <2>8 DEF IInv, CInv
<1>5. QED
  BY <1>3, <1>4

\* The end of port_close of a read port.
LEMMA CloseReadEndStep ==
    ASSUME IInv, CInv, fault = "none", NEW r \in RPorts, port_close_read_end(r)
    PROVE  IInv' /\ CInv'
<1>1. r \in Objects /\ rport[r].magic = "closing"
  BY DEF Objects, port_close_read_end
<1>2. careful => \A t \in Threads : /\ thread[t].at \in Readers => thread[t].port # r
                                    /\ thread[t].at = "add" => thread[t].port # r
  <2>1. ~Open(r)
    BY <1>1 DEF Open
  <2>2. QED
    BY <1>1, <2>1 DEF CInv, CarefulReaders, CarefulAdd, Readers
<1>3. CASE wait[r] # <<>> \/ \E g \in Groups : r \in ToSet(group[g].rp_list)
  <2>1. ~careful
    <3>1. SUFFICES ASSUME careful PROVE FALSE
      OBVIOUS
    <3>2. Blocked(r) = {}
      BY <1>2, <3>1 DEF Blocked, Readers
    <3>3. wait[r] = <<>>
      BY <1>1, <3>2, ListsEmpty DEF IInv, WaitInv
    <3>4. ASSUME NEW g \in Groups PROVE r \notin ToSet(group[g].rp_list)
      <4>1. Lists(group[g].rp_list, Members(g)) /\ r \notin Members(g)
        BY <1>1, <3>1 DEF CInv, CarefulGroups, Members
      <4>2. QED
        BY <4>1, ListsToSet
    <3>5. QED
      BY <1>3, <3>3, <3>4
  <2>2. Fault("port_close")
    BY <1>3 DEF port_close_read_end
  <2>3. QED
    BY <2>1, <2>2, FaultStep
<1>4. CASE ~(wait[r] # <<>> \/ \E g \in Groups : r \in ToSet(group[g].rp_list))
  <2>1. /\ rport' = [rport EXCEPT ![r] = NoRPort] /\ last' = [last EXCEPT ![r] = 0]
        /\ UNCHANGED <<write_port_list, wport, group, wait, thread, accepted, delivered, careful, fault>>
    BY <1>4 DEF port_close_read_end
  <2>2. rport \in [RPorts -> RPortType]
    BY DEF IInv, Types
  <2>3. (\A q \in RPorts \ {r} : rport'[q] = rport[q]) /\ rport'[r] = NoRPort
    BY <2>1, <2>2
  <2>4. Types'
    <3>1. NoRPort \in RPortType
      BY DEF NoRPort
    <3> HIDE DEF WPortType, RPortType, GroupType, ThreadType
    <3>2. rport' \in [RPorts -> RPortType] /\ last' \in [RPorts -> Nat]
      BY <2>1, <2>2, <3>1 DEF IInv, Types
    <3>3. QED
      BY <2>1, <3>2 DEF IInv, Types
  <2>5. PacketInv'
    BY <1>1, <2>1, CloseReadEndPackets DEF IInv
  <2>6. GroupInv' /\ (CarefulGroups => CarefulGroups')
    <3>1. rport'[r].magic # "R"
      BY <2>3 DEF NoRPort
    <3>2. QED
      BY <1>4, <2>1, <2>3, <3>1, LooseFromGroups DEF IInv
  <2>7. Quieter({}) /\ \A o \in Objects : Lists(wait'[o], Blocked(o) \ {})
    BY <2>1, NobodyWoken DEF IInv, Quieter
  <2>8. WaitInv'
    BY <2>7, QuietWait DEF IInv
  <2>9. ObjectsKept
    BY <1>1, <2>1, <2>3 DEF ObjectsKept
  <2>10. ASSUME careful PROVE CarefulReaders' /\ CarefulAdd'
    BY <2>7, <2>9, <2>10, KeptCareful DEF IInv, CInv
  <2>11. ASSUME careful PROVE Asleep'
    <3>1. ASSUME NEW p \in RPorts, Blocked(p) \ {} # {}, rport[p].buf = <<>>
          PROVE  rport'[p].buf = <<>>
      <4>1. p # r
        BY <1>2, <2>11, <3>1 DEF Blocked, Readers
      <4>2. QED
        BY <2>3, <3>1, <4>1
    <3>2. \A h \in Groups : Members(h)' = Members(h) /\ r \notin Members(h)
      BY <1>1, <2>3 DEF Members, NoRPort
    <3>3. \A h \in Groups : (\A q \in Members(h) : rport[q].buf = <<>>)
                              => \A q \in Members(h)' : rport'[q].buf = <<>>
      BY <2>3, <3>2 DEF Members
    <3>4. QED
      BY <2>7, <2>11, <3>1, <3>3, QuietAsleep DEF IInv, CInv
  <2>12. QED
    BY <2>1, <2>4, <2>5, <2>6, <2>8, <2>10, <2>11 DEF IInv, CInv
<1>5. QED
  BY <1>3, <1>4

\* port_group.
LEMMA GroupStep ==
    ASSUME IInv, CInv, fault = "none", NEW g \in Groups, NEW ports \in Seq(RPorts),
           IsInjective(ports), port_group(g, ports)
    PROVE  IInv' /\ CInv'
<1>1. /\ group[g].magic = "0"
      /\ \A i \in DOMAIN ports : /\ rport[ports[i]].gport = None
                                 /\ careful => Reading(ports[i]) = {}
      /\ careful => \A u \in Threads : thread[u].at # "add"
      /\ group' = [group EXCEPT ![g] = [magic |-> "G", rp_list |-> ports]]
      /\ rport' = [r \in RPorts |-> IF r \in ToSet(ports) THEN [rport[r] EXCEPT !.gport = g]
                                                          ELSE rport[r]]
      /\ UNCHANGED <<write_port_list, wport, wait, thread, ghosts, careful, fault>>
  BY DEF port_group, Careful
<1>2. \A r \in ToSet(ports) : /\ r \in RPorts /\ rport[r].gport = None
                              /\ careful => Reading(r) = {}
  BY <1>1 DEF ToSet
<1>3. GroupInv' /\ (careful /\ CarefulGroups => CarefulGroups')
  BY NewGroup DEF IInv
<1>4. ASSUME NEW r \in RPorts
      PROVE  /\ rport'[r] \in RPortType
             /\ rport'[r].magic = rport[r].magic /\ rport'[r].buf = rport[r].buf
             /\ rport'[r].wport = rport[r].wport
             /\ rport'[r].gport = IF r \in ToSet(ports) THEN g ELSE rport[r].gport
  <2>1. rport[r] \in RPortType
    BY DEF IInv, Types
  <2>2. rport'[r] = IF r \in ToSet(ports) THEN [rport[r] EXCEPT !.gport = g] ELSE rport[r]
    BY <1>1
  <2>3. QED
    BY ONLY <2>1, <2>2, g \in Groups
<1>5. group' \in [Groups -> GroupType] /\ group'[g].magic = "G"
      /\ \A h \in Groups \ {g} : group'[h] = group[h]
  <2>1. group \in [Groups -> GroupType]
    BY DEF IInv, Types
  <2>2. QED
    BY ONLY <1>1, <2>1, ports \in Seq(RPorts), g \in Groups
<1>6. Types'
  <2> HIDE DEF WPortType, RPortType, GroupType, ThreadType
  <2>1. rport' \in [RPorts -> RPortType]
    BY <1>1, <1>4
  <2>2. QED
    BY <1>1, <1>5, <2>1 DEF IInv, Types, ghosts
<1>7. PacketInv'
  BY <1>1, <1>4, FramePackets DEF IInv, PacketFrame, ghosts
<1>8. Quieter({}) /\ \A o \in Objects : Lists(wait'[o], Blocked(o) \ {})
  BY <1>1, NobodyWoken DEF IInv, Quieter
<1>9. WaitInv'
  BY <1>8, QuietWait DEF IInv
<1>10. \A h \in Groups \ {g} : Members(h)' = Members(h)
  <2>1. None \notin Groups
    BY PortAssumption
  <2>2. QED
    BY <1>2, <1>4, <2>1 DEF Members
<1>11. ASSUME careful PROVE CarefulReaders' /\ CarefulAdd'
  <2>1. ASSUME NEW t \in Threads, thread'[t].at \in Readers
        PROVE  /\ Open(thread[t].port)'
               /\ thread[t].port \in RPorts => rport'[thread[t].port].gport = None
    <3>1. PICK p : p = thread[t].port
      OBVIOUS
    <3>2. thread[t].at \in Readers /\ thread'[t].port = thread[t].port
      BY <1>1, <2>1
    <3>3. p \in Objects /\ Open(p) /\ (p \in RPorts => rport[p].gport = None)
      BY <1>11, <3>1, <3>2 DEF IInv, WaitInv, CInv, CarefulReaders, Readers
    <3>4. p \notin ToSet(ports)
      BY <1>2, <1>11, <3>1, <3>2 DEF Reading, Readers
    <3>5. Open(p)' /\ (p \in RPorts => rport'[p].gport = None)
      BY <1>4, <1>5, <3>3, <3>4 DEF Open, Objects
    <3>6. QED
      BY <3>1, <3>2, <3>5 DEF Open
  <2>2. \A t \in Threads : thread'[t].at # "add"
    BY <1>1, <1>11
  <2>3. QED
    BY <1>8, <1>11, <2>1, <2>2, QuietCareful DEF IInv, CInv
<1>12. ASSUME careful PROVE Asleep'
  <2>1. \A p \in RPorts : rport[p].buf = <<>> => rport'[p].buf = <<>>
    BY <1>4
  <2>2. Blocked(g) = {}
    <3>1. g \notin RPorts
      BY PortAssumption
    <3>2. QED
      BY <1>1, <1>12, <3>1 DEF Blocked, CInv, CarefulReaders, Open
  <2>3. ASSUME NEW h \in Groups, Blocked(h) \ {} # {}, \A q \in Members(h) : rport[q].buf = <<>>
        PROVE  \A q \in Members(h)' : rport'[q].buf = <<>>
    <3>1. Members(h)' = Members(h)
      BY <1>10, <2>2, <2>3
    <3>2. QED
      BY <1>4, <2>3, <3>1 DEF Members
  <2>4. QED
    BY <1>8, <1>12, <2>1, <2>3, QuietAsleep DEF IInv, CInv
<1>13. QED
  BY <1>1, <1>3, <1>6, <1>7, <1>9, <1>11, <1>12 DEF IInv, CInv

\* port_group_add, its check.
LEMMA AddCheckStep ==
    ASSUME IInv, CInv, fault = "none", NEW t \in Threads, NEW g \in Groups, NEW r \in RPorts,
           port_group_add_check(t, g, r)
    PROVE  IInv' /\ CInv'
<1>1. /\ thread[t] = Idle /\ rport[r].gport = None
      /\ careful => /\ Reading(r) = {} /\ \A u \in Threads : thread[u].at # "add"
                    /\ group[g].magic = "G" /\ rport[r].magic = "R"
      /\ thread' = [thread EXCEPT ![t] = [@ EXCEPT !.at = "add", !.port = r, !.group = g]]
      /\ UNCHANGED <<objects, wait, ghosts, careful, fault>>
  BY DEF port_group_add_check, Careful
<1>2. thread \in [Threads -> ThreadType]
  BY DEF IInv, Types
<1>3. PICK new : new = [thread[t] EXCEPT !.at = "add", !.port = r, !.group = g]
  OBVIOUS
<1>4. new \in ThreadType /\ new.at = "add" /\ new.port = r /\ new.group = g
  <2>1. thread[t] \in ThreadType /\ r \in Objects
    BY <1>2 DEF Objects
  <2>2. QED
    BY ONLY <1>3, <2>1, g \in Groups
<1>5. thread' = [thread EXCEPT ![t] = new]
  BY <1>1, <1>3
<1>6. thread'[t] = new /\ \A u \in Threads \ {t} : thread'[u] = thread[u]
  BY ONLY <1>2, <1>5, t \in Threads
<1>7. Types'
  <2> HIDE DEF WPortType, RPortType, GroupType, ThreadType
  <2>1. thread' \in [Threads -> ThreadType]
    BY <1>2, <1>4, <1>5
  <2>2. QED
    BY <1>1, <2>1 DEF IInv, Types, objects, ghosts
<1>8. PacketInv'
  BY <1>1, FramePackets DEF IInv, PacketFrame, objects, ghosts
<1>9. GroupInv' /\ (CarefulGroups => CarefulGroups')
  BY <1>1, FrameGroups DEF IInv, GroupFrame, objects
<1>10. thread[t].at = "idle"
  BY <1>1 DEF Idle
<1>11. WaitInv'
  <2>1. \A o : Blocked(o)' = Blocked(o)
    BY <1>4, <1>6, <1>10 DEF Blocked
  <2>2. \A o \in Objects : Lists(wait'[o], Blocked(o)')
    BY <1>1, <2>1 DEF IInv, WaitInv
  <2>3. ASSUME NEW u \in Threads
        PROVE  /\ thread'[u].at \in {"idle", "create"}
                    => thread'[u].port = None /\ thread'[u].group = None
               /\ thread'[u].at = "add" => thread'[u].port \in RPorts /\ thread'[u].group \in Groups
               /\ thread'[u].at \in {"blocked", "woken"} => thread'[u].port \in Objects
    BY <1>4, <1>6 DEF IInv, WaitInv
  <2>4. QED
    BY <2>2, <2>3 DEF WaitInv
<1>12. \A u \in Threads : thread'[u].at \in Readers => thread'[u] = thread[u]
  BY <1>4, <1>6 DEF Readers
<1>13. UNCHANGED <<rport, group>>
  BY <1>1 DEF objects
<1>14. ASSUME careful PROVE CarefulReaders'
  <2>1. CarefulReaders
    BY <1>14 DEF CInv
  <2>2. ASSUME NEW u \in Threads, thread'[u].at \in Readers
        PROVE  /\ (Open(thread[u].port))'
               /\ thread'[u].port \in RPorts => rport'[thread'[u].port].gport = None
    BY <1>12, <1>13, <2>1, <2>2 DEF CarefulReaders, Readers, Open
  <2>3. ASSUME NEW u \in Threads, NEW v \in Threads, thread'[u].at \in Readers,
               thread'[v].at \in Readers, thread'[u].port = thread'[v].port
        PROVE  u = v
    BY <1>12, <2>1, <2>3 DEF CarefulReaders, Readers
  <2>4. QED
    BY <2>2, <2>3 DEF CarefulReaders, Readers
<1>15. ASSUME careful PROVE CarefulAdd'
  <2>1. \A u \in Threads : thread'[u].at = "add" => u = t
    BY <1>1, <1>6, <1>15
  <2>2. \A u \in Threads : thread'[u].at \in Readers => thread'[u].port # r
    BY <1>1, <1>12, <1>15 DEF Reading, Readers
  <2>3. QED
    BY <1>1, <1>4, <1>6, <1>13, <1>15, <2>1, <2>2 DEF CarefulAdd, Readers
<1>16. ASSUME careful PROVE Asleep'
  BY <1>12, <1>13, <1>16 DEF CInv, Asleep, Members, Readers
<1>17. QED
  BY <1>1, <1>7, <1>8, <1>9, <1>11, <1>14, <1>15, <1>16 DEF IInv, CInv

\* port_group_add, under the lock.
LEMMA AddStep ==
    ASSUME IInv, CInv, fault = "none", NEW t \in Threads, port_group_add(t)
    PROVE  IInv' /\ CInv'
<1>1. PICK r : r = thread[t].port
  OBVIOUS
<1>2. PICK g : g = thread[t].group
  OBVIOUS
<1>3. PICK first : first = AddWakes(r, g)
  OBVIOUS
<1>4. thread[t].at = "add"
  BY DEF port_group_add
<1>5. r \in RPorts /\ g \in Groups /\ g \in Objects
  BY <1>1, <1>2, <1>4 DEF IInv, WaitInv, Objects
<1> DEFINE Bad == ~IsReadPort(r) \/ ~IsGroup(g) \/ rport[r].gport # None \/ rport[r].buf = None
<1>0. careful => rport[r].magic = "R" /\ group[g].magic = "G" /\ rport[r].gport = None
  BY <1>1, <1>2, <1>4 DEF CInv, CarefulAdd
<1>6. CASE Bad
  <2>0. careful => rport[r].buf # None
    BY <1>0, <1>5, BufferIsNotNone DEF IInv, PacketInv, ReadOK, After
  <2>1. ~careful
    BY <1>0, <1>6, <2>0 DEF IsReadPort, IsGroup
  <2>2. Fault("port_group_add")
    BY <1>1, <1>2, <1>6 DEF port_group_add
  <2>3. QED
    BY <2>1, <2>2, FaultStep
<1>7. CASE ~Bad
  <2>1. /\ IsReadPort(r) /\ IsGroup(g) /\ rport[r].gport = None
        /\ rport' = [rport EXCEPT ![r].gport = g]
        /\ group' = [group EXCEPT ![g].rp_list = Append(@, r)]
        /\ wait' = [wait EXCEPT ![g] = IF first = {} THEN @ ELSE Tail(@)]
        /\ thread' = [WokenUp(first, "NO_ERROR") EXCEPT ![t] = Idle]
        /\ UNCHANGED <<write_port_list, wport, ghosts, careful, fault>>
    BY <1>1, <1>2, <1>3, <1>7 DEF port_group_add
  <2>2. /\ GroupInv' /\ (careful /\ CarefulGroups => CarefulGroups')
        /\ careful => Members(g)' = Members(g) \cup {r}
        /\ \A h \in Groups \ {g} : Members(h)' = Members(h)
    BY <1>0, <1>5, <2>1, AddToGroup DEF IInv
  <2>3. /\ thread \in [Threads -> ThreadType] /\ wait \in [Objects -> Seq(Threads)]
        /\ rport \in [RPorts -> RPortType] /\ group \in [Groups -> GroupType]
    BY DEF IInv, Types
  <2>4. ASSUME NEW q \in RPorts
        PROVE  /\ rport'[q].magic = rport[q].magic /\ rport'[q].buf = rport[q].buf
               /\ rport'[q].wport = rport[q].wport
               /\ q # r => rport'[q] = rport[q]
    BY ONLY <1>5, <2>1, <2>3, q \in RPorts
  <2>5. rport' \in [RPorts -> RPortType]
    <3>1. rport \in [RPorts -> RPortType] /\ rport' = [rport EXCEPT ![r].gport = g]
      BY ONLY <2>1, <2>3
    <3>2. QED
      BY ONLY <1>5, <3>1
  <2>6. group' \in [Groups -> GroupType] /\ \A h \in Groups : group'[h].magic = group[h].magic
    <3>1. PICK new : new = Append(group[g].rp_list, r)
      OBVIOUS
    <3>2. group[g].rp_list \in Seq(RPorts)
      BY ONLY <1>5, <2>3
    <3>3. new \in Seq(RPorts)
      BY ONLY <1>5, <3>1, <3>2
    <3>4. group' = [group EXCEPT ![g].rp_list = new]
      BY <2>1, <3>1
    <3>5. QED
      BY ONLY <1>5, <2>3, <3>3, <3>4
  <2>7. Lists(wait[g], Blocked(g))
    BY <1>5 DEF IInv, WaitInv
  <2>8. /\ first \in SUBSET Blocked(g) /\ Lists(wait'[g], Blocked(g) \ first)
        /\ rport[r].buf # <<>> /\ careful => Blocked(g) \subseteq first
    <3>1. CASE first = {}
      <4>1. wait'[g] = wait[g]
        BY <1>5, <2>1, <2>3, <3>1
      <4>2. Blocked(g) \ {} = Blocked(g)
        OBVIOUS
      <4>3. rport[r].buf # <<>> => wait[g] = <<>>
        BY <1>3, <3>1 DEF AddWakes, HasPacket
      <4>4. rport[r].buf # <<>> => Blocked(g) = {}
        BY <2>7, <4>3, ListsEmpty
      <4>5. QED
        BY <2>7, <3>1, <4>1, <4>2, <4>4
    <3>2. CASE first # {}
      <4>1. first = {Head(wait[g])} /\ wait[g] # <<>>
        BY <1>3, <3>2 DEF AddWakes
      <4>2. wait'[g] = Tail(wait[g])
        BY <1>5, <2>1, <2>3, <3>2
      <4>3. Head(wait[g]) \in Blocked(g) /\ Lists(Tail(wait[g]), Blocked(g) \ {Head(wait[g])})
        BY ONLY <2>7, <4>1, ListsTail
      <4>4. careful => \A u, v \in Blocked(g) : u = v
        BY DEF CInv, CarefulReaders, Blocked
      <4>5. QED
        BY ONLY <4>1, <4>2, <4>3, <4>4
    <3>3. QED
      BY <3>1, <3>2
  <2>9. \A o \in Objects \ {g} : wait'[o] = wait[o] /\ Blocked(o) \ first = Blocked(o)
    BY <1>5, <2>1, <2>3, <2>8 DEF Blocked
  <2>10. \A o \in Objects : Lists(wait'[o], Blocked(o) \ first)
    BY <2>8, <2>9 DEF IInv, WaitInv
  <2>11. wait' \in [Objects -> Seq(Threads)]
    <3>1. PICK new : new = IF first = {} THEN wait[g] ELSE Tail(wait[g])
      OBVIOUS
    <3>2. wait' = [wait EXCEPT ![g] = new]
      BY <2>1, <3>1
    <3>3. wait'[g] = new
      BY ONLY <1>5, <2>3, <3>2
    <3>4. Blocked(g) \ first \subseteq Threads
      BY DEF Blocked
    <3>5. new \in Seq(Threads)
      BY ONLY <2>8, <3>3, <3>4, ListType
    <3>6. QED
      BY ONLY <1>5, <2>3, <3>2, <3>5
  <2>12. Quieter(first) /\ thread' \in [Threads -> ThreadType]
    <3>1. /\ \A u \in Threads : WokenUp(first, "NO_ERROR")[u] =
                IF u \notin first THEN thread[u] ELSE [thread[u] EXCEPT !.at = "woken"]
          /\ WokenUp(first, "NO_ERROR") = [u \in Threads |-> WokenUp(first, "NO_ERROR")[u]]
      BY DEF WokenUp
    <3>2. PICK up : up = WokenUp(first, "NO_ERROR")
      OBVIOUS
    <3>3. /\ up = [u \in Threads |-> up[u]]
          /\ \A u \in Threads : up[u] =
                IF u \notin first THEN thread[u] ELSE [thread[u] EXCEPT !.at = "woken"]
      BY <3>1, <3>2
    <3>4. ASSUME NEW u \in Threads PROVE up[u] \in ThreadType
      <4>1. thread[u] \in ThreadType /\ [thread[u] EXCEPT !.at = "woken"] \in ThreadType
        <5>1. thread[u] \in ThreadType
          BY <2>3
        <5>2. QED
          BY ONLY <5>1
      <4> HIDE DEF ThreadType
      <4>2. QED
        BY ONLY <3>3, <4>1, u \in Threads
    <3>5. Idle \in ThreadType
      BY DEF Idle
    <3>6. thread' = [up EXCEPT ![t] = Idle]
      BY <2>1, <3>2
    <3>7. thread'[t] = Idle /\ \A u \in Threads \ {t} : thread'[u] = up[u]
      BY ONLY <3>3, <3>6, t \in Threads
    <3>8. t \notin first /\ \A u \in first : thread[u].at = "blocked"
      BY <1>4, <2>8 DEF Blocked
    <3>9. Quieter(first)
      BY <1>4, <3>3, <3>7, <3>8 DEF Quieter
    <3> HIDE DEF ThreadType
    <3>10. thread' \in [Threads -> ThreadType]
      BY ONLY <3>3, <3>4, <3>5, <3>6
    <3>11. QED
      BY <3>9, <3>10
  <2>13. Types'
    <3> HIDE DEF WPortType, RPortType, GroupType, ThreadType
    <3>1. QED
      BY <2>1, <2>5, <2>6, <2>11, <2>12 DEF IInv, Types, ghosts
  <2>14. PacketInv'
    BY <2>1, <2>4, FramePackets DEF IInv, PacketFrame, ghosts
  <2>15. WaitInv'
    BY <2>10, <2>12, QuietWait DEF IInv
  <2>16. ASSUME careful PROVE CarefulReaders' /\ CarefulAdd'
    <3>1. ASSUME NEW u \in Threads, thread'[u].at \in Readers
          PROVE  /\ Open(thread[u].port)'
                 /\ thread[u].port \in RPorts => rport'[thread[u].port].gport = None
      <4>1. PICK p : p = thread[u].port
        OBVIOUS
      <4>2. thread[u].at \in Readers /\ thread'[u].port = thread[u].port
        BY <2>12, <3>1, QuietThreads DEF IInv
      <4>3. p \in Objects /\ Open(p) /\ (p \in RPorts => rport[p].gport = None)
        BY <2>16, <4>1, <4>2 DEF IInv, WaitInv, CInv, CarefulReaders, Readers
      <4>4. p # r
        BY <1>1, <1>4, <2>16, <4>1, <4>2 DEF CInv, CarefulAdd, Readers
      <4>5. Open(p)' /\ (p \in RPorts => rport'[p].gport = None)
        BY <2>4, <2>6, <4>3, <4>4 DEF Open, Objects
      <4>6. QED
        BY <4>1, <4>2, <4>5 DEF Open
    <3>2. ASSUME NEW u \in Threads PROVE thread'[u].at # "add"
      <4>1. thread'[t] = Idle
        <5>1. WokenUp(first, "NO_ERROR") = [v \in Threads |-> WokenUp(first, "NO_ERROR")[v]]
          BY DEF WokenUp
        <5>2. QED
          BY <2>1, <5>1
      <4>2. CASE u = t
        BY <4>1, <4>2 DEF Idle
      <4>3. CASE u # t
        <5>1. thread[u].at # "add"
          BY <1>4, <2>16, <4>3 DEF CInv, CarefulAdd
        <5>2. QED
          BY <2>12, <5>1, QuietThreads DEF IInv
      <4>4. QED
        BY <4>2, <4>3
    <3>3. QED
      BY <2>12, <2>16, <3>1, <3>2, QuietCareful DEF IInv, CInv
  <2>17. ASSUME careful PROVE Asleep'
    <3>1. \A p \in RPorts : rport[p].buf = <<>> => rport'[p].buf = <<>>
      BY <2>4
    <3>2. ASSUME NEW h \in Groups, Blocked(h) \ first # {},
                 \A q \in Members(h) : rport[q].buf = <<>>
          PROVE  \A q \in Members(h)' : rport'[q].buf = <<>>
      <4>1. CASE h = g
        <5>1. rport[r].buf = <<>>
          BY <2>8, <2>17, <3>2, <4>1
        <5>2. \A q \in Members(g) \cup {r} : q \in RPorts /\ rport[q].buf = <<>>
          BY <1>5, <3>2, <4>1, <5>1 DEF Members
        <5>3. QED
          BY <2>2, <2>17, <3>1, <4>1, <5>2
      <4>2. CASE h # g
        <5>1. Members(h)' = Members(h)
          BY <2>2, <4>2
        <5>2. QED
          BY <3>1, <3>2, <5>1 DEF Members
      <4>3. QED
        BY <4>1, <4>2
    <3>3. QED
      BY <2>12, <2>17, <3>1, <3>2, QuietAsleep DEF IInv, CInv
  <2>18. QED
    BY <2>1, <2>2, <2>13, <2>14, <2>15, <2>16, <2>17 DEF IInv, CInv
<1>8. QED
  BY <1>6, <1>7

\* port_group_remove, which careful clients do not call.
LEMMA RemoveStep ==
    ASSUME IInv, CInv, fault = "none", NEW g \in Groups, NEW r \in RPorts, port_group_remove(g, r)
    PROVE  IInv' /\ CInv'
<1>1. ~careful /\ IsGroup(g) /\ rport[r].gport = g
  BY DEF port_group_remove
<1>2. CASE r \notin ToSet(group[g].rp_list)
  BY <1>1, <1>2, FaultStep DEF port_group_remove
<1>3. CASE r \in ToSet(group[g].rp_list)
  <2>1. /\ group' = [group EXCEPT ![g].rp_list = list_delete(@, r)]
        /\ UNCHANGED <<write_port_list, wport, rport, wait, thread, ghosts, careful, fault>>
    BY <1>3 DEF port_group_remove
  <2>2. \A h \in Groups : Members(h)' = Members(h) \ {} /\ Linked(h)' = Linked(h) \ {}
    <3>1. \A h \in Groups : /\ Members(h)' = Members(h) /\ Members(h) \ {} = Members(h)
                            /\ Linked(h)' = Linked(h) /\ Linked(h) \ {} = Linked(h)
      BY <2>1 DEF Members, Linked, IsReadPort
    <3>2. QED
      BY <3>1
  <2>3. GroupInv'
    <3>1. {} \in SUBSET {r} /\ Types /\ GroupInv
      BY DEF IInv
    <3>2. QED
      BY ONLY <1>1, <1>3, <2>1, <2>2, <3>1, g \in Groups, r \in RPorts, DropFromGroup
  <2>4. group' \in [Groups -> GroupType]
    <3>1. PICK S \in SUBSET Linked(g) : Lists(group[g].rp_list, S)
      BY DEF IInv, GroupInv
    <3>2. PICK new : new = list_delete(group[g].rp_list, r)
      OBVIOUS
    <3>3. Lists(new, S \ {r})
      BY <1>3, <3>1, <3>2, ListsToSet, ListDelete
    <3>4. S \ {r} \subseteq RPorts
      BY <3>1 DEF Linked
    <3>5. new \in Seq(RPorts)
      BY ONLY <3>3, <3>4, ListType
    <3>6. group \in [Groups -> GroupType] /\ group' = [group EXCEPT ![g].rp_list = new]
      BY <2>1, <3>2 DEF IInv, Types
    <3>7. QED
      BY ONLY <3>5, <3>6, g \in Groups
  <2>5. Types'
    <3> HIDE DEF WPortType, RPortType, GroupType, ThreadType
    <3>1. QED
      BY <2>1, <2>4 DEF IInv, Types, ghosts
  <2>6. PacketInv'
    BY <2>1, FramePackets DEF IInv, PacketFrame, ghosts
  <2>7. WaitInv'
    BY <2>1 DEF IInv, WaitInv, Blocked
  <2>8. QED
    BY <1>1, <2>1, <2>3, <2>5, <2>6, <2>7 DEF IInv, CInv
<1>4. QED
  BY <1>2, <1>3
-----------------------------------------------------------------------------
(* The specification. *)

\* At the start there are no ports, no groups and no readers.
LEMMA InitHolds == Init => IInv /\ CInv
<1> SUFFICES ASSUME Init PROVE IInv /\ CInv
  OBVIOUS
<1>1. /\ write_port_list = <<>> /\ wport = [w \in WPorts |-> NoWPort]
      /\ rport = [r \in RPorts |-> NoRPort] /\ group = [g \in Groups |-> NoGroup]
      /\ wait = [o \in Objects |-> <<>>] /\ thread = [t \in Threads |-> Idle]
      /\ accepted = [w \in WPorts |-> 0] /\ delivered = [w \in WPorts |-> 0]
      /\ last = [r \in RPorts |-> 0] /\ careful \in BOOLEAN /\ fault = "none"
  BY DEF Init, Objects
<1>2. /\ NoWPort \in WPortType /\ NoRPort \in RPortType /\ NoGroup \in GroupType
      /\ Idle \in ThreadType
  <2>1. <<>> \in Seq(RPorts)
    OBVIOUS
  <2>2. QED
    BY <2>1 DEF NoWPort, NoRPort, NoGroup, Idle
<1>3. Types
  <2> HIDE DEF WPortType, RPortType, GroupType, ThreadType
  <2>1. <<>> \in Seq(Threads)
    OBVIOUS
  <2>2. QED
    BY <1>1, <1>2, <2>1 DEF Types
<1>4. Lists(<<>>, {})
  BY DEF Lists
<1>5. /\ \A w \in WPorts : wport[w].magic = "0" /\ wport[w].rp_list = <<>>
      /\ \A r \in RPorts : rport[r].magic = "0" /\ rport[r].buf = None
      /\ \A g \in Groups : group[g].magic = "0" /\ group[g].rp_list = <<>>
      /\ \A t \in Threads : thread[t].at = "idle" /\ thread[t].port = None /\ thread[t].group = None
      /\ \A o \in Objects : wait[o] = <<>>
  BY <1>1 DEF NoWPort, NoRPort, NoGroup, Idle
<1>6. /\ \A w \in WPorts : OpenOn(w) = {}
      /\ \A g \in Groups : Members(g) = {} /\ Linked(g) = {} /\ ~IsGroup(g)
      /\ \A r \in RPorts : ~IsReadPort(r)
      /\ \A o \in Objects : Blocked(o) = {}
      /\ {w \in WPorts : wport[w].magic # "0"} = {}
  BY <1>5 DEF OpenOn, Members, Linked, Blocked, IsReadPort, IsGroup
<1>7. PacketInv
  BY <1>1, <1>4, <1>5, <1>6 DEF PacketInv, WriteOK, ReadOK
<1>8. GroupInv /\ CarefulGroups
  BY <1>4, <1>5, <1>6 DEF GroupInv, CarefulGroups
<1>9. WaitInv
  BY <1>4, <1>5, <1>6 DEF WaitInv
<1>10. CarefulReaders /\ CarefulAdd /\ Asleep
  BY <1>5 DEF CarefulReaders, CarefulAdd, Asleep
<1>11. QED
  BY <1>1, <1>3, <1>7, <1>8, <1>9, <1>10 DEF IInv, CInv

\* Every step keeps the invariant.
LEMMA NextHolds == IInv /\ CInv /\ [Next]_vars => IInv' /\ CInv'
<1> SUFFICES ASSUME IInv, CInv, [Next]_vars PROVE IInv' /\ CInv'
  OBVIOUS
<1>1. CASE UNCHANGED vars
  <2>1. UNCHANGED <<write_port_list, wport, rport, group, wait, thread, accepted, delivered, last,
                    careful, fault>>
    BY <1>1 DEF vars, objects, ghosts
  <2>2. Types'
    BY <2>1 DEF IInv, Types
  <2>3. PacketInv'
    BY <2>1, FramePackets DEF IInv, PacketFrame
  <2>4. GroupInv' /\ (CarefulGroups => CarefulGroups')
    BY <2>1, FrameGroups DEF IInv, GroupFrame
  <2>5. WaitInv'
    BY <2>1 DEF IInv, WaitInv, Blocked
  <2>6. (CarefulReaders => CarefulReaders') /\ (CarefulAdd => CarefulAdd') /\ (Asleep => Asleep')
    BY <2>1 DEF CarefulReaders, CarefulAdd, Asleep, Open, Members
  <2>7. QED
    BY <2>1, <2>2, <2>3, <2>4, <2>5, <2>6 DEF IInv, CInv
<1>2. CASE Next
  <2>1. fault = "none"
    BY <1>2 DEF Next
  <2>2. ASSUME NEW t \in Threads, ThreadStep(t) PROVE IInv' /\ CInv'
    <3>1. CASE port_create_lookup(t)
      BY <2>1, <3>1, LookupStep
    <3>2. CASE \E mode \in {"UNICAST", "BROADCAST"} : port_create(t, mode)
      BY <2>1, <3>2, CreateStep DEF Modes
    <3>3. CASE \E g \in Groups, r \in RPorts : port_group_add_check(t, g, r)
      BY <2>1, <3>3, AddCheckStep
    <3>4. CASE port_group_add(t)
      BY <2>1, <3>4, AddStep
    <3>5. CASE \E o \in RPorts \cup Groups, timeout \in {"zero", "nonzero"} :
                  port_read(t, o, timeout)
      BY <2>1, <3>5, ReadStep DEF Objects
    <3>6. CASE port_read_again(t)
      BY <2>1, <3>6, ReadAgainStep
    <3>7. CASE wait_queue_timeout_handler(t)
      BY <2>1, <3>7, TimeoutStep
    <3>8. QED
      BY <2>2, <3>1, <3>2, <3>3, <3>4, <3>5, <3>6, <3>7 DEF ThreadStep
  <2>3. ASSUME NEW r \in RPorts, port_open(r) \/ port_close_read(r) \/ port_close_read_end(r)
        PROVE  IInv' /\ CInv'
    BY <2>1, <2>3, OpenStep, CloseReadStep, CloseReadEndStep
  <2>4. ASSUME NEW g \in Groups, NEW n \in 0 .. 2, NEW ports \in [1 .. n -> RPorts],
               IsInjective(ports), port_group(g, ports)
        PROVE  IInv' /\ CInv'
    <3>1. ports \in Seq(RPorts)
      OBVIOUS
    <3>2. QED
      BY <2>1, <2>4, <3>1, GroupStep
  <2>5. ASSUME NEW g \in Groups, NEW r \in RPorts, port_group_remove(g, r) PROVE IInv' /\ CInv'
    BY <2>1, <2>5, RemoveStep
  <2>6. ASSUME NEW w \in WPorts, NEW count \in 1 .. 2, port_write(w, count) PROVE IInv' /\ CInv'
    <3>1. count \in Nat
      OBVIOUS
    <3>2. QED
      BY <2>1, <2>6, <3>1, WriteStep
  <2>7. ASSUME NEW w \in WPorts, port_close_write(w) \/ port_destroy(w) PROVE IInv' /\ CInv'
    BY <2>1, <2>7, CloseWriteStep, DestroyStep
  <2>8. ASSUME NEW g \in Groups, port_close_group(g) \/ port_close_group_end(g)
        PROVE  IInv' /\ CInv'
    BY <2>1, <2>8, CloseGroupStep, CloseGroupEndStep
  <2>9. QED
    BY <1>2, <2>2, <2>3, <2>4, <2>5, <2>6, <2>7, <2>8 DEF Next
<1>3. QED
  BY <1>1, <1>2

\* The invariant of the ports: the lists, buffers and queues agree with each other
\* whatever the clients do, and for careful clients the groups and readers do as well.
THEOREM PortInvariant == Spec => [](IInv /\ CInv)
<1>1. QED
  BY InitHolds, NextHolds, PTL DEF Spec

\* Packets come out in the order they went in, and a unicast port loses and repeats
\* none, through every hand-over of a buffer in port_open and port_close.
THEOREM PortInOrder == Spec => []InOrder
<1>1. IInv => InOrder
  BY PacketsInOrder DEF IInv
<1>2. QED
  BY <1>1, PortInvariant, PTL

\* With careful clients port_write, port_read, port_close, port_destroy and
\* port_group_add use no port or group that is freed, also when others run between the
\* reschedule in wait_queue_destroy and the clearing of magic in port_close.
THEOREM PortNoFault == Spec => []NoFault
<1>1. CInv => NoFault
  BY DEF CInv, NoFault
<1>2. QED
  BY <1>1, PortInvariant, PTL

\* With careful clients port_write and port_group_add wake the reader: nobody sleeps in
\* port_read beside a packet.
THEOREM PortNobodyAsleep == Spec => []NobodyAsleepBesidePacket
<1>1. ASSUME IInv, CInv PROVE NobodyAsleepBesidePacket
  <2> SUFFICES ASSUME careful, NEW t \in Threads, thread[t].at = "blocked",
                      NEW i \in DOMAIN Sources(thread[t].port)
               PROVE  ~HasPacket(Sources(thread[t].port)[i])
    BY DEF NobodyAsleepBesidePacket
  <2>1. PICK o : o = thread[t].port
    OBVIOUS
  <2>2. o \in Objects /\ Open(o)
    BY <1>1, <2>1 DEF IInv, WaitInv, CInv, CarefulReaders
  <2>3. PICK r : r = Sources(o)[i]
    OBVIOUS
  <2>4. r \in RPorts /\ (r = o \/ r \in Members(o))
    <3>1. Live(o)
      BY <2>2 DEF Open, Live, IsReadPort, IsGroup
    <3>2. i \in DOMAIN Sources(o)
      BY <2>1
    <3>3. QED
      BY <1>1, <2>2, <2>3, <3>1, <3>2, SourcesOpen
  <2>5. /\ o \in RPorts => rport[o].buf = <<>>
        /\ o \in Groups => \A q \in Members(o) : rport[q].buf = <<>>
    BY <1>1, <2>1 DEF CInv, Asleep
  <2>6. rport[r].buf = <<>>
    <3>1. CASE r = o
      BY <2>4, <2>5, <3>1
    <3>2. CASE r \in Members(o)
      <4>1. rport[r].gport \in Groups \cup {None}
        BY <1>1, <2>4 DEF IInv, Types
      <4>2. o # None
        BY <2>2, PortAssumption DEF Objects
      <4>3. o \in Groups
        BY <3>2, <4>1, <4>2 DEF Members
      <4>4. QED
        BY <2>5, <3>2, <4>3
    <3>3. QED
      BY <2>4, <3>1, <3>2
  <2>7. QED
    BY <2>1, <2>3, <2>6 DEF HasPacket
<1>2. QED
  BY <1>1, PortInvariant, PTL
=============================================================================
