--------------------------- MODULE Service_proofs ---------------------------
(***************************************************************************)
(* With one listener the registry implements ConnectionService: every step *)
(* of it is a step of the service, or one the application cannot see.      *)
(***************************************************************************)
EXTENDS OneListener_proofs, FiniteSetTheorems

-----------------------------------------------------------------------------
(* Connections wait in the order in which they were made *)

Increasing(s) == \A i, j \in DOMAIN s : i < j => s[i] < s[j]

OrderInv ==
  /\ Increasing(pending_connections)
  /\ Increasing(batch)
  /\ \A c \in Range(batch), d \in Range(pending_connections) : c < d

LEMMA IncreasingOfAppend ==
  ASSUME NEW s \in Seq(Nat), NEW x \in Nat, Increasing(s), \A y \in Range(s) : y < x
  PROVE  Increasing(Append(s, x))
  <1>1. \A i \in DOMAIN s : s[i] < x
    BY DEF Range
  <1>2. DOMAIN Append(s, x) = 1 .. Len(s) + 1 /\ DOMAIN s = 1 .. Len(s) /\ Len(s) \in Nat
    OBVIOUS
  <1>3. \A i \in DOMAIN s : Append(s, x)[i] = s[i]
    OBVIOUS
  <1>4. Append(s, x)[Len(s) + 1] = x
    OBVIOUS
  <1> QED
    BY <1>1, <1>2, <1>3, <1>4 DEF Increasing

LEMMA IncreasingOfTail ==
  ASSUME NEW s \in Seq(Nat), s # <<>>, Increasing(s)
  PROVE  /\ Increasing(Tail(s))
         /\ \A y \in Range(Tail(s)) : Head(s) < y
  <1>1. Len(s) \in Nat \ {0} /\ DOMAIN s = 1 .. Len(s)
    BY EmptySeq, LenProperties
  <1>2. /\ DOMAIN Tail(s) = 1 .. Len(s) - 1
        /\ \A i \in DOMAIN Tail(s) : i + 1 \in DOMAIN s /\ Tail(s)[i] = s[i + 1]
    BY <1>1
  <1>3. Increasing(Tail(s))
    BY <1>1, <1>2 DEF Increasing
  <1>4. Head(s) = s[1]
    OBVIOUS
  <1>5. \A i \in DOMAIN Tail(s) : Head(s) < Tail(s)[i]
    BY <1>1, <1>2, <1>4 DEF Increasing
  <1> QED
    BY <1>3, <1>5 DEF Range

LEMMA OrderInvHolds == TypeOK /\ SystemInv /\ OrderInv /\ [Next]_vars => OrderInv'
<1> SUFFICES ASSUME TypeOK, SystemInv, OrderInv, [Next]_vars PROVE OrderInv'
  OBVIOUS
<1>a. /\ Range(pending_connections) \subseteq Conn /\ Range(batch) \subseteq Conn
      /\ pending_connections \in Seq(Nat) /\ batch \in Seq(Nat)
      /\ \A c \in Conn : c \in Nat /\ c < Len(conns) + 1
  BY RangeTyped, SeqMonotonic DEF TypeOK, Conn
<1>e. \A i, j \in DOMAIN <<>> : FALSE
  OBVIOUS
<1>1. CASE SameOwners
  BY <1>1 DEF SameOwners, OrderInv
<1>2. ASSUME NEW p \in Peer, Made(p) PROVE OrderInv'
  <2> DEFINE c == Len(conns) + 1
  <2>1. /\ c \in Nat /\ pending_connections' = Append(pending_connections, c)
        /\ UNCHANGED batch
    BY <1>2 DEF Made, TypeOK
  <2>2. \A d \in Range(pending_connections) \cup Range(batch) : d < c
    BY <1>a
  <2> HIDE DEF c
  <2>3. Increasing(pending_connections')
    BY <1>a, <2>1, <2>2, IncreasingOfAppend DEF OrderInv
  <2>4. Range(pending_connections') = Range(pending_connections) \cup {c}
    BY <1>a, <2>1, RangeOfAppend
  <2> QED
    BY <2>1, <2>2, <2>3, <2>4 DEF OrderInv
<1>3. CASE DrainPending
  BY <1>3, <1>e, RangeOfEmpty DEF DrainPending, OrderInv, Increasing
<1>4. CASE Register
  <2>1. batch # <<>> /\ batch' = Tail(batch) /\ UNCHANGED pending_connections
    BY <1>4 DEF Register
  <2>2. Increasing(batch')
    BY <1>a, <2>1, IncreasingOfTail DEF OrderInv
  <2>3. Range(batch') \subseteq Range(batch)
    BY <1>a, <2>1, RangeOfTail
  <2> QED
    BY <2>1, <2>2, <2>3 DEF OrderInv
<1>5. ASSUME NEW h \in Handle, Taken(h) PROVE OrderInv'
  BY <1>5 DEF Taken, OrderInv
<1>6. CASE DropRemoved
  BY <1>6 DEF DropRemoved, OrderInv
<1> QED
  BY <1>1, <1>2, <1>3, <1>4, <1>5, <1>6, StepEffects DEF Effect

-----------------------------------------------------------------------------
(* The datagram in the hand of the task, and the silent connections *)

\* It is the last that has arrived from its address.
SeqInv ==
  \A l \in Listener : at[l] \in {"lookup", "write"} =>
    /\ payload[l].seq = arrived[payload[l].from]
    /\ payload[l].body \in Bodies

\* Nothing else takes a silent connection from the table first.
SilentInv == system = "heartbeats_and_timeouts" => silent \subseteq Open

LEMMA SeqInvHolds ==
  ASSUME OneListener, TypeOK, ListenerInv, SeqInv, [Next]_vars
  PROVE  SeqInv'
<1>a. ASSUME NEW l \in Listener,
             at'[l] \in {"lookup", "write"} => at[l] \in {"lookup", "write"},
             UNCHANGED <<payload, arrived>>
      PROVE  SeqInv'
  BY <1>a DEF SeqInv, OneListener
<1>b. ASSUME UNCHANGED <<at, payload, arrived>> PROVE SeqInv'
  BY <1>b DEF SeqInv
<1>c. ASSUME NEW l \in Listener, at'[l] \notin {"lookup", "write"} PROVE SeqInv'
  BY <1>c DEF SeqInv, OneListener
<1>1. ASSUME NEW l \in Listener, Listen(l) PROVE SeqInv'
  BY <1>1, <1>c DEF Listen, TypeOK
<1>2. ASSUME NEW l \in Listener, NEW a \in Addr, NEW b \in Bodies, ServerReceive(l, a, b)
      PROVE SeqInv'
  <2>1. /\ payload'[l] = [from |-> a, seq |-> arrived[a] + 1, body |-> b]
        /\ arrived'[a] = arrived[a] + 1
    BY <1>2 DEF ServerReceive, TypeOK, Peer
  <2>2. payload'[l].from = a /\ payload'[l].seq = arrived[a] + 1 /\ payload'[l].body = b
    BY <2>1
  <2>3. \A k \in Listener : k = l
    BY DEF OneListener
  <2> QED
    BY <2>1, <2>2, <2>3 DEF SeqInv
<1>3. ASSUME NEW l \in Listener, Forward(l) \/ PushConnection(l) \/ StoreChannel(l)
      PROVE SeqInv'
  BY <1>3, <1>c DEF Forward, PushConnection, StoreChannel, TypeOK
<1>4. ASSUME NEW l \in Listener, NeedsNewChannel(l) PROVE SeqInv'
  BY <1>4, <1>a DEF NeedsNewChannel, TypeOK
<1>5. CASE SetChannelsBuilder \/ Connect
  BY <1>5, <1>b DEF SetChannelsBuilder, Connect, listenerVars
<1>6. ASSUME NEW c \in Conn, NEW b \in Bodies \cup {"error"}, SocketArrival(c, b)
      PROVE SeqInv'
  <2>1. UNCHANGED <<at, payload>> /\ \A p \in Addr : arrived'[p] = arrived[p]
    BY <1>6, NetworkAssumption DEF SocketArrival, listenerVars, NetworkAssumption, TypeOK, Peer
  <2> QED
    BY <2>1 DEF SeqInv, ListenerInv, TaskInv
<1>7. CASE DrainPending \/ Register \/ FinishReceive \/ DropRemoved
  BY <1>7, <1>b DEF DrainPending, Register, FinishReceive, DropRemoved, listenerVars
<1>8. ASSUME NEW h \in Handle,
             \/ ReceivePacket(h) \/ ReceiveDisconnected(h) \/ ReceiveNothing(h)
             \/ Disconnect(h) \/ IdleDisconnect(h)
      PROVE SeqInv'
  BY <1>8, <1>b DEF ReceivePacket, ReceiveDisconnected, ReceiveNothing, Disconnect,
                    IdleDisconnect, listenerVars
<1>9. ASSUME NEW S \in SUBSET Open, FindSilent(S) PROVE SeqInv'
  BY <1>9, <1>b DEF FindSilent, listenerVars
<1>10. CASE UNCHANGED vars
  BY <1>10, <1>b DEF vars, listenerVars
<1> QED
  BY <1>1, <1>2, <1>3, <1>4, <1>5, <1>6, <1>7, <1>8, <1>9, <1>10
     DEF Next, Environment, ListenerTask, Application, ReceivePackets

LEMMA SilentInvHolds == TypeOK /\ SilentInv /\ [Next]_vars => SilentInv'
<1> SUFFICES ASSUME TypeOK, SilentInv, [Next]_vars PROVE SilentInv'
  OBVIOUS
<1>a. ASSUME UNCHANGED <<system, silent, connections>> PROVE SilentInv'
  BY <1>a DEF SilentInv, Open
<1>1. ASSUME NEW l \in Listener, Listen(l) \/ ListenerTask(l) PROVE SilentInv'
  BY <1>1, <1>a DEF Listen, ListenerTask, Forward, NeedsNewChannel, PushConnection,
                    StoreChannel, tableVars, systemVars
<1>2. ASSUME NEW l \in Listener, NEW a \in Addr, NEW b \in Bodies, ServerReceive(l, a, b)
      PROVE SilentInv'
  BY <1>2, <1>a DEF ServerReceive, tableVars, systemVars
<1>3. CASE SetChannelsBuilder \/ Connect
  BY <1>3, <1>a DEF SetChannelsBuilder, Connect, tableVars, systemVars
<1>4. ASSUME NEW c \in Conn, NEW b \in Bodies \cup {"error"}, SocketArrival(c, b)
      PROVE SilentInv'
  BY <1>4, <1>a DEF SocketArrival, tableVars, systemVars
<1>5. CASE DrainPending \/ Register \/ FinishReceive
  BY <1>5 DEF DrainPending, Register, FinishReceive, SilentInv
<1>6. ASSUME NEW h \in Handle,
             ReceivePacket(h) \/ ReceiveDisconnected(h) \/ ReceiveNothing(h)
      PROVE SilentInv'
  BY <1>6, <1>a DEF ReceivePacket, ReceiveDisconnected, ReceiveNothing, tableVars
<1>7. ASSUME NEW h \in Handle, Disconnect(h) PROVE SilentInv'
  BY <1>7 DEF Disconnect, SilentInv
<1>8. ASSUME NEW h \in Handle, IdleDisconnect(h) PROVE SilentInv'
  BY <1>8 DEF IdleDisconnect, TakeFromTable, SilentInv, Open, TypeOK
<1>9. ASSUME NEW S \in SUBSET Open, FindSilent(S) PROVE SilentInv'
  BY <1>9 DEF FindSilent, SilentInv, Open, tableVars
<1>10. CASE DropRemoved
  BY <1>10 DEF DropRemoved, SilentInv, Open, tableVars
<1>11. CASE UNCHANGED vars
  BY <1>11, <1>a DEF vars, tableVars, systemVars
<1> QED
  BY <1>1, <1>2, <1>3, <1>4, <1>5, <1>6, <1>7, <1>8, <1>9, <1>10, <1>11
     DEF Next, Environment, Application, ReceivePackets

ServiceInv == OneInv /\ AddressInv /\ OrderInv /\ SeqInv /\ SilentInv

LEMMA ServiceInvInductive ==
  ASSUME OneListener
  PROVE  (Init => ServiceInv) /\ (ServiceInv /\ [Next]_vars => ServiceInv')
<1>1. ASSUME Init PROVE ServiceInv
  <2>1. \A i, j \in DOMAIN <<>> : FALSE
    OBVIOUS
  <2>2. OrderInv /\ SeqInv /\ SilentInv
    BY <1>1, <2>1, RangeOfEmpty DEF Init, OrderInv, Increasing, SeqInv, SilentInv
  <2>3. AddressInv
    BY <1>1 DEF Init, AddressInv
  <2> QED
    BY <1>1, <2>2, <2>3, InitOne DEF ServiceInv
<1>2. ASSUME ServiceInv, [Next]_vars PROVE ServiceInv'
  <2>1. OneInv'
    BY <1>2, OneInvHolds, NextTyped, SystemInvHolds, ListenerInvHolds, OwnerInvHolds
       DEF ServiceInv, OneInv
  <2>2. AddressInv' /\ OrderInv' /\ SeqInv' /\ SilentInv'
    BY <1>2, AddressInvHolds, OrderInvHolds, SeqInvHolds, SilentInvHolds
       DEF ServiceInv, OneInv
  <2> QED
    BY <2>1, <2>2 DEF ServiceInv
<1> QED
  BY <1>1, <1>2
-----------------------------------------------------------------------------
(* What the application sees of a connection *)

Seen(p, s, h, i) == [peer |-> p, status |-> s, handle |-> h, inbox |-> i]

Entries ==
  /\ ServiceConns = [c \in Conn |-> ServiceConns[c]]
  /\ \A c \in Conn :
       /\ c \in Waiting =>
            ServiceConns[c] = Seen(conns[c].peer, "waiting", NoHandle, conns[c].rx)
       /\ \A h \in Handle : connections[h] = c =>
            ServiceConns[c] = Seen(conns[c].peer, "open", h, conns[c].rx)
       /\ removed = c =>
            ServiceConns[c] = Seen(conns[c].peer, "closing", NoHandle, conns[c].rx)
       /\ c \notin Alive =>
            ServiceConns[c] = Seen(conns[c].peer, "closed", NoHandle, <<>>)

LEMMA EntriesHold == OneInv => Entries
<1> SUFFICES ASSUME OneInv PROVE Entries
  OBVIOUS
<1>1. ServiceConns = [c \in Conn |-> ServiceConns[c]]
  BY DEF ServiceConns
<1> SUFFICES ASSUME NEW c \in Conn
    PROVE  /\ c \in Waiting =>
                ServiceConns[c] = Seen(conns[c].peer, "waiting", NoHandle, conns[c].rx)
           /\ \A h \in Handle : connections[h] = c =>
                ServiceConns[c] = Seen(conns[c].peer, "open", h, conns[c].rx)
           /\ removed = c =>
                ServiceConns[c] = Seen(conns[c].peer, "closing", NoHandle, conns[c].rx)
           /\ c \notin Alive =>
                ServiceConns[c] = Seen(conns[c].peer, "closed", NoHandle, <<>>)
  BY <1>1 DEF Entries
<1>2. ServiceConns[c] = Seen(conns[c].peer, ServiceStatus(c), ServiceHandle(c),
                             IF ReceiverAlive(c) THEN conns[c].rx ELSE <<>>)
  BY DEF ServiceConns, Seen
<1>3. c # NoConn /\ c \in Nat
  BY DEF Conn, NoConn, OneInv, TypeOK
<1>4. c \in Waiting => ~ Registered(c) /\ removed # c
  BY <1>3 DEF OneInv, OwnerInv, Registered
<1>5. removed = c => ~ Registered(c) /\ c \notin Waiting
  BY <1>3 DEF OneInv, OwnerInv, Registered
<1>6. ReceiverAlive(c) <=> c \in Waiting \/ Registered(c) \/ removed = c
  BY DEF ReceiverAlive, Live, Waiting
<1>7. CASE c \in Waiting
  <2>1. ServiceStatus(c) = "waiting" /\ ServiceHandle(c) = NoHandle /\ ReceiverAlive(c)
    BY <1>4, <1>6, <1>7 DEF ServiceStatus, ServiceHandle, Waiting
  <2> QED
    BY <1>2, <1>4, <1>7, <2>1 DEF Registered, Alive
<1>8. CASE Registered(c)
  <2>1. PICK h \in Handle : connections[h] = c
    BY <1>8 DEF Registered
  <2>2. \A k \in Handle : connections[k] = c => k = h
    BY <1>3, <2>1 DEF OneInv, OwnerInv
  <2>3. ServiceHandle(c) = h
    BY <1>8, <2>1, <2>2 DEF ServiceHandle
  <2>4. ServiceStatus(c) = "open" /\ c \notin Waiting /\ removed # c /\ ReceiverAlive(c)
    BY <1>4, <1>5, <1>6, <1>8 DEF ServiceStatus, Waiting
  <2> QED
    BY <1>2, <2>2, <2>3, <2>4 DEF Alive
<1>9. CASE removed = c
  <2>1. ServiceStatus(c) = "closing" /\ ServiceHandle(c) = NoHandle /\ ReceiverAlive(c)
    BY <1>5, <1>6, <1>9 DEF ServiceStatus, ServiceHandle, Waiting
  <2> QED
    BY <1>2, <1>5, <1>9, <2>1 DEF Registered, Alive
<1>10. CASE ~ ReceiverAlive(c)
  <2>1. ServiceStatus(c) = "closed" /\ ServiceHandle(c) = NoHandle
    BY <1>6, <1>10 DEF ServiceStatus, ServiceHandle, Waiting
  <2> QED
    BY <1>2, <1>6, <1>10, <2>1 DEF Registered
<1> QED
  BY <1>6, <1>7, <1>8, <1>9, <1>10

\* Nothing happens to the connection c.
Unchanged(c) ==
  /\ conns'[c].peer = conns[c].peer /\ conns'[c].rx = conns[c].rx
  /\ c \in Waiting' <=> c \in Waiting
  /\ \A h \in Handle : connections'[h] = c <=> connections[h] = c
  /\ removed' = c <=> removed = c

LEMMA UnchangedEntry ==
  ASSUME Entries, Entries', NEW c \in Conn, c \in Conn', Unchanged(c)
  PROVE  ServiceConns'[c] = ServiceConns[c]
<1>a. c \in Waiting \/ Registered(c) \/ removed = c \/ c \notin Alive
  BY DEF Alive, ReceiverAlive, Live, Waiting
<1>b. c \in Alive' => c \in Alive
  BY DEF Alive, ReceiverAlive, Live, Waiting, Registered, Unchanged
<1>1. CASE c \in Waiting
  BY <1>1 DEF Entries, Unchanged
<1>2. CASE Registered(c)
  BY <1>2 DEF Entries, Unchanged, Registered
<1>3. CASE removed = c
  BY <1>3 DEF Entries, Unchanged
<1>4. CASE c \notin Alive
  BY <1>4, <1>b DEF Entries, Unchanged
<1> QED
  BY <1>a, <1>1, <1>2, <1>3, <1>4

\* A connection more, or another entry for one of them.
LEMMA EntryAdded ==
  ASSUME NEW n \in Nat, NEW s, NEW t, NEW e, s = [c \in 1 .. n |-> s[c]],
         t = [c \in 1 .. n + 1 |-> t[c]], \A c \in 1 .. n : t[c] = s[c], t[n + 1] = e
  PROVE  t = Append(s, e)
<1> DEFINE S == {s[c] : c \in 1 .. n}
<1>1. s \in Seq(S) /\ Len(s) = n
  OBVIOUS
<1>2. Append(s, e) = [c \in 1 .. n + 1 |-> Append(s, e)[c]]
  BY <1>1
<1>3. \A c \in 1 .. n : Append(s, e)[c] = s[c]
  BY <1>1
<1>4. Append(s, e)[n + 1] = e
  BY <1>1
<1>5. \A c \in 1 .. n + 1 : c \in 1 .. n \/ c = n + 1
  OBVIOUS
<1> QED
  BY <1>2, <1>3, <1>4, <1>5

LEMMA EntryChanged ==
  ASSUME NEW D, NEW s, NEW t, NEW c \in D, NEW e, s = [d \in D |-> s[d]],
         t = [d \in D |-> t[d]], \A d \in D : d # c => t[d] = s[d], t[c] = e
  PROVE  t = [s EXCEPT ![c] = e]
OBVIOUS

-----------------------------------------------------------------------------
(* The datagrams a task has in hand *)

Holds(p) == \E l \in Listener : at[l] \in {"lookup", "write"} /\ payload[l].from = p

InHandOK == OneListener => \A p \in Peer : InHand(p) = IF Holds(p) THEN 1 ELSE 0

LEMMA InHandHolds == InHandOK
<1> SUFFICES ASSUME OneListener, NEW p \in Peer PROVE InHand(p) = IF Holds(p) THEN 1 ELSE 0
  BY DEF InHandOK
<1> DEFINE L == {l \in Listener : at[l] \in {"lookup", "write"} /\ payload[l].from = p}
<1>1. CASE Holds(p)
  <2>1. PICK l \in L : TRUE
    BY <1>1 DEF Holds
  <2>2. L = {l}
    BY <2>1 DEF OneListener
  <2> HIDE DEF L
  <2>3. Cardinality(L) = 1
    BY <2>2, FS_Singleton
  <2> QED
    BY <1>1, <2>3 DEF InHand, L
<1>2. CASE ~ Holds(p)
  <2>1. L = {}
    BY <1>2 DEF Holds
  <2> HIDE DEF L
  <2>2. Cardinality(L) = 0
    BY <2>1, FS_EmptySet
  <2> QED
    BY <1>2, <2>2 DEF InHand, L
<1> QED
  BY <1>1, <1>2

Last == [p \in Peer |-> arrived[p] - InHand(p)]

LastIs == OneListener => \A p \in Peer : Last[p] = arrived[p] - (IF Holds(p) THEN 1 ELSE 0)

LEMMA LastHolds == LastIs
  BY InHandHolds DEF LastIs, InHandOK, Last

\* All that has arrived is either told to the service or in hand.
LEMMA LastStays ==
  ASSUME OneListener, \A p \in Peer : arrived'[p] = arrived[p] /\ (Holds(p)' <=> Holds(p))
  PROVE  Last' = Last
  <1>1. LastIs /\ LastIs'
    BY LastHolds, PTL
  <1>2. \A p \in Peer : Last'[p] = Last[p]
    BY <1>1 DEF LastIs
  <1>3. Last = [p \in Peer |-> Last[p]] /\ Last' = [p \in Peer |-> Last'[p]]
    BY DEF Last
  <1> QED
    BY <1>2, <1>3

LEMMA LastCounts ==
  ASSUME OneListener, TypeOK, NEW q \in Peer,
         \A p \in Peer \ {q} : arrived'[p] = arrived[p] /\ (Holds(p)' <=> Holds(p)),
         \/ arrived'[q] = arrived[q] + 1 /\ (Holds(q)' <=> Holds(q))
         \/ arrived'[q] = arrived[q] /\ Holds(q) /\ ~ Holds(q)'
  PROVE  Last' = [Last EXCEPT ![q] = @ + 1]
  <1>1. LastIs /\ LastIs'
    BY LastHolds, PTL
  <1>2. \A p \in Peer \ {q} : Last'[p] = Last[p]
    BY <1>1 DEF LastIs
  <1>3. arrived[q] \in Nat
    BY DEF TypeOK
  <1>4. Last'[q] = Last[q] + 1
    BY <1>1, <1>3 DEF LastIs
  <1>5. Last = [p \in Peer |-> Last[p]] /\ Last' = [p \in Peer |-> Last'[p]]
    BY DEF Last
  <1> QED
    BY <1>2, <1>4, <1>5

-----------------------------------------------------------------------------
(* The steps the application does not see *)

ServiceView == <<ServiceConns, Last, events>>

LEMMA ConnsStay ==
  ASSUME Entries, Entries', Conn' = Conn, \A c \in Conn : Unchanged(c)
  PROVE  ServiceConns' = ServiceConns
  <1>1. \A c \in Conn : ServiceConns'[c] = ServiceConns[c]
    BY UnchangedEntry
  <1>2. /\ ServiceConns = [c \in Conn |-> ServiceConns[c]]
        /\ ServiceConns' = [c \in Conn' |-> ServiceConns'[c]]
    BY DEF Entries
  <1> QED
    BY <1>1, <1>2

\* Nothing happens to any connection.
Quiet ==
  /\ UNCHANGED <<conns, connections, removed>>
  /\ Waiting' = Waiting

LEMMA QuietStep ==
  ASSUME Entries, Entries', Quiet
  PROVE  ServiceConns' = ServiceConns
  BY ConnsStay DEF Quiet, Unchanged, Conn

LEMMA Stutters ==
  ASSUME OneListener, OneInv, Entries, Entries',
         \/ \E l \in Listener : Listen(l) \/ NeedsNewChannel(l) \/ StoreChannel(l)
         \/ \E l \in Listener, a \in Addr, b \in Bodies : ServerReceive(l, a, b)
         \/ SetChannelsBuilder \/ DrainPending \/ FinishReceive
         \/ \E h \in Handle : ReceiveNothing(h)
         \/ \E S \in SUBSET Open : FindSilent(S)
         \/ UNCHANGED vars
  PROVE  UNCHANGED ServiceView
<1> DEFINE Goal == UNCHANGED ServiceView
<1>a. TypeOK /\ SystemInv
  BY DEF OneInv
\* A step that leaves the tasks alone.
<1>b. ASSUME Quiet, UNCHANGED <<listenerVars, arrived, events>> PROVE Goal
  <2>1. \A p \in Peer : Holds(p)' <=> Holds(p)
    BY <1>b DEF Holds, listenerVars
  <2>2. Last' = Last
    BY <1>b, <2>1, LastStays
  <2> QED
    BY <1>b, <2>2, QuietStep DEF ServiceView
<1>1. ASSUME NEW l \in Listener, Listen(l) \/ NeedsNewChannel(l) \/ StoreChannel(l) PROVE Goal
  <2>1. Quiet /\ UNCHANGED <<arrived, events>>
    BY <1>1 DEF Listen, NeedsNewChannel, StoreChannel, sharedVars, tableVars, systemVars,
                Quiet, Waiting
  <2>2. \A k \in Listener : k = l
    BY DEF OneListener
  <2>3. /\ at[l] \in {"lookup", "write"} <=> at'[l] \in {"lookup", "write"}
        /\ at[l] \in {"lookup", "write"} => payload'[l] = payload[l]
    BY <1>1, <1>a DEF Listen, NeedsNewChannel, StoreChannel, TypeOK
  <2>4. \A p \in Peer : Holds(p)' <=> Holds(p)
    BY <2>2, <2>3 DEF Holds
  <2>5. Last' = Last
    BY <2>1, <2>4, LastStays
  <2> QED
    BY <2>1, <2>5, QuietStep DEF ServiceView
<1>2. ASSUME NEW l \in Listener, NEW a \in Addr, NEW b \in Bodies, ServerReceive(l, a, b)
      PROVE Goal
  <2>1. Quiet /\ UNCHANGED events
    BY <1>2 DEF ServerReceive, sharedVars, tableVars, systemVars, Quiet, Waiting
  <2>2. \A k \in Listener : k = l
    BY DEF OneListener
  <2>3. /\ at[l] = "receive" /\ at'[l] = "lookup" /\ payload'[l].from = a
        /\ arrived' = [arrived EXCEPT ![a] = @ + 1] /\ a \in Peer
    BY <1>2, <1>a DEF ServerReceive, TypeOK, Peer
  <2>4. \A p \in Peer : ~ Holds(p) /\ (Holds(p)' <=> p = a)
    BY <2>2, <2>3 DEF Holds
  <2>5. LastIs /\ LastIs'
    BY LastHolds, PTL
  <2>6. \A p \in Peer :
          arrived[p] \in Nat /\ arrived'[p] = IF p = a THEN arrived[p] + 1 ELSE arrived[p]
    BY <2>3, <1>a DEF TypeOK
  <2>7. \A p \in Peer : Last'[p] = Last[p]
    <3> SUFFICES ASSUME NEW p \in Peer PROVE Last'[p] = Last[p]
      OBVIOUS
    <3>1. CASE p = a
      <4>1. Last[p] = arrived[p] - 0 /\ Last'[p] = (arrived[p] + 1) - 1
        BY <2>4, <2>5, <2>6, <3>1 DEF LastIs
      <4> QED
        BY <2>6, <4>1
    <3>2. CASE p # a
      BY <2>4, <2>5, <2>6, <3>2 DEF LastIs
    <3> QED
      BY <3>1, <3>2
  <2>8. Last = [p \in Peer |-> Last[p]] /\ Last' = [p \in Peer |-> Last'[p]]
    BY DEF Last
  <2> QED
    BY <2>1, <2>7, <2>8, QuietStep DEF ServiceView
<1>3. CASE SetChannelsBuilder \/ FinishReceive
  BY <1>3, <1>b DEF SetChannelsBuilder, FinishReceive, sharedVars, tableVars, systemVars,
                    Quiet, Waiting
<1>4. CASE DrainPending
  <2>1. Waiting' = Waiting
    BY <1>4, <1>a, RangeOfEmpty DEF DrainPending, SystemInv, Waiting
  <2> QED
    BY <1>4, <1>b, <2>1 DEF DrainPending, tableVars, Quiet
<1>5. ASSUME NEW h \in Handle, ReceiveNothing(h) PROVE Goal
  BY <1>5, <1>b DEF ReceiveNothing, sharedVars, tableVars, Quiet, Waiting
<1>6. ASSUME NEW S \in SUBSET Open, FindSilent(S) PROVE Goal
  BY <1>6, <1>b DEF FindSilent, sharedVars, tableVars, Quiet, Waiting
<1>7. CASE UNCHANGED vars
  BY <1>7, <1>b DEF vars, sharedVars, listenerVars, tableVars, systemVars, Quiet, Waiting
<1> QED
  BY <1>1, <1>2, <1>3, <1>4, <1>5, <1>6, <1>7

-----------------------------------------------------------------------------
(* How one connection's entry follows what happens to it *)

LEMMA SeenFields ==
  ASSUME NEW p, NEW s, NEW h, NEW i
  PROVE  LET e == Seen(p, s, h, i)
         IN  /\ e.peer = p /\ e.status = s /\ e.handle = h /\ e.inbox = i
             /\ \A j : [e EXCEPT !.inbox = j] = Seen(p, s, h, j)
  BY DEF Seen

\* The entry tells the peer, the owner and what is in the channel.
Tells(c) ==
  LET e == ServiceConns[c]
  IN  /\ e = Seen(e.peer, e.status, e.handle, e.inbox)
      /\ e.peer = conns[c].peer
      /\ e.status = "waiting" <=> c \in Waiting
      /\ e.status = "closed" <=> c \notin Alive
      /\ c \in Alive => e.inbox = conns[c].rx
      /\ \A h \in Handle : e.handle = h <=> connections[h] = c
      /\ \A h \in Handle : connections[h] = c => e.status = "open"

LEMMA EntryTells ==
  ASSUME OneInv, Entries, NEW c \in Conn
  PROVE  Tells(c)
<1>a. c # NoConn /\ \A h \in Handle : h # NoHandle
  BY NetworkAssumption DEF Conn, NoConn, OneInv, TypeOK, Handle, NoHandle, NetworkAssumption
<1>b. c \in Waiting => c \in Alive /\ \A h \in Handle : connections[h] # c
  BY DEF OneInv, OwnerInv, Alive, ReceiverAlive, Live, Waiting
<1>c. removed = c => c \in Alive /\ c \notin Waiting /\ \A h \in Handle : connections[h] # c
  BY <1>a DEF OneInv, OwnerInv, Alive, ReceiverAlive
<1>d. \A h \in Handle : connections[h] = c =>
        c \in Alive /\ c \notin Waiting /\ \A k \in Handle : connections[k] = c => k = h
  BY <1>a DEF OneInv, OwnerInv, Alive, ReceiverAlive, Live, Registered
<1>e. c \notin Alive => c \notin Waiting /\ \A h \in Handle : connections[h] # c
  BY <1>b, <1>d
<1>1. CASE c \in Waiting
  <2>1. ServiceConns[c] = Seen(conns[c].peer, "waiting", NoHandle, conns[c].rx)
    BY <1>1 DEF Entries
  <2> QED
    BY <1>1, <1>a, <1>b, <2>1, SeenFields DEF Tells
<1>2. ASSUME NEW h \in Handle, connections[h] = c PROVE Tells(c)
  <2>1. ServiceConns[c] = Seen(conns[c].peer, "open", h, conns[c].rx)
    BY <1>2 DEF Entries
  <2> QED
    BY <1>2, <1>a, <1>d, <2>1, SeenFields DEF Tells
<1>3. CASE removed = c
  <2>1. ServiceConns[c] = Seen(conns[c].peer, "closing", NoHandle, conns[c].rx)
    BY <1>3 DEF Entries
  <2> QED
    BY <1>3, <1>a, <1>c, <2>1, SeenFields DEF Tells
<1>4. CASE c \notin Alive
  <2>1. ServiceConns[c] = Seen(conns[c].peer, "closed", NoHandle, <<>>)
    BY <1>4 DEF Entries
  <2> QED
    BY <1>4, <1>a, <1>e, <2>1, SeenFields DEF Tells
<1> QED
  BY <1>1, <1>2, <1>3, <1>4 DEF Alive, ReceiverAlive, Live, Waiting, Registered

\* A connection is made and waits.
LEMMA MadeEntry ==
  ASSUME OneInv, Entries, Entries', NEW r \in ConnObject, conns' = Append(conns, r),
         pending_connections' = Append(pending_connections, Len(conns) + 1),
         UNCHANGED <<batch, connections, removed>>
  PROVE  ServiceConns' = Append(ServiceConns, Seen(r.peer, "waiting", NoHandle, r.rx))
<1> DEFINE n == Len(conns)
           x == n + 1
<1>1. n \in Nat /\ x \in Nat /\ Conn = 1 .. n /\ Conn' = 1 .. n + 1 /\ x \notin Conn
  BY DEF Conn, OneInv, TypeOK
<1>2. conns'[x] = r /\ \A c \in Conn : conns'[c] = conns[c] /\ c # x /\ c \in Conn'
  BY <1>1 DEF OneInv, TypeOK
<1>3. pending_connections \in Seq(Nat)
  BY SeqMonotonic DEF OneInv, TypeOK, Conn
<1>4. Waiting' = Waiting \cup {x}
  BY <1>1, <1>3, RangeOfAppend DEF Waiting
<1>5. \A c \in Conn : Unchanged(c)
  BY <1>2, <1>4 DEF Unchanged
<1>6. \A c \in 1 .. n : ServiceConns'[c] = ServiceConns[c]
  BY <1>1, <1>2, <1>5, UnchangedEntry
<1>7. ServiceConns'[x] = Seen(r.peer, "waiting", NoHandle, r.rx)
  BY <1>1, <1>2, <1>4 DEF Entries
<1>8. /\ ServiceConns = [c \in 1 .. n |-> ServiceConns[c]]
      /\ ServiceConns' = [c \in 1 .. n + 1 |-> ServiceConns'[c]]
  BY <1>1 DEF Entries
<1> HIDE DEF n
<1> QED
  BY <1>1, <1>6, <1>7, <1>8, EntryAdded

\* Something happens to one connection only.
LEMMA OneChanges ==
  ASSUME Entries, Entries', Conn' = Conn, NEW c \in Conn, NEW e,
         \A d \in Conn : d # c => Unchanged(d), ServiceConns'[c] = e
  PROVE  ServiceConns' = [ServiceConns EXCEPT ![c] = e]
  <1>1. \A d \in Conn : d # c => ServiceConns'[d] = ServiceConns[d]
    BY UnchangedEntry
  <1>2. /\ ServiceConns = [d \in Conn |-> ServiceConns[d]]
        /\ ServiceConns' = [d \in Conn |-> ServiceConns'[d]]
    BY DEF Entries
  <1> QED
    BY <1>1, <1>2, EntryChanged

\* The channel of one connection changes.
LEMMA RxStep ==
  ASSUME OneInv, Entries, Entries', NEW c \in Alive, NEW q \in Seq(Packet),
         conns' = [conns EXCEPT ![c].rx = q],
         UNCHANGED <<pending_connections, batch, connections, removed>>
  PROVE  /\ ServiceConns' = [ServiceConns EXCEPT ![c].inbox = q]
         /\ ServiceConns[c].inbox = conns[c].rx
<1>1. c \in Conn /\ Conn' = Conn /\ Waiting' = Waiting /\ Alive' = Alive
  BY DEF Alive, ReceiverAlive, Live, Registered, Conn, Waiting, OneInv, TypeOK
<1>2. conns[c] \in ConnObject
  BY <1>1 DEF Conn, OneInv, TypeOK
<1>3. /\ conns'[c].rx = q /\ conns'[c].peer = conns[c].peer
      /\ \A d \in Conn : d # c => conns'[d] = conns[d]
  BY <1>1, <1>2 DEF Conn, OneInv, TypeOK, ConnObject
<1>4. \A d \in Conn : d # c => Unchanged(d)
  BY <1>1, <1>3 DEF Unchanged
<1>5. Tells(c)
  BY <1>1, EntryTells
<1> DEFINE e == ServiceConns[c]
<1>6. ServiceConns'[c] = Seen(e.peer, e.status, e.handle, q)
  <2>1. CASE c \in Waiting
    <3>1. e = Seen(conns[c].peer, "waiting", NoHandle, conns[c].rx)
      BY <1>1, <2>1 DEF Entries
    <3>2. ServiceConns'[c] = Seen(conns[c].peer, "waiting", NoHandle, q)
      BY <1>1, <1>3, <2>1 DEF Entries
    <3> QED
      BY <3>1, <3>2, SeenFields
  <2>2. ASSUME NEW h \in Handle, connections[h] = c
        PROVE  ServiceConns'[c] = Seen(e.peer, e.status, e.handle, q)
    <3>1. e = Seen(conns[c].peer, "open", h, conns[c].rx)
      BY <1>1, <2>2 DEF Entries
    <3>2. ServiceConns'[c] = Seen(conns[c].peer, "open", h, q)
      BY <1>1, <1>3, <2>2 DEF Entries
    <3> QED
      BY <3>1, <3>2, SeenFields
  <2>3. CASE removed = c
    <3>1. e = Seen(conns[c].peer, "closing", NoHandle, conns[c].rx)
      BY <1>1, <2>3 DEF Entries
    <3>2. ServiceConns'[c] = Seen(conns[c].peer, "closing", NoHandle, q)
      BY <1>1, <1>3, <2>3 DEF Entries
    <3> QED
      BY <3>1, <3>2, SeenFields
  <2> QED
    BY <2>1, <2>2, <2>3 DEF Alive, ReceiverAlive, Live, Waiting, Registered
<1>7. ServiceConns'[c] = [e EXCEPT !.inbox = q]
  BY <1>5, <1>6, SeenFields DEF Tells
<1>8. ServiceConns' = [ServiceConns EXCEPT ![c] = [e EXCEPT !.inbox = q]]
  BY <1>1, <1>4, <1>7, OneChanges
<1> QED
  BY <1>5, <1>8 DEF Tells

-----------------------------------------------------------------------------
(* Each step of the registry the application sees is one of the service *)

LEMMA PushAccepts ==
  ASSUME OneListener, OneInv, SeqInv, Entries, Entries',
         NEW l \in Listener, PushConnection(l)
  PROVE  \E a \in Addr, b \in Bodies : Service!Accept(a, b)
<1> DEFINE p == payload[l]
           a == p.from
<1>1. /\ at[l] = "write" /\ at'[l] = "insert" /\ UNCHANGED <<payload, arrived, events>>
      /\ UNCHANGED <<batch, connections, removed>>
      /\ conns' = Append(conns, ServerConnection(p))
      /\ pending_connections' = Append(pending_connections, Len(conns) + 1)
  BY DEF PushConnection, tableVars, systemVars, OneInv, TypeOK
<1>2. /\ p \in Packet /\ a \in Addr /\ a \in Peer /\ p.body \in Bodies
      /\ p.seq = arrived[a] /\ arrived[a] \in Nat
  BY <1>1 DEF OneInv, TypeOK, ListenerInv, TaskInv, SeqInv, Peer
<1>3. \A k \in Listener : k = l
  BY DEF OneListener
<1>4. Holds(a) /\ \A q \in Peer : ~ Holds(q)' /\ (Holds(q) => q = a)
  BY <1>1, <1>3 DEF Holds
<1>5. Last' = [Last EXCEPT ![a] = @ + 1]
  BY <1>1, <1>2, <1>4, LastCounts DEF OneInv
<1>6. Last[a] + 1 = p.seq
  <2>1. LastIs
    BY LastHolds
  <2> QED
    BY <1>2, <1>4, <2>1 DEF LastIs
<1>7. p = [from |-> a, seq |-> Last[a] + 1, body |-> p.body]
  BY <1>2, <1>6 DEF Packet
<1>8. ServiceConns' = Append(ServiceConns, Seen(a, "waiting", NoHandle, <<p>>))
  <2> DEFINE r == ServerConnection(p)
  <2>1. r \in ConnObject /\ r.peer = a /\ r.rx = <<p>>
    BY <1>2 DEF ServerConnection, ConnObject
  <2> HIDE DEF r
  <2>2. ServiceConns' = Append(ServiceConns, Seen(r.peer, "waiting", NoHandle, r.rx))
    BY <1>1, <2>1, MadeEntry DEF r
  <2> QED
    BY <2>1, <2>2
<1>9. \A c \in DOMAIN ServiceConns :
        ServiceConns[c].peer = a => ServiceConns[c].status = "closed"
  <2>1. DOMAIN ServiceConns = Conn
    BY DEF Entries
  <2>2. \A c \in Conn : conns[c].peer = a => c \notin Alive
    BY <1>1 DEF OneInv, WindowInv
  <2> QED
    BY <2>1, <2>2, EntryTells DEF Tells
<1>10. PICK x \in Addr, b \in Bodies : x = a /\ b = p.body
  BY <1>2
<1>11. Service!Accept(x, b)
  BY <1>1, <1>5, <1>7, <1>8, <1>9, <1>10
     DEF Service!Accept, Service!Message, Service!Count, Service!NoHandle, Last, Seen, NoHandle
<1> QED
  BY <1>11

LEMMA ConnectDials ==
  ASSUME OneListener, OneInv, Entries, Entries', Connect
  PROVE  Service!Dial
<1> DEFINE r == [peer |-> Server, rx |-> <<>>, channels |-> FALSE]
<1>1. /\ UNCHANGED <<listenerVars, arrived, events>>
      /\ UNCHANGED <<batch, connections, removed>>
      /\ conns' = Append(conns, r)
      /\ pending_connections' = Append(pending_connections, Len(conns) + 1)
  BY DEF Connect, tableVars, systemVars
<1>2. r \in ConnObject /\ r.peer = Server /\ r.rx = <<>>
  BY DEF ConnObject, Peer
<1> HIDE DEF r
<1>3. ServiceConns' = Append(ServiceConns, Seen(Server, "waiting", NoHandle, <<>>))
  BY <1>1, <1>2, MadeEntry
<1>4. Last' = Last
  <2>1. \A p \in Peer : Holds(p)' <=> Holds(p)
    BY <1>1 DEF Holds, listenerVars
  <2> QED
    BY <1>1, <2>1, LastStays
<1> QED
  BY <1>1, <1>3, <1>4 DEF Service!Dial, Service!NoHandle, Last, Seen, NoHandle

LEMMA ForwardEnqueues ==
  ASSUME OneListener, OneInv, AddressInv, SeqInv, Entries, Entries',
         NEW l \in Listener, Forward(l)
  PROVE  \E c \in DOMAIN ServiceConns, b \in Bodies \cup {"error"} : Service!Enqueue(c, b)
<1> DEFINE p == payload[l]
           a == p.from
           c == server_channels[a]
<1>1. /\ at[l] = "lookup" /\ at'[l] = "receive" /\ UNCHANGED <<arrived, events>>
      /\ UNCHANGED <<pending_connections, batch, connections, removed>>
      /\ CanForward(l)
      /\ conns' = [conns EXCEPT ![c].rx = Append(conns[c].rx, p)]
  BY DEF Forward, tableVars, systemVars, OneInv, TypeOK
<1>2. /\ p \in Packet /\ a \in Addr /\ a \in Peer /\ p.body \in Bodies
      /\ p.seq = arrived[a] /\ arrived[a] \in Nat
  BY <1>1 DEF OneInv, TypeOK, ListenerInv, TaskInv, SeqInv, Peer
<1>3. c \in Conn /\ c \in Alive /\ conns[c].peer = a
  BY <1>1, <1>2 DEF CanForward, Alive, AddressInv, OneInv, TypeOK
<1>4. Append(conns[c].rx, p) \in Seq(Packet)
  BY <1>2, <1>3, ConnFields DEF OneInv, TypeOK, Conn
<1>5. \A k \in Listener : k = l
  BY DEF OneListener
<1>6. Holds(a) /\ \A q \in Peer : ~ Holds(q)' /\ (Holds(q) => q = a)
  BY <1>1, <1>5 DEF Holds
<1>7. Last' = [Last EXCEPT ![a] = @ + 1]
  BY <1>1, <1>2, <1>6, LastCounts DEF OneInv
<1>8. Last[a] + 1 = p.seq
  <2>1. LastIs
    BY LastHolds
  <2> QED
    BY <1>2, <1>6, <2>1 DEF LastIs
<1>9. p = [from |-> a, seq |-> Last[a] + 1, body |-> p.body]
  BY <1>2, <1>8 DEF Packet
<1>10. Tells(c) /\ DOMAIN ServiceConns = Conn
  BY <1>3, EntryTells DEF Entries
<1> HIDE DEF c
<1>11. /\ ServiceConns' = [ServiceConns EXCEPT ![c].inbox = Append(conns[c].rx, p)]
       /\ ServiceConns[c].inbox = conns[c].rx
  BY <1>1, <1>3, <1>4, RxStep DEF c
<1>12. ServiceConns[c].peer = a /\ ServiceConns[c].status # "closed"
  BY <1>3, <1>10 DEF Tells
<1>13. PICK x \in Conn, b \in Bodies : x = c /\ b = p.body
  BY <1>2, <1>3
<1>14. Service!Enqueue(x, b)
  BY <1>1, <1>7, <1>9, <1>11, <1>12, <1>13
     DEF Service!Enqueue, Service!Message, Service!Count, Last
<1> QED
  BY <1>10, <1>14

LEMMA SocketEnqueues ==
  ASSUME OneListener, OneInv, Entries, Entries',
         NEW c \in Conn, NEW b \in Bodies \cup {"error"}, SocketArrival(c, b)
  PROVE  c \in DOMAIN ServiceConns /\ Service!Enqueue(c, b)
<1> DEFINE p == [from |-> Server, seq |-> arrived[Server] + 1, body |-> b]
<1>1. /\ UNCHANGED <<listenerVars, events>>
      /\ UNCHANGED <<pending_connections, batch, connections, removed>>
      /\ conns' = [conns EXCEPT ![c].rx = Append(conns[c].rx, p)]
      /\ arrived' = [arrived EXCEPT ![Server] = @ + 1]
  BY DEF SocketArrival, tableVars, systemVars
<1>2. c \in Alive /\ conns[c].peer = Server
  BY DEF SocketArrival, FromClient, Alive
<1>3. Server \in Peer /\ arrived[Server] \in Nat
  BY DEF Peer, OneInv, TypeOK
<1>4. Append(conns[c].rx, p) \in Seq(Packet)
  <2>1. p \in Packet
    BY <1>3, NewPacketTyped
  <2> HIDE DEF p
  <2> QED
    BY <2>1, ConnFields DEF OneInv, TypeOK, Conn
<1>5. \A q \in Peer : Holds(q)' <=> Holds(q)
  BY <1>1 DEF Holds, listenerVars
<1>6. ~ Holds(Server)
  BY NetworkAssumption DEF Holds, OneInv, ListenerInv, TaskInv, NetworkAssumption
<1>7. Last' = [Last EXCEPT ![Server] = @ + 1]
  <2>1. /\ arrived'[Server] = arrived[Server] + 1
        /\ \A q \in Peer \ {Server} : arrived'[q] = arrived[q]
    BY <1>1, <1>3 DEF OneInv, TypeOK
  <2> QED
    BY <1>3, <1>5, <2>1, LastCounts DEF OneInv
<1>8. Last[Server] = arrived[Server]
  <2>1. LastIs
    BY LastHolds
  <2> QED
    BY <1>3, <1>6, <2>1 DEF LastIs
<1>9. Tells(c) /\ DOMAIN ServiceConns = Conn
  BY EntryTells DEF Entries
<1>10. p = [from |-> Server, seq |-> Last[Server] + 1, body |-> b]
  BY <1>8
<1> HIDE DEF p
<1>11. /\ ServiceConns' = [ServiceConns EXCEPT ![c].inbox = Append(conns[c].rx, p)]
       /\ ServiceConns[c].inbox = conns[c].rx
  BY <1>1, <1>2, <1>4, RxStep
<1>12. ServiceConns[c].peer = Server /\ ServiceConns[c].status # "closed"
  BY <1>2, <1>9 DEF Tells
<1>13. Service!Enqueue(c, b)
  BY <1>1, <1>7, <1>10, <1>11, <1>12
     DEF Service!Enqueue, Service!Message, Service!Count, Last
<1> QED
  BY <1>9, <1>13

\* The tasks do nothing.
LEMMA TasksRest ==
  ASSUME OneListener, UNCHANGED <<listenerVars, arrived>>
  PROVE  Last' = Last
  <1>1. \A p \in Peer : Holds(p)' <=> Holds(p)
    BY DEF Holds, listenerVars
  <1> QED
    BY <1>1, LastStays

\* The first of the batch is the one that waits longest.
LEMMA HeadWaitsLongest ==
  ASSUME OneInv, OrderInv, batch # <<>>
  PROVE  /\ Head(batch) \in Waiting /\ Head(batch) \in Conn
         /\ \A d \in Waiting : d = Head(batch) \/ Head(batch) < d
  <1>1. batch \in Seq(Conn) /\ batch \in Seq(Nat)
    BY SeqMonotonic DEF OneInv, TypeOK, Conn
  <1>2. Range(batch) = Range(Tail(batch)) \cup {Head(batch)}
    BY <1>1, RangeOfTail
  <1>3. \A d \in Range(Tail(batch)) : Head(batch) < d
    BY <1>1, IncreasingOfTail DEF OrderInv
  <1>4. \A d \in Range(pending_connections) : Head(batch) < d
    BY <1>2 DEF OrderInv
  <1> QED
    BY <1>1, <1>2, <1>3, <1>4, HeadTailProperties DEF Waiting

LEMMA RegisterOpens ==
  ASSUME OneListener, OneInv, OneInv', OrderInv, Entries, Entries', Register
  PROVE  \E c \in DOMAIN ServiceConns : \E h \in Handle : Service!Open(c, h)
<1>1. PICK c \in Conn, h \in Handle : c = Head(batch) /\ h = connection_sequence
  BY HeadTailProperties DEF Register, OneInv, TypeOK
<1>2. /\ batch # <<>> /\ batch' = Tail(batch) /\ removed = NoConn
      /\ UNCHANGED <<pending_connections, listenerVars, removed, arrived>>
      /\ conns' = [conns EXCEPT ![c].channels = channels_builder]
      /\ connections' = [connections EXCEPT ![h] = c]
      /\ events' = <<Connected(h)>>
  BY <1>1 DEF Register, OneInv, SystemInv
<1>3. /\ c \in Waiting /\ \A d \in Waiting : d = c \/ c < d
  BY <1>1, <1>2, HeadWaitsLongest
<1>4. Waiting = Waiting' \cup {c} /\ c \notin Waiting'
  <2>1. Range(batch) = Range(batch') \cup {c}
    BY <1>1, <1>2, RangeOfTail DEF OneInv, TypeOK
  <2>2. c \notin Range(batch')
    BY <1>1, <1>2, NoRepeatsOfTail DEF OneInv, TypeOK, OwnerInv
  <2>3. c \notin Range(pending_connections)
    BY <2>1 DEF OneInv, OwnerInv
  <2> QED
    BY <1>2, <2>1, <2>2, <2>3 DEF Waiting
<1>5. conns[c] \in ConnObject /\ conns \in Seq(ConnObject) /\ c \in 1 .. Len(conns)
  BY DEF OneInv, TypeOK, Conn
<1>6. /\ Conn' = Conn /\ \A d \in Conn : d # c => conns'[d] = conns[d]
      /\ conns'[c].peer = conns[c].peer /\ conns'[c].rx = conns[c].rx
  BY <1>2, <1>5 DEF Conn, ConnObject
<1>7. \A k \in Handle : connections'[k] = IF k = h THEN c ELSE connections[k]
  BY <1>2 DEF OneInv, TypeOK
<1>8. /\ DOMAIN ServiceConns = Conn
      /\ ServiceConns' = [d \in Conn |-> ServiceConns'[d]]
      /\ \A d \in Conn : Tells(d)
  BY <1>6, EntryTells DEF Entries
<1>9. ServiceConns'[c] = [ServiceConns[c] EXCEPT !.status = "open", !.handle = h]
  <2>1. ServiceConns[c] = Seen(conns[c].peer, "waiting", NoHandle, conns[c].rx)
    BY <1>3 DEF Entries
  <2>2. ServiceConns'[c] = Seen(conns[c].peer, "open", h, conns[c].rx)
    BY <1>6, <1>7 DEF Entries
  <2> DEFINE e == ServiceConns[c]
             p == conns[c].peer
             i == conns[c].rx
  <2>3. [e EXCEPT !.status = "open"] = Seen(p, "open", NoHandle, i)
    BY <2>1 DEF Seen
  <2>4. [Seen(p, "open", NoHandle, i) EXCEPT !.handle = h] = Seen(p, "open", h, i)
    BY DEF Seen
  <2>5. [e EXCEPT !.status = "open", !.handle = h]
          = [[e EXCEPT !.status = "open"] EXCEPT !.handle = h]
    OBVIOUS
  <2> QED
    BY <2>2, <2>3, <2>4, <2>5
\* Who had the handle is dropped.
<1>10. ASSUME NEW d \in Conn, d # c, ServiceConns[d].handle = h
       PROVE  ServiceConns'[d] = [ServiceConns[d] EXCEPT
                                    !.status = "closed", !.handle = NoHandle, !.inbox = <<>>]
  <2>1. connections[h] = d /\ d # NoConn
    BY <1>8, <1>10 DEF Tells, Conn, NoConn
  <2>2. ServiceConns[d] = Seen(conns[d].peer, "open", h, conns[d].rx)
    BY <2>1 DEF Entries
  <2>3. d \notin Waiting' /\ removed' # d /\ \A k \in Handle : connections'[k] # d
    BY <1>2, <1>4, <1>7, <1>10, <2>1 DEF OneInv, OwnerInv
  <2>4. d \notin Alive'
    BY <2>3 DEF Alive, ReceiverAlive, Live, Registered, Waiting
  <2>5. ServiceConns'[d] = Seen(conns[d].peer, "closed", NoHandle, <<>>)
    BY <1>6, <1>10, <2>4 DEF Entries
  <2> DEFINE e == ServiceConns[d]
             p == conns[d].peer
             i == conns[d].rx
  <2>6. [e EXCEPT !.status = "closed"] = Seen(p, "closed", h, i)
    BY <2>2 DEF Seen
  <2>7. [Seen(p, "closed", h, i) EXCEPT !.handle = NoHandle] = Seen(p, "closed", NoHandle, i)
    BY DEF Seen
  <2>8. [Seen(p, "closed", NoHandle, i) EXCEPT !.inbox = <<>>]
          = Seen(p, "closed", NoHandle, <<>>)
    BY DEF Seen
  <2>9. [e EXCEPT !.status = "closed", !.handle = NoHandle, !.inbox = <<>>]
          = [[[e EXCEPT !.status = "closed"] EXCEPT !.handle = NoHandle] EXCEPT !.inbox = <<>>]
    OBVIOUS
  <2> QED
    BY <2>5, <2>6, <2>7, <2>8, <2>9
<1>11. ASSUME NEW d \in Conn, d # c, ServiceConns[d].handle # h
       PROVE  ServiceConns'[d] = ServiceConns[d]
  <2>1. connections[h] # d
    BY <1>8, <1>11 DEF Tells
  <2>2. Unchanged(d)
    BY <1>2, <1>4, <1>6, <1>7, <1>11, <2>1 DEF Unchanged
  <2> QED
    BY <1>6, <2>2, UnchangedEntry
<1>12. ServiceConns' = [d \in Conn |->
         IF d = c THEN [ServiceConns[c] EXCEPT !.status = "open", !.handle = h]
         ELSE IF ServiceConns[d].handle = h
         THEN [ServiceConns[d] EXCEPT !.status = "closed", !.handle = NoHandle, !.inbox = <<>>]
         ELSE ServiceConns[d]]
  BY <1>8, <1>9, <1>10, <1>11, Zenon
<1>13. /\ ServiceConns[c].status = "waiting"
       /\ \A d \in 1 .. c - 1 : ServiceConns[d].status # "waiting"
  <2>1. \A d \in 1 .. c - 1 : d \in Conn /\ d # c /\ ~ (c < d)
    BY <1>5 DEF Conn
  <2> QED
    BY <1>3, <1>8, <2>1 DEF Tells
<1>14. Last' = Last
  BY <1>2, TasksRest
<1>15. Service!Open(c, h)
  BY <1>2, <1>8, <1>12, <1>13, <1>14
     DEF Service!Open, Service!NoHandle, NoHandle, Connected, Last
<1> QED
  BY <1>8, <1>15

LEMMA ReceiveDelivers ==
  ASSUME OneListener, OneInv, Entries, Entries', NEW h \in Handle, ReceivePacket(h)
  PROVE  \E c \in DOMAIN ServiceConns : Service!Deliver(c)
<1>1. PICK c \in Conn : c = connections[h]
  BY DEF ReceivePacket, MayRead, Open, OneInv, TypeOK
<1> DEFINE p == Head(conns[c].rx)
<1>2. /\ conns[c].rx # <<>> /\ Dispatch(h, p, conns[c].channels)
      /\ conns' = [conns EXCEPT ![c].rx = Tail(conns[c].rx)]
      /\ UNCHANGED <<pending_connections, batch, connections, removed>>
      /\ UNCHANGED <<listenerVars, arrived>>
  BY <1>1 DEF ReceivePacket, tableVars
<1>3. c \in Alive
  BY <1>1 DEF Alive, ReceiverAlive, Live, Registered
<1>4. Tail(conns[c].rx) \in Seq(Packet)
  BY <1>2, ConnFields DEF OneInv, TypeOK, Conn
<1>5. ServiceConns[c] = Seen(conns[c].peer, "open", h, conns[c].rx)
  BY <1>1 DEF Entries
<1>6. /\ ServiceConns[c].status = "open" /\ ServiceConns[c].handle = h
      /\ ServiceConns[c].inbox = conns[c].rx
  BY <1>5 DEF Seen
<1>7. ServiceConns' = [ServiceConns EXCEPT ![c].inbox = Tail(conns[c].rx)]
  BY <1>2, <1>3, <1>4, RxStep
<1>8. Last' = Last
  BY <1>2, TasksRest
<1>9. \/ p.body = "heartbeat" /\ UNCHANGED events
      \/ p.body = "data" /\ events' = <<PacketEvent(h, p.seq)>>
      \/ p.body = "data" /\ events' = <<Passed(h, p.seq)>>
      \/ p.body = "data" /\ events' = <<Error(h, "TurbulenceChannelError")>>
      \/ p.body = "error" /\ events' = <<Error(h, "IoError")>>
  BY <1>2 DEF Dispatch
<1>10. Service!Deliver(c)
  BY <1>2, <1>6, <1>7, <1>8, <1>9 DEF Service!Deliver, PacketEvent, Passed, Error, Last
<1> QED
  BY <1>10 DEF Entries

\* A connection that is read has its Sender, so it never reports Disconnected.
LEMMA NeverDisconnected ==
  ASSUME OneInv, NEW h \in Handle
  PROVE  ~ ReceiveDisconnected(h)
<1> SUFFICES ASSUME ReceiveDisconnected(h) PROVE FALSE
  OBVIOUS
<1> DEFINE c == connections[h]
<1>1. c \in Conn /\ FromClient(c) /\ ~ SenderAlive(c)
  BY DEF ReceiveDisconnected, MayRead, Open, OneInv, TypeOK
<1>2. c \in Alive
  BY <1>1 DEF Alive, ReceiverAlive, Live, Registered
<1>3. conns[c].peer \in Addr
  BY <1>1, ConnFields DEF OneInv, TypeOK, Conn, FromClient, Peer
<1> QED
  BY <1>1, <1>2, <1>3 DEF OneInv, OrphanInv, SenderAlive

LEMMA TakingCloses ==
  ASSUME OneListener, OneInv, SilentInv, Entries, Entries', NEW h \in Handle,
         Disconnect(h) \/ IdleDisconnect(h)
  PROVE  \E c \in DOMAIN ServiceConns : Service!Close(c)
<1>1. h \in Open
  BY DEF Disconnect, IdleDisconnect, SilentInv
<1>2. PICK c \in Conn : c = connections[h]
  BY <1>1 DEF Open, OneInv, TypeOK
<1>3. /\ connections' = [connections EXCEPT ![h] = NoConn] /\ removed' = c
      /\ UNCHANGED <<conns, pending_connections, batch, listenerVars, arrived>>
      /\ removed = NoConn
      /\ \/ UNCHANGED events
         \/ events' = <<Error(h, "MissedHeartbeat"), Disconnected(h)>>
  BY <1>2 DEF Disconnect, IdleDisconnect, TakeFromTable, sharedVars, OneInv, SystemInv
<1>4. \A k \in Handle : connections'[k] = IF k = h THEN NoConn ELSE connections[k]
  BY <1>3 DEF OneInv, TypeOK
<1>5. Conn' = Conn /\ Waiting' = Waiting /\ \A d \in Conn : d # NoConn
  BY <1>3 DEF Conn, Waiting, NoConn
<1>6. \A d \in Conn : d # c => Unchanged(d)
  BY <1>2, <1>3, <1>4, <1>5 DEF Unchanged
<1>7. ServiceConns[c] = Seen(conns[c].peer, "open", h, conns[c].rx)
  BY <1>2 DEF Entries
<1>8. ServiceConns'[c] = Seen(conns[c].peer, "closing", NoHandle, conns[c].rx)
  BY <1>3, <1>5 DEF Entries
<1>9. ServiceConns' = [ServiceConns EXCEPT
                         ![c] = Seen(conns[c].peer, "closing", NoHandle, conns[c].rx)]
  BY <1>5, <1>6, <1>8, OneChanges
<1>10. DOMAIN ServiceConns = Conn /\ ServiceConns = [d \in Conn |-> ServiceConns[d]]
  BY DEF Entries
<1>11. ServiceConns' = [ServiceConns EXCEPT ![c].status = "closing", ![c].handle = NoHandle]
  <2> DEFINE e == ServiceConns[c]
             p == conns[c].peer
             i == conns[c].rx
  <2>1. [e EXCEPT !.status = "closing"] = Seen(p, "closing", h, i)
    BY <1>7 DEF Seen
  <2>2. [Seen(p, "closing", h, i) EXCEPT !.handle = NoHandle] = Seen(p, "closing", NoHandle, i)
    BY DEF Seen
  <2>3. [ServiceConns EXCEPT ![c].status = "closing", ![c].handle = NoHandle]
          = [ServiceConns EXCEPT ![c] =
               [[e EXCEPT !.status = "closing"] EXCEPT !.handle = NoHandle]]
    BY <1>10
  <2> QED
    BY <1>9, <2>1, <2>2, <2>3
<1>12. ServiceConns[c].status = "open" /\ ServiceConns[c].handle = h
  BY <1>7 DEF Seen
<1>13. Last' = Last
  BY <1>3, TasksRest
<1>14. Service!Close(c)
  BY <1>3, <1>11, <1>12, <1>13
     DEF Service!Close, Service!NoHandle, NoHandle, Error, Disconnected, Last
<1> QED
  BY <1>10, <1>14

LEMMA DropIsClosed ==
  ASSUME OneListener, OneInv, Entries, Entries', [Next]_vars, DropRemoved
  PROVE  \E c \in DOMAIN ServiceConns : Service!Closed(c)
<1>1. PICK c \in Conn : c = removed
  BY DEF DropRemoved, OneInv, TypeOK
<1>2. /\ removed' = NoConn /\ UNCHANGED <<conns, pending_connections, batch, connections>>
      /\ UNCHANGED <<listenerVars, arrived, events>>
  BY DEF DropRemoved, tableVars
<1>3. Conn' = Conn /\ Waiting' = Waiting /\ \A d \in Conn : d # NoConn
  BY <1>2 DEF Conn, Waiting, NoConn
<1>4. \A d \in Conn : d # c => Unchanged(d)
  BY <1>1, <1>2, <1>3 DEF Unchanged
<1>5. ServiceConns[c] = Seen(conns[c].peer, "closing", NoHandle, conns[c].rx)
  BY <1>1 DEF Entries
<1>6. c \notin Alive'
  BY <1>1, AliveGrows DEF OneInv
<1>7. ServiceConns'[c] = Seen(conns[c].peer, "closed", NoHandle, <<>>)
  BY <1>2, <1>3, <1>6 DEF Entries
<1>8. ServiceConns' = [ServiceConns EXCEPT
                         ![c] = Seen(conns[c].peer, "closed", NoHandle, <<>>)]
  BY <1>3, <1>4, <1>7, OneChanges
<1>9. DOMAIN ServiceConns = Conn /\ ServiceConns = [d \in Conn |-> ServiceConns[d]]
  BY DEF Entries
<1>10. ServiceConns' = [ServiceConns EXCEPT ![c].status = "closed", ![c].inbox = <<>>]
  <2> DEFINE e == ServiceConns[c]
             p == conns[c].peer
             i == conns[c].rx
  <2>1. [e EXCEPT !.status = "closed"] = Seen(p, "closed", NoHandle, i)
    BY <1>5 DEF Seen
  <2>2. [Seen(p, "closed", NoHandle, i) EXCEPT !.inbox = <<>>]
          = Seen(p, "closed", NoHandle, <<>>)
    BY DEF Seen
  <2>3. [ServiceConns EXCEPT ![c].status = "closed", ![c].inbox = <<>>]
          = [ServiceConns EXCEPT ![c] = [[e EXCEPT !.status = "closed"] EXCEPT !.inbox = <<>>]]
    BY <1>9
  <2> QED
    BY <1>8, <2>1, <2>2, <2>3
<1>11. ServiceConns[c].status = "closing"
  BY <1>5 DEF Seen
<1>12. Last' = Last
  BY <1>2, TasksRest
<1>13. Service!Closed(c)
  BY <1>2, <1>10, <1>11, <1>12 DEF Service!Closed, Last
<1> QED
  BY <1>9, <1>13

-----------------------------------------------------------------------------

LEMMA InitServes == Init => Service!Init
<1> SUFFICES ASSUME Init PROVE Service!Init
  OBVIOUS
<1>1. ServiceConns = <<>>
  <2>1. Conn = {}
    BY DEF Init, Conn
  <2> QED
    BY <2>1 DEF ServiceConns
<1>2. \A p \in Peer : InHand(p) = 0
  <2> SUFFICES ASSUME NEW p \in Peer PROVE InHand(p) = 0
    OBVIOUS
  <2> DEFINE L == {l \in Listener : at[l] \in {"lookup", "write"} /\ payload[l].from = p}
  <2>1. L = {}
    BY DEF Init
  <2> HIDE DEF L
  <2>2. Cardinality(L) = 0
    BY <2>1, FS_EmptySet
  <2> QED
    BY <2>2 DEF InHand, L
<1>3. \A p \in Peer : arrived[p] - InHand(p) = 0
  BY <1>2 DEF Init
<1> QED
  BY <1>1, <1>3 DEF Init, Service!Init, Service!Peer, Peer

LEMMA NextServes ==
  ASSUME OneListener
  PROVE  ServiceInv /\ ServiceInv' /\ [Next]_vars => [Service!Next]_(Service!vars)
<1> SUFFICES ASSUME ServiceInv, ServiceInv', [Next]_vars
             PROVE  Service!Next \/ UNCHANGED ServiceView
  BY DEF ServiceView, Service!vars, Last
<1> DEFINE Goal == Service!Next \/ UNCHANGED ServiceView
<1>a. /\ OneInv /\ AddressInv /\ OrderInv /\ SeqInv /\ SilentInv
      /\ OneInv'
  BY DEF ServiceInv
<1>b. Entries /\ Entries'
  BY <1>a, EntriesHold, PTL
<1> USE <1>a, <1>b
<1>1. ASSUME NEW l \in Listener, ListenerTask(l) PROVE Goal
  <2>1. CASE Forward(l)
    BY <2>1, ForwardEnqueues DEF Service!Next
  <2>2. CASE NeedsNewChannel(l) \/ StoreChannel(l)
    BY <2>2, Stutters
  <2>3. CASE PushConnection(l)
    BY <2>3, PushAccepts DEF Service!Next
  <2> QED
    BY <1>1, <2>1, <2>2, <2>3 DEF ListenerTask
<1>2. CASE Environment
  <2>1. ASSUME NEW l \in Listener, NEW a \in Addr, NEW b \in Bodies, ServerReceive(l, a, b)
        PROVE Goal
    BY <2>1, Stutters
  <2>2. ASSUME NEW c \in Conn, NEW b \in Bodies \cup {"error"}, SocketArrival(c, b)
        PROVE Goal
    BY <2>2, SocketEnqueues DEF Service!Next
  <2> QED
    BY <1>2, <2>1, <2>2 DEF Environment
<1>3. CASE Application
  <2>1. ASSUME NEW l \in Listener, Listen(l) PROVE Goal
    BY <2>1, Stutters
  <2>2. CASE SetChannelsBuilder
    BY <2>2, Stutters
  <2>3. CASE Connect
    BY <2>3, ConnectDials DEF Service!Next
  <2>4. ASSUME NEW h \in Handle, Disconnect(h) PROVE Goal
    BY <2>4, TakingCloses DEF Service!Next
  <2>5. ASSUME NEW S \in SUBSET Open, FindSilent(S) PROVE Goal
    BY <2>5, Stutters
  <2> QED
    BY <1>3, <2>1, <2>2, <2>3, <2>4, <2>5 DEF Application
<1>4. CASE ReceivePackets
  <2>1. CASE Register
    BY <2>1, RegisterOpens DEF Service!Next, Service!Handle, Handle
  <2>2. ASSUME NEW h \in Handle, ReceivePacket(h) PROVE Goal
    BY <2>2, ReceiveDelivers DEF Service!Next
  <2>3. ASSUME NEW h \in Handle, ReceiveNothing(h) PROVE Goal
    BY <2>3, Stutters
  <2>4. CASE FinishReceive
    BY <2>4, Stutters
  <2> QED
    BY <1>4, <2>1, <2>2, <2>3, <2>4, NeverDisconnected DEF ReceivePackets
<1>5. ASSUME NEW h \in Handle, IdleDisconnect(h) PROVE Goal
  BY <1>5, TakingCloses DEF Service!Next
<1>6. CASE DropRemoved
  BY <1>6, DropIsClosed DEF Service!Next
<1>7. CASE DrainPending \/ UNCHANGED vars
  BY <1>7, Stutters
<1> QED
  BY <1>1, <1>2, <1>3, <1>4, <1>5, <1>6, <1>7 DEF Next

(* With one listener the registry implements the service: every client has *)
(* one connection at a time, a datagram is delivered once, in order, to    *)
(* the connection it was accepted for, and is lost only when that          *)
(* connection is closed.                                                   *)
THEOREM RegistryImplementsService == ASSUME OneListener PROVE Spec => ImplementsService
<1>1. Init => ServiceInv
  BY ServiceInvInductive
<1>2. ServiceInv /\ [Next]_vars => ServiceInv'
  BY ServiceInvInductive
<1>3. ServiceInv /\ ServiceInv' /\ [Next]_vars => [Service!Next]_(Service!vars)
  BY NextServes
<1> QED
  BY InitServes, <1>1, <1>2, <1>3, PTL DEF Spec, ImplementsService, Service!Spec
=============================================================================
