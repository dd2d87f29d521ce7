----------------------- MODULE NetworkResource_proofs -----------------------
(* Theorems about NetworkResource, for every value of its constants. *)
EXTENDS NetworkResource, SequenceTheorems, TLAPS

-----------------------------------------------------------------------------
(* Facts about the data *)

LEMMA NoPacketTyped == NoPacket \in Packet
  BY DEF NoPacket, Packet, Peer, Body

LEMMA PacketFields ==
  \A p \in Packet : p.from \in Peer /\ p.seq \in Nat
  BY DEF Packet

LEMMA NewPacketTyped ==
  ASSUME NEW p \in Peer, NEW n \in Nat, NEW b \in Bodies \cup {"error"}
  PROVE  [from |-> p, seq |-> n, body |-> b] \in Packet
  BY NetworkAssumption DEF NetworkAssumption, Packet, Body

LEMMA ConnFields ==
  \A c \in ConnObject : c.peer \in Peer /\ c.rx \in Seq(Packet) /\ c.channels \in BOOLEAN
  BY DEF ConnObject

\* A connection object stays one when its channel or its mode changes.
LEMMA RxChanged ==
  ASSUME NEW s \in Seq(ConnObject), NEW c \in 1 .. Len(s), NEW q \in Seq(Packet)
  PROVE  /\ [s EXCEPT ![c].rx = q] \in Seq(ConnObject)
         /\ Len([s EXCEPT ![c].rx = q]) = Len(s)
  <1>1. s[c] \in ConnObject
    OBVIOUS
  <1>2. [s[c] EXCEPT !.rx = q] \in ConnObject
    BY <1>1 DEF ConnObject
  <1> QED
    BY <1>2

LEMMA ChannelsChanged ==
  ASSUME NEW s \in Seq(ConnObject), NEW c \in 1 .. Len(s), NEW b \in BOOLEAN
  PROVE  /\ [s EXCEPT ![c].channels = b] \in Seq(ConnObject)
         /\ Len([s EXCEPT ![c].channels = b]) = Len(s)
  <1>1. s[c] \in ConnObject
    OBVIOUS
  <1>2. [s[c] EXCEPT !.channels = b] \in ConnObject
    BY <1>1 DEF ConnObject
  <1> QED
    BY <1>2

LEMMA NewConnTyped ==
  ASSUME NEW s \in Seq(ConnObject), NEW p \in Peer, NEW q \in Seq(Packet)
  PROVE  LET t == Append(s, [peer |-> p, rx |-> q, channels |-> FALSE])
         IN  t \in Seq(ConnObject) /\ Len(t) = Len(s) + 1
  <1>1. [peer |-> p, rx |-> q, channels |-> FALSE] \in ConnObject
    BY DEF ConnObject
  <1> QED
    BY <1>1

\* A table of connections is one of more connections too.
LEMMA FunMonotone ==
  ASSUME NEW D, NEW S, NEW T, S \subseteq T, NEW f \in [D -> S]
  PROVE  f \in [D -> T]
  OBVIOUS

-----------------------------------------------------------------------------
(* Type correctness *)

LEMMA InitTyped == Init => TypeOK
  <1> SUFFICES ASSUME Init PROVE TypeOK
    OBVIOUS
  <1> QED
    BY NetworkAssumption, NoPacketTyped
    DEF NetworkAssumption, Init, TypeOK, Handle, NoHandle

LEMMA ConnsGrow ==
  ASSUME TypeOK, Len(conns') = Len(conns) + 1
  PROVE  /\ server_channels \in [Addr -> Conn' \cup {NoConn}]
         /\ pending_connections \in Seq(Conn')
         /\ Append(pending_connections, Len(conns) + 1) \in Seq(Conn')
         /\ fresh \in [Listener -> Conn' \cup {NoConn}]
         /\ connections \in [Handle -> Conn' \cup {NoConn}]
         /\ batch \in Seq(Conn')
         /\ removed \in Conn' \cup {NoConn}
         /\ Len(conns) + 1 \in Conn'
  <1>1. Len(conns) \in Nat
    BY DEF TypeOK
  <1>2. Conn \subseteq Conn' /\ Len(conns) + 1 \in Conn'
    BY <1>1 DEF Conn
  <1>3. pending_connections \in Seq(Conn') /\ batch \in Seq(Conn')
    BY <1>2, SeqMonotonic DEF TypeOK
  <1>4. Append(pending_connections, Len(conns) + 1) \in Seq(Conn')
    BY <1>2, <1>3
  <1> QED
    BY <1>2, <1>3, <1>4, FunMonotone DEF TypeOK

LEMMA NextTyped == TypeOK /\ [Next]_vars => TypeOK'
<1> SUFFICES ASSUME TypeOK, [Next]_vars PROVE TypeOK'
  OBVIOUS
<1> USE DEF TypeOK
<1>1. ASSUME NEW l \in Listener, Listen(l) PROVE TypeOK'
  BY <1>1 DEF Listen, sharedVars, tableVars, systemVars, Conn
<1>2. ASSUME NEW l \in Listener, NEW a \in Addr, NEW b \in Bodies, ServerReceive(l, a, b)
      PROVE TypeOK'
  <2>1. a \in Peer /\ arrived[a] + 1 \in Nat
    BY DEF Peer
  <2>2. [from |-> a, seq |-> arrived[a] + 1, body |-> b] \in Packet
    BY <2>1, NewPacketTyped
  <2> QED
    BY <1>2, <2>1, <2>2 DEF ServerReceive, sharedVars, tableVars, systemVars, Conn
<1>3. ASSUME NEW l \in Listener, Forward(l) PROVE TypeOK'
  <2> DEFINE c == server_channels[payload[l].from]
  <2>1. payload[l] \in Packet
    OBVIOUS
  <2>2. CASE c \in Conn
    <3>1. Append(conns[c].rx, payload[l]) \in Seq(Packet)
      BY <2>1, <2>2, ConnFields DEF Conn
    <3>2. conns' = [conns EXCEPT ![c].rx = Append(conns[c].rx, payload[l])]
      BY <1>3 DEF Forward
    <3>3. conns' \in Seq(ConnObject) /\ Len(conns') = Len(conns)
      BY <2>2, <3>1, <3>2, RxChanged DEF Conn
    <3> QED
      BY <1>3, <3>3, NoPacketTyped DEF Forward, tableVars, systemVars, Conn
  <2>3. CASE c \notin Conn
    <3>1. conns' = conns
      BY <1>3, <2>3 DEF Forward, Conn
    <3> QED
      BY <1>3, <3>1, NoPacketTyped DEF Forward, tableVars, systemVars, Conn
  <2> QED
    BY <2>2, <2>3
<1>4. ASSUME NEW l \in Listener, NeedsNewChannel(l) PROVE TypeOK'
  BY <1>4 DEF NeedsNewChannel, sharedVars, tableVars, systemVars, Conn
<1>5. ASSUME NEW l \in Listener, PushConnection(l) PROVE TypeOK'
  <2>1. payload[l].from \in Peer /\ <<payload[l]>> \in Seq(Packet)
    BY PacketFields
  <2>2. conns' \in Seq(ConnObject) /\ Len(conns') = Len(conns) + 1
    BY <1>5, <2>1, NewConnTyped DEF PushConnection, ServerConnection
  <2> QED
    BY <1>5, <2>2, ConnsGrow DEF PushConnection, tableVars, systemVars
<1>6. ASSUME NEW l \in Listener, StoreChannel(l) PROVE TypeOK'
  BY <1>6, NoPacketTyped DEF StoreChannel, tableVars, systemVars, Conn
<1>7. CASE SetChannelsBuilder
  BY <1>7 DEF SetChannelsBuilder, sharedVars, listenerVars, systemVars, Conn
<1>8. CASE Connect
  <2>1. Server \in Peer /\ <<>> \in Seq(Packet)
    BY DEF Peer
  <2>2. conns' \in Seq(ConnObject) /\ Len(conns') = Len(conns) + 1
    BY <1>8, <2>1, NewConnTyped DEF Connect
  <2> QED
    BY <1>8, <2>2, ConnsGrow DEF Connect, listenerVars, tableVars, systemVars
<1>9. ASSUME NEW c \in Conn, NEW b \in Bodies \cup {"error"}, SocketArrival(c, b)
      PROVE TypeOK'
  <2> DEFINE p == [from |-> Server, seq |-> arrived[Server] + 1, body |-> b]
  <2>1. Server \in Peer /\ arrived[Server] + 1 \in Nat
    BY DEF Peer
  <2>2. p \in Packet
    BY <2>1, NewPacketTyped
  <2>3. Append(conns[c].rx, p) \in Seq(Packet)
    BY <2>2, ConnFields DEF Conn
  <2>4. conns' = [conns EXCEPT ![c].rx = Append(conns[c].rx, p)]
    BY <1>9 DEF SocketArrival
  <2>5. conns' \in Seq(ConnObject) /\ Len(conns') = Len(conns)
    BY <2>3, <2>4, RxChanged DEF Conn
  <2> QED
    BY <1>9, <2>1, <2>5 DEF SocketArrival, listenerVars, tableVars, systemVars, Conn
<1>10. CASE DrainPending
  BY <1>10 DEF DrainPending, listenerVars, tableVars, Conn
<1>11. CASE Register
  <2>1. Head(batch) \in Conn /\ Tail(batch) \in Seq(Conn)
    BY <1>11 DEF Register
  <2>2. conns' \in Seq(ConnObject) /\ Len(conns') = Len(conns)
    BY <1>11, <2>1, ChannelsChanged DEF Register, Conn
  <2>3. NextHandle(connection_sequence) \in Handle
    BY NetworkAssumption DEF NetworkAssumption, NextHandle, Handle
  <2> QED
    BY <1>11, <2>1, <2>2, <2>3 DEF Register, listenerVars, Conn
<1>12. ASSUME NEW h \in Handle, ReceivePacket(h) PROVE TypeOK'
  <2> DEFINE c == connections[h]
  <2>1. c \in Conn
    BY <1>12 DEF ReceivePacket, MayRead, Open
  <2>2. Tail(conns[c].rx) \in Seq(Packet)
    BY <1>12, <2>1, ConnFields DEF ReceivePacket, Conn
  <2>3. conns' \in Seq(ConnObject) /\ Len(conns') = Len(conns)
    BY <1>12, <2>1, <2>2, RxChanged DEF ReceivePacket, Conn
  <2> QED
    BY <1>12, <2>3 DEF ReceivePacket, listenerVars, tableVars, Conn
<1>13. ASSUME NEW h \in Handle, ReceiveDisconnected(h) PROVE TypeOK'
  BY <1>13 DEF ReceiveDisconnected, sharedVars, listenerVars, tableVars, Conn
<1>14. ASSUME NEW h \in Handle, ReceiveNothing(h) PROVE TypeOK'
  BY <1>14 DEF ReceiveNothing, sharedVars, listenerVars, tableVars, Conn
<1>15. CASE FinishReceive
  BY <1>15 DEF FinishReceive, sharedVars, listenerVars, tableVars, Conn
<1>16. ASSUME NEW h \in Handle, Disconnect(h) PROVE TypeOK'
  BY <1>16 DEF Disconnect, TakeFromTable, sharedVars, listenerVars, Conn
<1>17. ASSUME NEW S \in SUBSET Open, FindSilent(S) PROVE TypeOK'
  BY <1>17 DEF FindSilent, Open, sharedVars, listenerVars, tableVars, Conn
<1>18. ASSUME NEW h \in Handle, IdleDisconnect(h) PROVE TypeOK'
  BY <1>18 DEF IdleDisconnect, TakeFromTable, sharedVars, listenerVars, Conn
<1>19. CASE DropRemoved
  <2>1. server_channels' \in [Addr -> Conn \cup {NoConn}]
    BY <1>19 DEF DropRemoved
  <2>2. system' \in {"idle", "receive_packets", "heartbeats_and_timeouts", "disconnect"}
    BY <1>19 DEF DropRemoved
  <2> QED
    BY <1>19, <2>1, <2>2 DEF DropRemoved, listenerVars, tableVars, Conn
<1>20. CASE UNCHANGED vars
  BY <1>20 DEF vars, sharedVars, listenerVars, tableVars, systemVars, Conn
<1> QED
  BY <1>1, <1>2, <1>3, <1>4, <1>5, <1>6, <1>7, <1>8, <1>9, <1>10, <1>11, <1>12,
     <1>13, <1>14, <1>15, <1>16, <1>17, <1>18, <1>19, <1>20
     DEF Next, Environment, ListenerTask, Application, ReceivePackets

(* Every variable keeps its type, and every reference to a connection names *)
(* one that has been made.                                                  *)
THEOREM TypeCorrect == Spec => []TypeOK
  BY InitTyped, NextTyped, PTL DEF Spec
=============================================================================
