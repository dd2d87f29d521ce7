------------------------- MODULE OneListener_proofs -------------------------
(***************************************************************************)
(* What holds when the application calls listen at most once: a client has *)
(* one connection at a time, and it keeps the Sender of its channel.       *)
(***************************************************************************)
EXTENDS Senders_proofs

OneListener == \A l, k \in Listener : l = k

-----------------------------------------------------------------------------
(* A connection has one owner *)

NoRepeats(s) == \A i, j \in DOMAIN s : s[i] = s[j] => i = j

LEMMA NoRepeatsOfEmpty == NoRepeats(<<>>)
  BY DEF NoRepeats

LEMMA NoRepeatsOfAppend ==
  ASSUME NEW S, NEW s \in Seq(S), NEW x \in S, NoRepeats(s), x \notin Range(s)
  PROVE  NoRepeats(Append(s, x))
  <1>1. \A i \in DOMAIN s : s[i] # x
    BY DEF Range
  <1>2. DOMAIN Append(s, x) = (DOMAIN s) \cup {Len(s) + 1}
    OBVIOUS
  <1>3. \A i \in DOMAIN s : Append(s, x)[i] = s[i]
    OBVIOUS
  <1>4. Append(s, x)[Len(s) + 1] = x
    OBVIOUS
  <1> QED
    BY <1>1, <1>2, <1>3, <1>4 DEF NoRepeats

LEMMA NoRepeatsOfTail ==
  ASSUME NEW S, NEW s \in Seq(S), s # <<>>, NoRepeats(s)
  PROVE  NoRepeats(Tail(s)) /\ Head(s) \notin Range(Tail(s))
  <1>1. Len(s) \in Nat \ {0} /\ DOMAIN s = 1 .. Len(s)
    BY EmptySeq, LenProperties
  <1>2. /\ DOMAIN Tail(s) = 1 .. Len(s) - 1
        /\ \A i \in DOMAIN Tail(s) : i + 1 \in DOMAIN s /\ Tail(s)[i] = s[i + 1]
    BY <1>1
  <1>3. NoRepeats(Tail(s))
    BY <1>1, <1>2 DEF NoRepeats
  <1>4. Head(s) = s[1]
    OBVIOUS
  <1>5. \A i \in DOMAIN Tail(s) : Tail(s)[i] # Head(s)
    BY <1>1, <1>2, <1>4 DEF NoRepeats
  <1> QED
    BY <1>3, <1>5 DEF Range

Waiting == Range(pending_connections) \cup Range(batch)

OwnerInv ==
  /\ NoRepeats(pending_connections)
  /\ NoRepeats(batch)
  /\ Range(pending_connections) \cap Range(batch) = {}
  /\ \A h \in Handle : connections[h] \notin Waiting
  /\ \A h, k \in Handle : connections[h] = connections[k] /\ connections[h] # NoConn => h = k
  /\ removed # NoConn => removed \notin Waiting /\ \A h \in Handle : connections[h] # removed

LEMMA OwnerInvHolds == TypeOK /\ SystemInv /\ OwnerInv /\ [Next]_vars => OwnerInv'
<1> SUFFICES ASSUME TypeOK, SystemInv, OwnerInv, [Next]_vars PROVE OwnerInv'
  OBVIOUS
<1>a. /\ Range(pending_connections) \subseteq Conn /\ Range(batch) \subseteq Conn
      /\ NoConn \notin Conn
  BY RangeTyped DEF TypeOK, Conn, NoConn
<1>1. CASE SameOwners
  BY <1>1 DEF SameOwners, OwnerInv, Waiting
<1>2. ASSUME NEW p \in Peer, Made(p) PROVE OwnerInv'
  <2> DEFINE c == Len(conns) + 1
  <2>1. c \notin Conn /\ c # NoConn /\ c \in Nat
    BY DEF Conn, NoConn, TypeOK
  <2>2. pending_connections \in Seq(Nat) /\ pending_connections' = Append(pending_connections, c)
    BY <1>2, SeqMonotonic DEF TypeOK, Conn, Made
  <2>3. NoRepeats(pending_connections')
    BY <1>a, <2>1, <2>2, NoRepeatsOfAppend DEF OwnerInv
  <2>4. Range(pending_connections') = Range(pending_connections) \cup {c}
    BY <2>1, <2>2, RangeOfAppend
  <2>5. UNCHANGED <<batch, connections, removed>>
    BY <1>2 DEF Made
  <2>6. \A h \in Handle : connections[h] # c
    BY <2>1 DEF TypeOK
  <2>7. removed # c
    BY <2>1 DEF TypeOK
  <2> QED
    BY <1>a, <2>1, <2>3, <2>4, <2>5, <2>6, <2>7 DEF OwnerInv, Waiting
<1>3. CASE DrainPending
  <2>1. batch = <<>> /\ batch' = pending_connections /\ pending_connections' = <<>>
    BY <1>3 DEF DrainPending, SystemInv
  <2>2. UNCHANGED <<connections, removed>>
    BY <1>3 DEF DrainPending, tableVars
  <2> QED
    BY <2>1, <2>2, RangeOfEmpty, NoRepeatsOfEmpty DEF OwnerInv, Waiting
<1>4. CASE Register
  <2> DEFINE c == Head(batch)
  <2>1. /\ batch # <<>> /\ batch' = Tail(batch) /\ removed = NoConn
        /\ connections' = [connections EXCEPT ![connection_sequence] = c]
        /\ UNCHANGED <<pending_connections, removed>>
    BY <1>4 DEF Register, SystemInv
  <2>2. NoRepeats(batch') /\ c \notin Range(batch')
    BY <2>1, NoRepeatsOfTail DEF OwnerInv, TypeOK
  <2>3. Range(batch) = Range(batch') \cup {c}
    BY <2>1, RangeOfTail DEF TypeOK
  <2>4. \A h \in Handle : connections'[h] = IF h = connection_sequence THEN c ELSE connections[h]
    BY <2>1 DEF TypeOK
  <2>5. \A h \in Handle : connections'[h] \notin Waiting'
    BY <2>1, <2>2, <2>3, <2>4 DEF OwnerInv, Waiting
  <2>6. \A h, k \in Handle : connections'[h] = connections'[k] /\ connections'[h] # NoConn => h = k
    BY <2>3, <2>4 DEF OwnerInv, Waiting
  <2> QED
    BY <2>1, <2>2, <2>3, <2>5, <2>6 DEF OwnerInv
<1>5. ASSUME NEW h \in Handle, Taken(h) PROVE OwnerInv'
  <2>1. /\ removed' = connections[h] /\ removed = NoConn
        /\ connections' = [connections EXCEPT ![h] = NoConn]
        /\ UNCHANGED <<pending_connections, batch>>
    BY <1>5 DEF Taken, TakeFromTable
  <2>2. \A k \in Handle : connections'[k] = IF k = h THEN NoConn ELSE connections[k]
    BY <2>1 DEF TypeOK
  <2> QED
    BY <1>a, <2>1, <2>2 DEF OwnerInv, Waiting
<1>6. CASE DropRemoved
  BY <1>6 DEF DropRemoved, OwnerInv, Waiting, tableVars
<1> QED
  BY <1>1, <1>2, <1>3, <1>4, <1>5, <1>6, StepEffects DEF Effect

\* Nothing comes to life but new connections, and what is removed is dropped.
LEMMA AliveGrows ==
  ASSUME TypeOK, SystemInv, OwnerInv, [Next]_vars, NEW c \in Alive'
  PROVE  /\ \/ c \in Alive
            \/ c = Len(conns) + 1 /\ \E p \in Peer : Made(p)
         /\ DropRemoved => c # removed
<1> USE DEF Alive, ReceiverAlive, Live, Registered
<1>a. Range(pending_connections) \cup Range(batch) \subseteq Conn /\ c # NoConn
  BY RangeTyped DEF TypeOK, Conn, NoConn
<1>1. CASE SameOwners
  <2>1. Conn' = Conn
    BY <1>1 DEF SameOwners, Conn
  <2>2. ~ DropRemoved
    BY <1>1 DEF SameOwners, DropRemoved
  <2> QED
    BY <1>1, <2>1, <2>2 DEF SameOwners
<1>2. ASSUME NEW p \in Peer, Made(p) PROVE (c \in Alive \/ c = Len(conns) + 1) /\ ~ DropRemoved
  <2>1. Range(pending_connections') = Range(pending_connections) \cup {Len(conns) + 1}
    <3>1. pending_connections \in Seq(Nat) /\ Len(conns) + 1 \in Nat
      BY SeqMonotonic DEF TypeOK, Conn
    <3> QED
      BY <1>2, <3>1, RangeOfAppend DEF Made
  <2>2. ~ DropRemoved
    BY <1>2 DEF Made, DropRemoved
  <2> QED
    BY <1>2, <1>a, <2>1, <2>2 DEF Made, TypeOK
<1>3. CASE DrainPending
  <2>1. /\ batch' = pending_connections /\ Range(pending_connections') = {}
        /\ UNCHANGED <<conns, connections, removed, server_channels>>
        /\ removed = NoConn
    BY <1>3, RangeOfEmpty DEF DrainPending, SystemInv, tableVars
  <2> QED
    BY <2>1 DEF DropRemoved, Conn
<1>4. CASE Register
  <2>1. Range(batch) = Range(batch') \cup {Head(batch)}
    BY <1>4, RangeOfTail DEF Register, TypeOK
  <2>2. /\ connections' = [connections EXCEPT ![connection_sequence] = Head(batch)]
        /\ UNCHANGED <<pending_connections, removed>>
        /\ removed = NoConn
    BY <1>4 DEF Register, SystemInv
  <2>3. Conn' = Conn
    BY <1>4 DEF Register, Conn, TypeOK
  <2> QED
    BY <1>a, <2>1, <2>2, <2>3 DEF TypeOK, DropRemoved
<1>5. ASSUME NEW h \in Handle, Taken(h) PROVE c \in Alive /\ ~ DropRemoved
  BY <1>5, <1>a DEF Taken, TakeFromTable, TypeOK, Conn, DropRemoved
<1>6. CASE DropRemoved
  BY <1>6, <1>a DEF DropRemoved, tableVars, Conn, OwnerInv, Waiting
<1> QED
  BY <1>1, <1>2, <1>3, <1>4, <1>5, <1>6, StepEffects DEF Effect

-----------------------------------------------------------------------------
(* A connection that lives has its Sender *)

OrphanInv ==
  \A c \in Alive : FromClient(c) =>
    \/ server_channels[conns[c].peer] = c
    \/ \E l \in Listener : fresh[l] = c

\* The task that has decided to make a channel is right to do so until it stores
\* the Sender: nobody else makes one for the address.
WindowInv ==
  \A l \in Listener :
    /\ at[l] = "write" => \A c \in Alive : conns[c].peer # payload[l].from
    /\ at[l] = "insert" => \A c \in Alive : conns[c].peer = payload[l].from => c = fresh[l]

OneInv ==
  /\ TypeOK /\ SystemInv /\ ListenerInv /\ OwnerInv
  /\ OrphanInv /\ WindowInv

LEMMA InitOne == Init => OneInv
<1> SUFFICES ASSUME Init PROVE SystemInv /\ ListenerInv /\ OwnerInv /\ OrphanInv /\ WindowInv
  BY InitTyped DEF OneInv
<1>1. SystemInv
  BY DEF Init, SystemInv
<1>2. ListenerInv
  BY DEF Init, ListenerInv, TaskInv
<1>3. OwnerInv
  BY RangeOfEmpty, NoRepeatsOfEmpty DEF Init, OwnerInv, Waiting
<1>4. Alive = {}
  BY DEF Init, Alive, Conn
<1> QED
  BY <1>1, <1>2, <1>3, <1>4 DEF OrphanInv, WindowInv

LEMMA OneInvHolds ==
  ASSUME OneListener, OneInv, [Next]_vars
  PROVE  OrphanInv' /\ WindowInv'
<1> DEFINE Goal == OrphanInv' /\ WindowInv'
<1> USE DEF OneInv
<1>a. /\ PeersKept
      /\ Alive \subseteq Conn
      /\ \A c \in Alive : c # NoConn /\ conns'[c].peer = conns[c].peer
  BY StepEffects DEF Effect, PeersKept, Alive, Conn, NoConn
<1>b. \A c \in Alive' : c \in Alive \/ c = Len(conns) + 1
  BY AliveGrows
<1>b1. Len(conns') = Len(conns) => Alive' \subseteq Alive
  BY AliveGrows DEF Made, TypeOK
<1>b2. DropRemoved => removed \notin Alive'
  BY AliveGrows
<1>c. \A l \in Listener : fresh[l] # NoConn => at[l] = "insert" /\ writer = {l}
  BY DEF ListenerInv, TaskInv
<1>e. \A c \in Alive : FromClient(c) => conns[c].peer \in Addr
  <2>1. \A c \in Conn : conns[c].peer \in Peer
    BY ConnFields DEF TypeOK, Conn
  <2> QED
    BY <1>a, <2>1 DEF FromClient, Peer
\* A step that makes no connection and moves no task but back or to "lookup".
<1>d. ASSUME Len(conns') = Len(conns), UNCHANGED <<server_channels, fresh>>,
             \A l \in Listener : at'[l] \in {"write", "insert"} =>
               at'[l] = at[l] /\ payload'[l] = payload[l]
      PROVE  Goal
  <2>1. Alive' \subseteq Alive
    BY <1>b1, <1>d
  <2>2. OrphanInv'
    BY <1>a, <1>d, <2>1 DEF OrphanInv, FromClient
  <2>3. WindowInv'
    BY <1>a, <1>d, <2>1 DEF WindowInv
  <2> QED
    BY <2>2, <2>3
<1>1. ASSUME NEW l \in Listener, Listen(l) PROVE Goal
  BY <1>1, <1>d DEF Listen, sharedVars, TypeOK
<1>2. ASSUME NEW l \in Listener, NEW a \in Addr, NEW b \in Bodies, ServerReceive(l, a, b)
      PROVE Goal
  BY <1>2, <1>d DEF ServerReceive, sharedVars, TypeOK
<1>3. ASSUME NEW l \in Listener, Forward(l) PROVE Goal
  BY <1>3, <1>d DEF Forward, TypeOK
<1>4. ASSUME NEW l \in Listener, NeedsNewChannel(l) PROVE Goal
  <2> DEFINE a == payload[l].from
  <2>1. /\ at[l] = "lookup" /\ at' = [at EXCEPT ![l] = "write"] /\ a \in Addr
        /\ UNCHANGED <<conns, server_channels, fresh, payload, removed>>
    BY <1>4 DEF NeedsNewChannel, sharedVars, systemVars, ListenerInv, TaskInv
  <2>2. ASSUME NEW c \in Alive, conns[c].peer = a PROVE FALSE
    <3>1. FromClient(c)
      BY <2>1, <2>2, NetworkAssumption DEF FromClient, NetworkAssumption
    <3>2. ~ \E k \in Listener : fresh[k] = c
      BY <1>a, <1>c, <2>1, <2>2 DEF OneListener
    <3>3. server_channels[a] = c
      BY <2>2, <3>1, <3>2 DEF OrphanInv
    <3>4. CanForward(l)
      BY <1>a, <2>2, <3>3 DEF CanForward, Alive
    <3> QED
      BY <1>4, <3>4 DEF NeedsNewChannel
  <2>3. Alive' \subseteq Alive
    BY <1>b1, <2>1
  <2>4. OrphanInv'
    BY <2>1, <2>3 DEF OrphanInv, FromClient
  <2>5. \A k \in Listener : k = l /\ at'[k] = "write"
    BY <2>1 DEF OneListener, TypeOK
  <2>6. WindowInv'
    BY <2>1, <2>2, <2>3, <2>5 DEF WindowInv
  <2> QED
    BY <2>4, <2>6
<1>5. ASSUME NEW l \in Listener, PushConnection(l) PROVE Goal
  <2> DEFINE a == payload[l].from
             n == Len(conns) + 1
  <2>1. /\ at[l] = "write" /\ at' = [at EXCEPT ![l] = "insert"]
        /\ fresh' = [fresh EXCEPT ![l] = n]
        /\ UNCHANGED <<server_channels, payload>>
    BY <1>5 DEF PushConnection
  <2>2. fresh'[l] = n /\ \A k \in Listener : k = l /\ at'[k] = "insert" /\ fresh[k] = NoConn
    BY <2>1, <1>c DEF OneListener, TypeOK
  <2>3. \A c \in Alive' : c \in Alive \/ c = n
    BY <1>b
  <2>4. OrphanInv'
    BY <1>a, <2>1, <2>2, <2>3 DEF OrphanInv, FromClient
  <2>5. WindowInv'
    BY <1>a, <2>1, <2>2, <2>3 DEF WindowInv
  <2> QED
    BY <2>4, <2>5
<1>6. ASSUME NEW l \in Listener, StoreChannel(l) PROVE Goal
  <2> DEFINE a == payload[l].from
  <2>1. /\ at[l] = "insert" /\ at' = [at EXCEPT ![l] = "receive"]
        /\ server_channels' = [server_channels EXCEPT ![a] = fresh[l]]
        /\ UNCHANGED <<conns, removed>>
    BY <1>6 DEF StoreChannel, systemVars
  <2>2. a \in Addr /\ conns[fresh[l]].peer = a
    BY <2>1 DEF ListenerInv, TaskInv
  <2>3. Alive' \subseteq Alive
    BY <1>b1, <2>1
  <2>4. ASSUME NEW c \in Alive, FromClient(c) PROVE server_channels'[conns[c].peer] = c
    <3>1. CASE conns[c].peer = a
      BY <2>1, <2>2, <2>4, <3>1 DEF WindowInv, TypeOK
    <3>2. CASE conns[c].peer # a
      <4>1. \A k \in Listener : fresh[k] # c
        BY <2>2, <3>2 DEF OneListener
      <4> QED
        BY <1>e, <2>1, <2>4, <3>2, <4>1 DEF OrphanInv, TypeOK
    <3> QED
      BY <3>1, <3>2
  <2>5. OrphanInv'
    BY <2>1, <2>3, <2>4 DEF OrphanInv, FromClient
  <2>6. \A k \in Listener : at'[k] = "receive"
    BY <2>1 DEF OneListener, TypeOK
  <2>7. WindowInv'
    BY <2>6 DEF WindowInv
  <2> QED
    BY <2>5, <2>7
<1>7. CASE SetChannelsBuilder
  BY <1>7, <1>d DEF SetChannelsBuilder, sharedVars, listenerVars
<1>8. CASE Connect
  <2>1. /\ conns' = Append(conns, [peer |-> Server, rx |-> <<>>, channels |-> FALSE])
        /\ UNCHANGED <<server_channels, at, payload, fresh>>
    BY <1>8 DEF Connect, listenerVars
  <2>2. conns'[Len(conns) + 1].peer = Server
    BY <2>1 DEF TypeOK
  <2>3. \A c \in Alive' : c \in Alive \/ conns'[c].peer = Server
    BY <1>b, <2>2
  <2>4. OrphanInv'
    BY <1>a, <2>1, <2>3 DEF OrphanInv, FromClient
  <2>5. \A l \in Listener : at[l] \in {"write", "insert"} => payload[l].from # Server
    BY NetworkAssumption DEF ListenerInv, TaskInv, NetworkAssumption
  <2>6. WindowInv'
    BY <1>a, <2>1, <2>3, <2>5 DEF WindowInv
  <2> QED
    BY <2>4, <2>6
<1>9. ASSUME NEW c \in Conn, NEW b \in Bodies \cup {"error"}, SocketArrival(c, b)
      PROVE Goal
  BY <1>9, <1>d DEF SocketArrival, listenerVars, TypeOK
<1>10. CASE DrainPending \/ FinishReceive
  BY <1>10, <1>d DEF DrainPending, FinishReceive, sharedVars, listenerVars
<1>11. CASE Register
  BY <1>11, <1>d DEF Register, listenerVars, TypeOK
<1>12. ASSUME NEW h \in Handle,
              ReceivePacket(h) \/ ReceiveDisconnected(h) \/ ReceiveNothing(h)
       PROVE Goal
  BY <1>12, <1>d DEF ReceivePacket, ReceiveDisconnected, ReceiveNothing, sharedVars,
                     listenerVars, TypeOK
<1>13. ASSUME NEW h \in Handle, Disconnect(h) \/ IdleDisconnect(h) PROVE Goal
  BY <1>13, <1>d DEF Disconnect, IdleDisconnect, sharedVars, listenerVars
<1>14. ASSUME NEW S \in SUBSET Open, FindSilent(S) PROVE Goal
  BY <1>14, <1>d DEF FindSilent, sharedVars, listenerVars
<1>15. CASE DropRemoved
  <2> DEFINE a == conns[removed].peer
  <2>1. UNCHANGED <<conns, at, payload, fresh>> /\ removed # NoConn
    BY <1>15 DEF DropRemoved, listenerVars
  <2>2. Alive' \subseteq Alive \ {removed}
    BY <1>b1, <1>b2, <1>15, <2>1
  \* No client has another connection, so no other loses its Sender.
  <2>3. ASSUME NEW c \in Alive, c # removed, FromClient(c), conns[c].peer = a PROVE FALSE
    <3>1. a \in Addr /\ removed \in Alive /\ FromClient(removed)
      <4>1. c \in Conn /\ conns[c].peer \in Peer
        BY <1>a, ConnFields DEF TypeOK, Conn
      <4> QED
        BY <2>1, <2>3, <4>1 DEF FromClient, Peer, Alive, ReceiverAlive, TypeOK
    <3>2. writer = {}
      BY <1>15, <3>1, NetworkAssumption DEF DropRemoved, NetworkAssumption
    <3>3. \A l \in Listener : fresh[l] = NoConn
      BY <1>c, <3>2
    <3>4. server_channels[a] = c /\ server_channels[a] = removed
      BY <1>a, <2>3, <3>1, <3>3 DEF OrphanInv
    <3> QED
      BY <2>3, <3>4
  <2>4. \A p \in Addr : p # a => server_channels'[p] = server_channels[p]
    BY <1>15 DEF DropRemoved, TypeOK
  <2>5. OrphanInv'
    BY <1>e, <2>1, <2>2, <2>3, <2>4 DEF OrphanInv, FromClient
  <2>6. WindowInv'
    BY <2>1, <2>2 DEF WindowInv
  <2> QED
    BY <2>5, <2>6
<1>16. CASE UNCHANGED vars
  BY <1>16, <1>d DEF vars, sharedVars, listenerVars
<1> QED
  BY <1>1, <1>2, <1>3, <1>4, <1>5, <1>6, <1>7, <1>8, <1>9, <1>10, <1>11, <1>12, <1>13,
     <1>14, <1>15, <1>16 DEF Next, Environment, ListenerTask, Application, ReceivePackets

LEMMA OneInvInductive == ASSUME OneListener PROVE Spec => []OneInv
<1>1. OneInv /\ [Next]_vars => OneInv'
  BY OneInvHolds, NextTyped, SystemInvHolds, ListenerInvHolds, OwnerInvHolds DEF OneInv
<1> QED
  BY InitOne, <1>1, PTL DEF Spec

(* With one listener every client connection the application can reach has *)
(* the Sender of its channel: it hears the client, and never reports       *)
(* Disconnected.                                                           *)
THEOREM NoReceiverIsOrphaned == ASSUME OneListener PROVE Spec => []NoOrphanedReceiver
<1>1. OneInv => NoOrphanedReceiver
  BY DEF OneInv, OrphanInv, NoOrphanedReceiver, Alive, ReceiverAlive
<1> QED
  BY OneInvInductive, <1>1, PTL

(* With one listener a connection is made for an address only when its     *)
(* stored Sender, if any, is dead.                                         *)
THEOREM WriteLockIsNeeded == ASSUME OneListener PROVE Spec => WriteLockOnlyWhenNeeded
<1> DEFINE Step == \A l \in Listener :
             at[l] = "write" /\ at'[l] = "insert" =>
               LET c == server_channels[payload[l].from]
               IN  c = NoConn \/ ~ ReceiverAlive(c)
<1>1. OneInv /\ AddressInv => (\A l \in Listener : at[l] = "write" =>
        LET c == server_channels[payload[l].from]
        IN  c = NoConn \/ ~ ReceiverAlive(c))
  <2> SUFFICES ASSUME OneInv, AddressInv, NEW l \in Listener, at[l] = "write"
               PROVE  LET c == server_channels[payload[l].from]
                      IN  c = NoConn \/ ~ ReceiverAlive(c)
    OBVIOUS
  <2>1. payload[l].from \in Addr
    BY DEF OneInv, ListenerInv, TaskInv
  <2> QED
    BY <2>1 DEF OneInv, WindowInv, AddressInv, Alive, TypeOK
<1>2. OneInv /\ AddressInv => [Step]_vars
  BY <1>1
<1>3. Spec => []AddressInv
  BY StaleInvInductive, PTL DEF StaleInv
<1> QED
  BY OneInvInductive, <1>2, <1>3, PTL DEF WriteLockOnlyWhenNeeded
=============================================================================
