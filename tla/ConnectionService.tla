-------------------------- MODULE ConnectionService --------------------------
(***************************************************************************)
(* What NetworkResource promises an application about connections and      *)
(* datagrams, without tasks, locks, systems or a table.                    *)
(*                                                                         *)
(* A remote client has at most one connection that is not closed.  The     *)
(* datagrams of a peer are numbered as they arrive; each is put in the     *)
(* inbox of one connection, taken from it in order, and told to the        *)
(* application at most once, under the handle the connection has.          *)
(***************************************************************************)
EXTENDS Integers, Sequences

CONSTANTS Addr, Server, HandleMod, Bodies

VARIABLES
  service,  \* every connection there has been, in order of arrival
  last,     \* number of the last datagram taken from each peer
  events    \* what the last step that told something has told

vars == <<service, last, events>>

Peer     == Addr \cup {Server}
Handle   == 0 .. HandleMod - 1
NoHandle == -1

Message(p, b) == [from |-> p, seq |-> last[p] + 1, body |-> b]

Count(p) == last' = [last EXCEPT ![p] = @ + 1]

\* The first datagram of a client that has no connection makes one.
Accept(a, b) ==
  /\ \A c \in DOMAIN service : service[c].peer = a => service[c].status = "closed"
  /\ service' = Append(service, [peer |-> a, status |-> "waiting",
                                 handle |-> NoHandle, inbox |-> <<Message(a, b)>>])
  /\ Count(a)
  /\ UNCHANGED events

\* The application connects to a server.
Dial ==
  /\ service' = Append(service, [peer |-> Server, status |-> "waiting",
                                 handle |-> NoHandle, inbox |-> <<>>])
  /\ UNCHANGED <<last, events>>

\* Another datagram of the peer of c.
Enqueue(c, b) ==
  LET p == service[c].peer
  IN  /\ service[c].status # "closed"
      /\ service' = [service EXCEPT ![c].inbox = Append(@, Message(p, b))]
      /\ Count(p)
      /\ UNCHANGED events

\* The connection that waits longest gets the handle h.  The one that had it,
\* if it was not closed, is closed without a word.
Open(c, h) ==
  /\ service[c].status = "waiting"
  /\ \A d \in 1 .. c - 1 : service[d].status # "waiting"
  /\ service' = [d \in DOMAIN service |->
       IF d = c THEN [service[c] EXCEPT !.status = "open", !.handle = h]
       ELSE IF service[d].handle = h
       THEN [service[d] EXCEPT !.status = "closed", !.handle = NoHandle, !.inbox = <<>>]
       ELSE service[d]]
  /\ events' = <<[type |-> "Connected", handle |-> h]>>
  /\ UNCHANGED last

\* The oldest datagram of an open connection is read.  Only a heartbeat is not
\* told: another datagram is told the application or the message channels, or that
\* these have refused it.
Deliver(c) ==
  LET h == service[c].handle
      m == Head(service[c].inbox)
  IN  /\ service[c].status = "open"
      /\ service[c].inbox # <<>>
      /\ service' = [service EXCEPT ![c].inbox = Tail(@)]
      /\ \/ m.body = "heartbeat" /\ UNCHANGED events
         \/ /\ m.body = "data"
            /\ \E to \in {"Packet", "Passed"} :
                 events' = <<[type |-> to, handle |-> h, seq |-> m.seq]>>
         \/ /\ m.body = "data"
            /\ events' = <<[type |-> "Error", handle |-> h,
                            error |-> "TurbulenceChannelError"]>>
         \/ /\ m.body = "error"
            /\ events' = <<[type |-> "Error", handle |-> h, error |-> "IoError"]>>
      /\ UNCHANGED last

\* An open connection is given up, by the application or for its silence; only
\* the latter is told.
Close(c) ==
  LET h == service[c].handle
  IN  /\ service[c].status = "open"
      /\ service' = [service EXCEPT ![c].status = "closing", ![c].handle = NoHandle]
      /\ \/ UNCHANGED events
         \/ events' = <<[type |-> "Error", handle |-> h, error |-> "MissedHeartbeat"],
                        [type |-> "Disconnected", handle |-> h]>>
      /\ UNCHANGED last

\* It is gone, with the datagrams it has not delivered.
Closed(c) ==
  /\ service[c].status = "closing"
  /\ service' = [service EXCEPT ![c].status = "closed", ![c].inbox = <<>>]
  /\ UNCHANGED <<last, events>>

Init ==
  /\ service = <<>>
  /\ last = [p \in Peer |-> 0]
  /\ events = <<>>

Next ==
  \/ \E a \in Addr, b \in Bodies : Accept(a, b)
  \/ Dial
  \/ \E c \in DOMAIN service :
       \/ \E b \in Bodies \cup {"error"} : Enqueue(c, b)
       \/ \E h \in Handle : Open(c, h)
       \/ Deliver(c)
       \/ Close(c)
       \/ Closed(c)

Spec == Init /\ [][Next]_vars
=============================================================================
