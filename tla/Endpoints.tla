------------------------------ MODULE Endpoints ------------------------------
(***************************************************************************)
(* ApiEndpoint (common/src/ApiEndpoint.hpp): a TcpConnector to one remote  *)
(* listener and a TcpListener for anybody, with a thread that accepts and  *)
(* one thread per accepted connection.  Endpoints are constructed, send,   *)
(* receive and are destroyed; visitors are other programs that connect.    *)
(*                                                                         *)
(* A message is told by its number on its connection, and MaxSent bounds   *)
(* those of one client.  Descriptors suffice and a port is free: who has   *)
(* none left is in Connections.tla.  Each client is a process of its own.  *)
(***************************************************************************)
EXTENDS Naturals, Sequences

CONSTANTS
  Endpoint, Visitor,
  Elsewhere,          \* a listener outside the model, always there
  MaxSent

ASSUME NamesAssumption == /\ Endpoint \cap Visitor = {}
                          /\ Elsewhere \notin Endpoint \cup Visitor
ASSUME MaxSentAssumption == MaxSent \in Nat

Client == Endpoint \cup Visitor

VARIABLES
  remote,    \* the listener a client connects to
  pc,        \* connect, stand, stopping (in TcpListener::stop), gone
  acceptor,  \* the thread of an endpoint's TcpListener
  conn,      \* a client's: none, pending, new, reading, left, reset, broken
  sent,      \* how many messages a client has sent
  got,       \* how many of them were read by the thread of its connection
  queue,     \* TcpListener::_queue: packets, the messages first .. last
  taken      \* how many of a client's messages get_next_message has taken

vars == <<remote, pc, acceptor, conn, sent, got, queue, taken>>

(* Endpoints face each other, themselves or anything else. *)
Init == /\ remote \in [Client -> Endpoint \cup {Elsewhere}]
        /\ pc = [c \in Client |-> "connect"]
        /\ acceptor = [e \in Endpoint |-> "none"]
        /\ conn = [c \in Client |-> "none"]
        /\ sent = [c \in Client |-> 0]
        /\ got = [c \in Client |-> 0]
        /\ queue = [e \in Endpoint |-> <<>>]
        /\ taken = [c \in Client |-> 0]

Packet == [from : Client, first : Nat, last : Nat]

-----------------------------------------------------------------------------
(* Construction: the connector is the first member, and returns once its   *)
(* remote listens; then the listener is constructed, and starts its thread. *)

Listening(l) == l \in Endpoint => acceptor[l] \in {"accept", "join"}

Starts(c) == acceptor' = [e \in Endpoint |-> IF e = c THEN "bind" ELSE acceptor[e]]

(* A faulty connector, which does not look at what connect returns. *)
ConnectUnchecked(c) ==
  /\ pc[c] = "connect"
  /\ pc' = [pc EXCEPT ![c] = "stand"]
  /\ conn' = [conn EXCEPT ![c] = "pending"]
  /\ Starts(c)
  /\ UNCHANGED <<remote, sent, got, queue, taken>>

Connect(c) ==
  /\ pc[c] = "connect"
  /\ Listening(remote[c])
  /\ pc' = [pc EXCEPT ![c] = "stand"]
  /\ conn' = [conn EXCEPT ![c] = "pending"]
  /\ Starts(c)
  /\ UNCHANGED <<remote, sent, got, queue, taken>>

(* No thread closes the socket of its connection, so that a send succeeds  *)
(* whether it is read or not, but for a connection that was never accepted *)
(* and one whose listener's process has ended.                             *)
Send(c) ==
  /\ pc[c] = "stand"
  /\ conn[c] \notin {"reset", "broken"}
  /\ sent[c] < MaxSent
  /\ sent' = [sent EXCEPT ![c] = @ + 1]
  /\ UNCHANGED <<remote, pc, acceptor, conn, got, queue, taken>>

(* There, the first message is lost and nobody notices (bytes_sent is a    *)
(* size_t).                                                                *)
SendFails(c) ==
  /\ pc[c] = "stand"
  /\ conn[c] = "reset"
  /\ conn' = [conn EXCEPT ![c] = "broken"]
  /\ UNCHANGED <<remote, pc, acceptor, sent, got, queue, taken>>

Of(e) == { c \in Client : remote[c] = e }

(* The next one raises SIGPIPE, which ends the process.                    *)
SendKills(c) ==
  /\ pc[c] = "stand"
  /\ conn[c] = "broken"
  /\ pc' = [pc EXCEPT ![c] = "gone"]
  /\ acceptor' = [e \in Endpoint |-> IF e = c THEN "ended" ELSE acceptor[e]]
  /\ queue' = [e \in Endpoint |-> IF e = c THEN <<>> ELSE queue[e]]
  /\ conn' = [d \in Client |->
                IF d \in Of(c) /\ conn[d] \in {"pending", "new", "reading"}
                  THEN "reset" ELSE conn[d]]
  /\ UNCHANGED <<remote, sent, got, taken>>

-----------------------------------------------------------------------------
(* TcpListener::_thread_func.  Each loop ends with a look at _stop_flag,   *)
(* which is set as long as stop has not returned.                          *)

Stopping(e) == pc[e] = "stopping"

_create_socket_and_listen(e) ==
  /\ acceptor[e] = "bind"
  /\ acceptor' = [acceptor EXCEPT ![e] = IF Stopping(e) THEN "join" ELSE "accept"]
  /\ UNCHANGED <<remote, pc, conn, sent, got, queue, taken>>

(* Blocked until there is a connection, its client there or gone. *)
Accept(e) ==
  /\ acceptor[e] = "accept"
  /\ \E c \in Of(e) : /\ conn[c] = "pending"
                      /\ conn' = [conn EXCEPT ![c] = "new"]
  /\ acceptor' = [acceptor EXCEPT ![e] = IF Stopping(e) THEN "join" ELSE "accept"]
  /\ UNCHANGED <<remote, pc, sent, got, queue, taken>>

(* The threads of the connections are joined and the socket closed. *)
JoinHandlers(e) ==
  /\ acceptor[e] = "join"
  /\ \A c \in Of(e) : conn[c] \notin {"new", "reading"}
  /\ acceptor' = [acceptor EXCEPT ![e] = "ended"]
  /\ conn' = [c \in Client |->
                IF c \in Of(e) /\ conn[c] = "pending" THEN "reset" ELSE conn[c]]
  /\ UNCHANGED <<remote, pc, sent, got, queue, taken>>

-----------------------------------------------------------------------------
(* TcpListener::_client_handler_thread *)

Goes(c, next) ==
  conn' = [conn EXCEPT ![c] = IF Stopping(remote[c]) THEN "left" ELSE next]

Served(c, state) == remote[c] \in Endpoint /\ conn[c] = state

Begin(c) ==
  /\ Served(c, "new")
  /\ Goes(c, "reading")
  /\ UNCHANGED <<remote, pc, acceptor, sent, got, queue, taken>>

(* read takes what is there: several messages may make one packet. *)
Read(c) ==
  /\ Served(c, "reading")
  /\ \E n \in got[c] + 1 .. sent[c] :
       /\ queue' = [queue EXCEPT ![remote[c]] =
                      Append(@, [from |-> c, first |-> got[c] + 1, last |-> n])]
       /\ got' = [got EXCEPT ![c] = n]
  /\ Goes(c, "reading")
  /\ UNCHANGED <<remote, pc, acceptor, sent, taken>>

(* A faulty loop, which reads 0 bytes for ever. *)
ReadEndSpins(c) ==
  /\ Served(c, "reading")
  /\ pc[c] = "gone"
  /\ got[c] = sent[c]
  /\ UNCHANGED vars

(* The client has closed: read returns 0 at once, and again, until stop.   *)
ReadEnd(c) ==
  /\ Served(c, "reading")
  /\ pc[c] = "gone"
  /\ got[c] = sent[c]
  /\ Goes(c, "reading")
  /\ UNCHANGED <<remote, pc, acceptor, sent, got, queue, taken>>

(* It has reset the connection, which a TcpConnector never does: read      *)
(* returns -1, what it had not taken is lost, and the loop breaks.         *)
ReadFails(c) ==
  /\ Served(c, "reading")
  /\ c \in Visitor
  /\ pc[c] = "gone"
  /\ conn' = [conn EXCEPT ![c] = "left"]
  /\ UNCHANGED <<remote, pc, acceptor, sent, got, queue, taken>>

-----------------------------------------------------------------------------
(* The owner of an endpoint *)

(* A faulty get_next_packet, which does not pop what it returns. *)
GetNextPacketKeeps(e) ==
  /\ pc[e] = "stand"
  /\ queue[e] # <<>>
  /\ LET packet == Head(queue[e])
     IN  taken' = [taken EXCEPT ![packet.from] = packet.last]
  /\ UNCHANGED <<remote, pc, acceptor, conn, sent, got, queue>>

(* is_there_messages, then get_next_message.  A packet of several messages *)
(* does not parse: it is taken all the same.                               *)
get_next_packet(e) ==
  /\ pc[e] = "stand"
  /\ queue[e] # <<>>
  /\ LET packet == Head(queue[e])
     IN  taken' = [taken EXCEPT ![packet.from] = packet.last]
  /\ queue' = [queue EXCEPT ![e] = Tail(@)]
  /\ UNCHANGED <<remote, pc, acceptor, conn, sent, got>>

(* Destroying an endpoint destroys its listener, which stops, and then its *)
(* connector; a visitor has only a connection.                             *)
Stop(e) ==
  /\ pc[e] = "stand"
  /\ pc' = [pc EXCEPT ![e] = "stopping"]
  /\ UNCHANGED <<remote, acceptor, conn, sent, got, queue, taken>>

Destroyed(e) ==
  /\ pc[e] = "stopping"
  /\ acceptor[e] = "ended"
  /\ pc' = [pc EXCEPT ![e] = "gone"]
  /\ queue' = [queue EXCEPT ![e] = <<>>]
  /\ UNCHANGED <<remote, acceptor, conn, sent, got, taken>>

Leave(v) ==
  /\ pc[v] = "stand"
  /\ pc' = [pc EXCEPT ![v] = "gone"]
  /\ UNCHANGED <<remote, acceptor, conn, sent, got, queue, taken>>

-----------------------------------------------------------------------------

Thread(e)  == _create_socket_and_listen(e) \/ Accept(e) \/ JoinHandlers(e)
Handler(c) == Begin(c) \/ Read(c) \/ ReadEnd(c) \/ ReadFails(c)

Sender(c)  == Send(c) \/ SendFails(c) \/ SendKills(c)

Next == \/ \E c \in Client : Connect(c) \/ Sender(c) \/ Handler(c)
        \/ \E e \in Endpoint : Thread(e) \/ get_next_packet(e) \/ Stop(e) \/ Destroyed(e)
        \/ \E v \in Visitor : Leave(v)

Spec == Init /\ [][Next]_vars

(* Threads run, and a stop that may return does; nobody must connect, send *)
(* or destroy anything.                                                    *)
FairSpec == /\ Spec
            /\ \A e \in Endpoint : WF_vars(Thread(e)) /\ WF_vars(Destroyed(e))
            /\ \A c \in Client : WF_vars(Handler(c))

-----------------------------------------------------------------------------
(* Properties *)

TypeOK ==
  /\ remote \in [Client -> Endpoint \cup {Elsewhere}]
  /\ pc \in [Client -> {"connect", "stand", "stopping", "gone"}]
  /\ acceptor \in [Endpoint -> {"none", "bind", "accept", "join", "ended"}]
  /\ conn \in [Client -> {"none", "pending", "new", "reading", "left", "reset", "broken"}]
  /\ sent \in [Client -> Nat]
  /\ got \in [Client -> Nat]
  /\ queue \in [Endpoint -> Seq(Packet)]
  /\ taken \in [Client -> Nat]

(* Endpoints that face only each other never stand: each waits in its      *)
(* connector for a listener that is constructed after a connector.         *)
Facing(S) == \A e \in S : remote[e] \in S

FacingNeverStand ==
  \A S \in SUBSET Endpoint : Facing(S) => \A e \in S : pc[e] = "connect"

(* The packets of client c in queue q are its messages after number m and  *)
(* up to number n: each begins where the one before it ended.              *)
Carries(q, c, m, n) ==
  LET mine == { i \in DOMAIN q : q[i].from = c }
      EndOf(i)  == IF i = 0 THEN m ELSE q[i].last
      StartOf(j) == IF j > Len(q) THEN n + 1 ELSE q[j].first
  IN  \A i \in mine \cup {0}, j \in mine \cup {Len(q) + 1} :
        i < j /\ (\A k \in mine : k <= i \/ j <= k) => StartOf(j) = EndOf(i) + 1

(* Whatever threads share the queue: the packets of a client begin after   *)
(* the messages taken, follow each other and end with the last one read.   *)
MessagesInOrder ==
  \A c \in Client :
    remote[c] \in Endpoint /\ pc[remote[c]] # "gone" =>
      Carries(queue[remote[c]], c, taken[c], got[c])

(* stop joins a thread blocked in accept, which joins threads blocked in   *)
(* read.  It returns if one more connection comes and every client closes. *)
StopReturns ==
  \A e \in Endpoint :
    /\ Stopping(e)
    /\ \A c \in Of(e) : pc[c] = "gone"
    /\ acceptor[e] = "accept" => \E c \in Of(e) : conn[c] = "pending"
    ~> pc[e] = "gone"

=============================================================================
