------------------------------ MODULE DhcpServer ------------------------------
(***************************************************************************)
(* The dhcp process (dhcp/src/DhcpServer.cpp, UdpListener.cpp and the      *)
(* handler dhcp_pool_create of ApiHandlers.cpp): three threads in one      *)
(* address space.                                                          *)
(*   - main runs DhcpServer::main_loop,                                    *)
(*   - the UDP thread appends datagrams to a queue under its mutex,        *)
(*   - the API thread adds pools under _state_change_mutex.                *)
(* Every critical section is one action; nothing is locked between them.   *)
(*                                                                         *)
(* The bounds MaxQueue and MaxPools stand for memory: the code has none.   *)
(***************************************************************************)
EXTENDS PoolMethods, Sequences

CONSTANTS
  Xid,        \* transaction identifiers
  Traffic,    \* the datagrams the network may deliver
  Requests,   \* the ranges <<start, end>> the operator may ask to add
  MaxQueue,
  MaxPools

(* A datagram, by what main_loop tells apart: whether its interface is one *)
(* the server enumerated at startup, whether parsing it throws, its op,    *)
(* the value of option 53, and the fields the reply is built from.         *)
Datagram == [ known      : BOOLEAN,
              wellformed : BOOLEAN,
              op         : {"BOOTREQUEST", "BOOTREPLY"},
              type       : {"none", "DISCOVER", "REQUEST", "other"},
              xid        : Xid,
              mac        : Mac ]

ASSUME TrafficAssumption == Traffic \subseteq Datagram
ASSUME RequestsAssumption == Requests \subseteq Ip \X Ip

Reply == [type : {"OFFER", "ACK"}, xid : Xid, mac : Mac, ip : Ip]

VARIABLES
  pools,    \* _address_pools
  queue,    \* UdpServer::_queue
  xids,     \* the local map of main_loop, from a transaction to an address
  pc,       \* what main does next; "terminated" once an exception got out
  packet,   \* main's current datagram, as a sequence of at most one
  reply,    \* the reply main is about to send, likewise
  api,      \* the range whose pool the API thread is building, likewise
  offers    \* history: every offer that was sent

vars == <<pools, queue, xids, pc, packet, reply, api, offers>>

(* The socket is bound.  If it cannot be, the constructor of UdpServer     *)
(* throws out of main_loop, and there is no main_loop to speak of.         *)
Init == /\ pools = <<>>
        /\ queue = <<>>
        /\ xids = [x \in Xid |-> NoIp]
        /\ pc = "have_free_address"
        /\ packet = <<>>
        /\ reply = <<>>
        /\ api = <<>>
        /\ offers = {}

Running == pc # "terminated"

-----------------------------------------------------------------------------
(* The UDP thread: recvmsg returned d. *)
Receive(d) ==
  /\ Running
  /\ Len(queue) < MaxQueue
  /\ queue' = Append(queue, d)
  /\ UNCHANGED <<pools, xids, pc, packet, reply, api, offers>>

-----------------------------------------------------------------------------
(* The API thread: dhcp_pool_create *)

(* A faulty test: only the start of the new range is compared. *)
IntersectsStartOnly(p, start, end) == start >= p.start /\ start <= p.end

(* The test of add_address_pool: an end of the new range start..end lies   *)
(* in the range of p.                                                      *)
Intersects(p, start, end) ==
  \/ start >= p.start /\ start <= p.end
  \/ end >= p.start /\ end <= p.end

(* Both addresses of the request have been parsed: the CLI sends what      *)
(* IPv4Address::to_string made of them.                                    *)
CreatePool(range) ==
  /\ Running
  /\ api = <<>>
  /\ Len(pools) < MaxPools
  /\ api' = <<range>>
  /\ UNCHANGED <<pools, queue, xids, pc, packet, reply, offers>>

(* The pool is built before the lock is taken.  For a range that ends with *)
(* the last address the constructor does not return (AddressPool.tla), and *)
(* the thread stays where it is.                                           *)
add_address_pool ==
  /\ Running
  /\ api # <<>>
  /\ LET start == api[1][1]
         end   == api[1][2]
     IN  /\ end # LastIp
         /\ pools' = IF \E i \in DOMAIN pools : Intersects(pools[i], start, end)
                     THEN pools
                     ELSE Append(pools, EmptyPool(start, end, start .. end))
  /\ api' = <<>>
  /\ UNCHANGED <<queue, xids, pc, packet, reply, offers>>

-----------------------------------------------------------------------------
(* main *)

(* Any exception leaves main_loop and main, and ends the process. *)
Terminate == /\ pc' = "terminated"
             /\ UNCHANGED <<pools, queue, xids, packet, reply, api, offers>>

NextIteration == pc' = "have_free_address" /\ packet' = <<>> /\ reply' = <<>>

(* A faulty check: the loop stops serving once the first pool has no free  *)
(* address, although clients that hold one could still be answered.        *)
HaveFreeInFirstPool ==
  /\ pc = "have_free_address"
  /\ pools # <<>>
  /\ Free(pools[1]) # {}
  /\ pc' = "is_input_queue_blank"
  /\ UNCHANGED <<pools, queue, xids, packet, reply, api, offers>>

(* True whenever there is a pool, whatever is free in it. *)
have_free_address ==
  /\ pc = "have_free_address"
  /\ pools # <<>>
  /\ pc' = "is_input_queue_blank"
  /\ UNCHANGED <<pools, queue, xids, packet, reply, api, offers>>

(* A faulty check: the continue that follows it is missing. *)
BlankQueueIgnored ==
  /\ pc = "is_input_queue_blank"
  /\ pc' = "get_next_datagram"
  /\ UNCHANGED <<pools, queue, xids, packet, reply, api, offers>>

is_input_queue_blank ==
  /\ pc = "is_input_queue_blank"
  /\ pc' = IF queue = <<>> THEN "have_free_address" ELSE "get_next_datagram"
  /\ UNCHANGED <<pools, queue, xids, packet, reply, api, offers>>

(* front() and pop() of an empty queue are undefined. *)
get_next_datagram ==
  /\ pc = "get_next_datagram"
  /\ queue # <<>>
  /\ packet' = <<Head(queue)>>
  /\ queue' = Tail(queue)
  /\ pc' = "handle"
  /\ UNCHANGED <<pools, xids, reply, api, offers>>

(* find_if found no interface and its result, end(), is dereferenced:      *)
(* undefined, so that the process may die here or go on with any contents  *)
(* of interface (the other actions of "handle").                           *)
UnknownInterface ==
  /\ pc = "handle"
  /\ ~packet[1].known
  /\ Terminate

ParseThrows ==
  /\ pc = "handle"
  /\ ~packet[1].wellformed
  /\ Terminate

Ignore ==
  /\ pc = "handle"
  /\ packet[1].wellformed
  /\ packet[1].op # "BOOTREQUEST" \/ packet[1].type \in {"none", "other"}
  /\ NextIteration
  /\ UNCHANGED <<pools, queue, xids, api, offers>>

IsRequest(type) == /\ pc = "handle"
                   /\ packet[1].wellformed
                   /\ packet[1].op = "BOOTREQUEST"
                   /\ packet[1].type = type

(* _address_pools.at(0).get_address(mac) *)
take_address(mac) == get_address(pools[1], mac)

Discover ==
  /\ IsRequest("DISCOVER")
  /\ LET d == packet[1]
     IN  \E ip \in take_address(d.mac) :
            /\ pools' = [pools EXCEPT ![1] = Take(pools[1], d.mac, ip)]
            /\ xids' = [xids EXCEPT ![d.xid] = ip]
            /\ reply' = <<[type |-> "OFFER", xid |-> d.xid, mac |-> d.mac, ip |-> ip]>>
  /\ pc' = "send"
  /\ UNCHANGED <<queue, packet, api, offers>>

DiscoverThrows ==
  /\ IsRequest("DISCOVER")
  /\ take_address(packet[1].mac) = {}
  /\ Terminate

(* A faulty lookup, which does not insert the missing entry. *)
AcknowledgedMissing(x) == xids[x]

(* xids[xid] inserts the address 0.0.0.0 when the transaction is unknown. *)
Acknowledged(x) == IF xids[x] = NoIp THEN 0 ELSE xids[x]

Request ==
  /\ IsRequest("REQUEST")
  /\ LET d == packet[1]
     IN  /\ xids' = [xids EXCEPT ![d.xid] = Acknowledged(d.xid)]
         /\ reply' = <<[type |-> "ACK", xid |-> d.xid, mac |-> d.mac,
                        ip |-> Acknowledged(d.xid)]>>
  /\ pc' = "send"
  /\ UNCHANGED <<pools, queue, packet, api, offers>>

broadcast_send_to ==
  /\ pc = "send"
  /\ offers' = IF reply[1].type = "OFFER" THEN offers \cup {reply[1]} ELSE offers
  /\ NextIteration
  /\ UNCHANGED <<pools, queue, xids, api>>

SendThrows == pc = "send" /\ Terminate

-----------------------------------------------------------------------------

Udp == \E d \in Traffic : Receive(d)

Handle == \/ UnknownInterface
          \/ ParseThrows
          \/ Ignore
          \/ Discover
          \/ DiscoverThrows
          \/ Request

MainLoop == \/ have_free_address
            \/ is_input_queue_blank
            \/ get_next_datagram
            \/ Handle
            \/ broadcast_send_to
            \/ SendThrows

Next == \/ Udp
        \/ \E range \in Requests : CreatePool(range)
        \/ add_address_pool
        \/ MainLoop

Spec == Init /\ [][Next]_vars

(* The scheduler runs both threads; nothing obliges clients or the         *)
(* operator to send anything.                                              *)
FairSpec == Spec /\ WF_vars(MainLoop) /\ WF_vars(add_address_pool)

-----------------------------------------------------------------------------
(* Properties *)

TypeOK == /\ pools \in Seq(Pool)
          /\ queue \in Seq(Datagram)
          /\ xids \in [Xid -> Ip \cup {NoIp}]
          /\ pc \in {"have_free_address", "is_input_queue_blank", "get_next_datagram",
                     "handle", "send", "terminated"}
          /\ packet \in {<<>>} \cup { <<d>> : d \in Datagram }
          /\ reply \in {<<>>} \cup { <<r>> : r \in Reply }
          /\ api \in {<<>>} \cup { <<range>> : range \in Ip \X Ip }
          /\ offers \subseteq Reply

(* main_loop checks that there is a pool and that the queue is not empty,  *)
(* lets go of both locks, and acts afterwards.  What it checked still      *)
(* holds when it pops the queue and when it indexes _address_pools with 0. *)
ChecksStillHold ==
  /\ pc = "get_next_datagram" => queue # <<>>
  /\ pc \in {"is_input_queue_blank", "get_next_datagram", "handle", "send"}
       => pools # <<>>

(* Two offers name the same address exactly when they go to the same       *)
(* client: no client is ever offered another one's address, and none is    *)
(* offered a second address, whatever pools are added meanwhile.           *)
OffersExclusive == \A o1, o2 \in offers : o1.ip = o2.ip <=> o1.mac = o2.mac

(* A DHCPACK for a transaction no other client used names the address its  *)
(* client holds, or 0.0.0.0 when nothing was offered in that transaction.  *)
AckNamesOwnLease ==
  [][ pc = "handle" /\ pc' = "send" /\ reply'[1].type = "ACK" =>
        LET ack   == reply'[1]
            given == { o \in offers : o.xid = ack.xid }
        IN  (\A o \in given : o.mac = ack.mac) =>
              ack.ip = IF given = {} THEN 0 ELSE pools[1].taken_mac[ack.mac] ]_vars

(* The process ends only for a datagram it cannot read, an interface it    *)
(* does not know, a failed send, or a client that finds every address of   *)
(* the first pool leased to another client.                                *)
AllLeased(p) == \A ip \in p.included : \E m \in Mac : p.taken_mac[m] = ip

TerminatesOnlyWhen ==
  pc = "terminated" =>
    \/ reply # <<>>
    \/ ~packet[1].known \/ ~packet[1].wellformed
    \/ AllLeased(pools[1]) /\ pools[1].taken_mac[packet[1].mac] = NoIp

(* add_address_pool lets two pools share an address in one case only: the  *)
(* later one encloses the earlier one.                                     *)
OverlapOnlyByEnclosure ==
  \A i, j \in DOMAIN pools :
    i < j /\ pools[i].included \cap pools[j].included # {}
      => pools[j].start < pools[i].start /\ pools[i].end < pools[j].end

(* A DHCPDISCOVER in the queue of a server with a pool is answered with an *)
(* offer, unless the process ends first.                                   *)
DiscoverAnswered ==
  \A d \in { t \in Traffic : t.wellformed /\ t.op = "BOOTREQUEST" /\ t.type = "DISCOVER" } :
    pools # <<>> /\ (\E i \in DOMAIN queue : queue[i] = d)
      ~> \/ \E o \in offers : o.mac = d.mac /\ o.xid = d.xid
         \/ pc = "terminated"

(* The leases of the first pool keep the promise of Leases.tla: the pools  *)
(* added later, and the interleaving with main_loop, do not disturb them.  *)
Lease == INSTANCE Leases WITH
           Client <- Mac, Address <- Ip, None <- NoIp,
           lease  <- IF pools = <<>> THEN [m \in Mac |-> NoIp] ELSE pools[1].taken_mac,
           usable <- IF pools = <<>> THEN Ip ELSE pools[1].included

ImplementsLeases == Lease!Spec

-----------------------------------------------------------------------------
(* DhcpServer.cpp:184 and :188 refuse a pool with the words "Intersection  *)
(* of address pools": no two pools would share an address.                 *)
PoolsDisjoint ==
  \A i, j \in DOMAIN pools :
    i # j => pools[i].included \cap pools[j].included = {}

=============================================================================
