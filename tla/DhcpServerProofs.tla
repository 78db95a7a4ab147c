--------------------------- MODULE DhcpServerProofs ---------------------------
(***************************************************************************)
(* Theorems about DhcpServer.tla, for every address space, set of clients  *)
(* and transactions, traffic, requested ranges and bounds.                 *)
(***************************************************************************)
EXTENDS DhcpServer, PoolLemmas, WellFoundedInduction, SequenceTheorems

-----------------------------------------------------------------------------
(* A pool of the server is never reserved from nor excluded from, so it is *)
(* more regular than PoolInv: its addresses are its range, and both maps   *)
(* of leases hold the same pairs.                                          *)
ServedPool(p) ==
  /\ PoolInv(p)
  /\ p.included = p.start .. p.end
  /\ \A ip \in Ip : p.reserved_ip[ip] = NoMac
  /\ \A m \in Mac : p.reserved_mac[m] = NoIp
  /\ \A ip \in Ip : p.taken_ip[ip] # NoMac => p.taken_mac[p.taken_ip[ip]] = ip

ServedPools == \A i \in DOMAIN pools : ServedPool(pools[i])

(* What main holds at each step of its loop. *)
MainHolds ==
  /\ pc \in {"have_free_address", "is_input_queue_blank", "get_next_datagram"}
       => packet = <<>> /\ reply = <<>>
  /\ pc = "handle" => packet # <<>> /\ reply = <<>>
  /\ pc = "send" => packet # <<>> /\ reply # <<>>

(* The offers a client was sent, or is about to be sent. *)
Offered == offers \cup { o \in Reply : reply = <<o>> /\ o.type = "OFFER" }

(* What a client was offered is what it holds in the first pool. *)
OffersHeld ==
  \A o \in Offered : pools # <<>> /\ pools[1].taken_mac[o.mac] = o.ip

(* The entry of a transaction is the address of one of its offers, and     *)
(* missing or 0.0.0.0 when there was none.                                 *)
XidsOffered ==
  \A x \in Xid :
    \/ \E o \in Offered : o.xid = x /\ xids[x] = o.ip
    \/ (\A o \in Offered : o.xid # x) /\ xids[x] \in {NoIp, 0}

IInv == /\ TypeOK
        /\ ServedPools
        /\ ChecksStillHold
        /\ MainHolds
        /\ OffersHeld
        /\ XidsOffered
        /\ OverlapOnlyByEnclosure
        /\ TerminatesOnlyWhen

-----------------------------------------------------------------------------
(* Facts about the data *)

(* A set of numbers has a least element. *)
LEMMA LeastElement ==
  ASSUME NEW S, S \subseteq Nat, S # {}
  PROVE  \E x \in S : \A y \in S : x <= y
<1> DEFINE R == { ss \in Nat \X Nat : ss[1] < ss[2] }
<1>1. IsWellFoundedOn(R, Nat)
  BY NatLessThanWellFounded DEF OpToRel
<1>2. \A x, y \in Nat : <<x, y>> \in R <=> x < y
  OBVIOUS
<1> HIDE DEF R
<1>3. PICK x \in S : \A y \in S : <<y, x>> \notin R
  BY <1>1, WFMin
<1>4. \A y \in S : ~(y < x)
  BY <1>2, <1>3
<1>5. QED
  BY <1>4

LEMMA EmptyPoolServed ==
  ASSUME NEW start \in Ip, NEW end \in Ip
  PROVE  ServedPool(EmptyPool(start, end, start .. end))
<1> DEFINE p == EmptyPool(start, end, start .. end)
<1>1. start .. end \in SUBSET Ip
  BY AddressSpaceAssumption DEF Ip
<1>2. PoolInv(p)
  BY <1>1, EmptyPoolInv
<1>3. /\ p.included = p.start .. p.end
      /\ p.reserved_ip = [ip \in Ip |-> NoMac]
      /\ p.reserved_mac = [m \in Mac |-> NoIp]
      /\ p.taken_ip = [ip \in Ip |-> NoMac]
  BY DEF EmptyPool
<1> HIDE DEF p
<1>4. ServedPool(p)
  BY <1>2, <1>3 DEF ServedPool
<1>5. QED
  BY <1>4 DEF p

(* get_address on a pool without reservations: the client's own lease, or  *)
(* an address nobody holds; either way no other client's lease changes.    *)
LEMMA TakeServed ==
  ASSUME NEW p, ServedPool(p), NEW mac \in Mac, NEW ip \in get_address(p, mac)
  PROVE  LET q == Take(p, mac, ip)
         IN  /\ ip \in Ip
             /\ ServedPool(q) /\ q \in Pool
             /\ q.start = p.start /\ q.end = p.end /\ q.included = p.included
             /\ q.taken_mac = [p.taken_mac EXCEPT ![mac] = ip]
             /\ p.taken_mac[mac] \in {NoIp, ip}
             /\ q.taken_mac # p.taken_mac =>
                  ip \in p.included /\ \A other \in Mac \ {mac} : p.taken_mac[other] # ip
<1> DEFINE q == Take(p, mac, ip)
<1>1. /\ p \in Pool /\ PoolInv(p) /\ p.reserved_mac[mac] = NoIp
      /\ p.taken_mac \in [Mac -> Ip \cup {NoIp}]
      /\ p.taken_ip \in [Ip -> Mac \cup {NoMac}]
  BY DEF ServedPool, PoolInv, Pool
<1>2. PoolInv(q) /\ q \in Pool
  BY <1>1, TakePreserves DEF PoolInv
<1>3. /\ ip \in Ip
      /\ \/ ip = p.taken_mac[mac] /\ p.taken_mac[mac] # NoIp
         \/ p.taken_mac[mac] = NoIp /\ ip \in Free(p)
  BY <1>1, GetAddressCases, IpFacts
<1>4. /\ q.start = p.start /\ q.end = p.end /\ q.included = p.included
      /\ q.reserved_ip = p.reserved_ip /\ q.reserved_mac = p.reserved_mac
      /\ IF p.taken_mac[mac] # NoIp
         THEN q.taken_ip = p.taken_ip /\ q.taken_mac = p.taken_mac
         ELSE /\ q.taken_ip = [p.taken_ip EXCEPT ![ip] = mac]
              /\ q.taken_mac = [p.taken_mac EXCEPT ![mac] = ip]
  BY <1>1, <1>3, TakeFields
<1> HIDE DEF q
<1>5. CASE p.taken_mac[mac] # NoIp
  <2>1. q.taken_mac = [p.taken_mac EXCEPT ![mac] = ip]
    BY <1>1, <1>3, <1>4, <1>5
  <2>2. ServedPool(q)
    BY <1>2, <1>4, <1>5 DEF ServedPool
  <2>3. QED
    BY <1>2, <1>3, <1>4, <1>5, <2>1, <2>2 DEF q
<1>6. CASE p.taken_mac[mac] = NoIp
  <2>1. ip \in p.included /\ p.taken_ip[ip] = NoMac
    BY <1>3, <1>6 DEF Free
  <2>2. \A other \in Mac \ {mac} : p.taken_mac[other] # ip
    BY <1>1, GetAddressUncontended
  <2>3. ASSUME NEW x \in Ip, q.taken_ip[x] # NoMac
        PROVE  q.taken_mac[q.taken_ip[x]] = x
    <3>1. CASE x = ip
      BY <3>1, <1>1, <1>3, <1>4, <1>6
    <3>2. CASE x # ip
      <4>1. q.taken_ip[x] = p.taken_ip[x] /\ p.taken_ip[x] \in Mac
        BY <2>3, <3>2, <1>1, <1>4, <1>6
      <4>2. p.taken_mac[p.taken_ip[x]] = x
        BY <2>3, <4>1 DEF ServedPool
      <4>3. p.taken_ip[x] # mac
        BY <4>2, <1>6, NoIpAssumption DEF Ip
      <4>4. QED
        BY <4>1, <4>2, <4>3, <1>1, <1>4, <1>6
    <3>3. QED
      BY <3>1, <3>2
  <2>4. ServedPool(q)
    BY <1>2, <1>4, <2>3 DEF ServedPool
  <2>5. QED
    BY <1>2, <1>3, <1>4, <1>6, <2>1, <2>2, <2>4 DEF q
<1>7. QED
  BY <1>5, <1>6

(* get_address throws only when every address of the pool is some other    *)
(* client's.                                                               *)
LEMMA ThrowsAllLeased ==
  ASSUME NEW p, ServedPool(p), NEW mac \in Mac, get_address(p, mac) = {}
  PROVE  AllLeased(p) /\ p.taken_mac[mac] = NoIp
<1>1. /\ p.included \subseteq Ip
      /\ p.taken_ip \in [Ip -> Mac \cup {NoMac}]
      /\ p.cache[mac] = NoIp /\ p.reserved_mac[mac] = NoIp
  BY DEF ServedPool, PoolInv, Pool, CacheEmpty
<1>2. p.taken_mac[mac] = NoIp /\ FirstFree(p) = {}
  BY <1>1 DEF get_address
<1>3. Free(p) = {}
  <2>1. Free(p) \subseteq Nat
    BY <1>1, IpFacts DEF Free
  <2>2. QED
    BY <1>2, <2>1, LeastElement DEF FirstFree
<1>4. ASSUME NEW ip \in p.included
      PROVE  \E m \in Mac : p.taken_mac[m] = ip
  <2>1. ip \in Ip /\ p.taken_ip[ip] # NoMac
    BY <1>1, <1>3 DEF Free, ServedPool
  <2>2. p.taken_ip[ip] \in Mac /\ p.taken_mac[p.taken_ip[ip]] = ip
    BY <1>1, <2>1 DEF ServedPool
  <2>3. QED
    BY <2>2
<1>5. QED
  BY <1>2, <1>4 DEF AllLeased

-----------------------------------------------------------------------------
(* The steps *)

LEMMA InitIInv == Init => IInv
<1> SUFFICES ASSUME Init PROVE IInv
  OBVIOUS
<1>1. /\ pools = <<>> /\ queue = <<>> /\ xids = [x \in Xid |-> NoIp]
      /\ pc = "have_free_address"
      /\ packet = <<>> /\ reply = <<>> /\ api = <<>> /\ offers = {}
  BY DEF Init
<1>2. TypeOK
  BY <1>1 DEF TypeOK
<1>3. DOMAIN pools = {}
  BY <1>1
<1>4. Offered = {}
  BY <1>1 DEF Offered
<1>5. ServedPools /\ OverlapOnlyByEnclosure
  BY <1>3 DEF ServedPools, OverlapOnlyByEnclosure
<1>6. OffersHeld /\ XidsOffered
  BY <1>1, <1>4 DEF OffersHeld, XidsOffered
<1>7. ChecksStillHold /\ MainHolds /\ TerminatesOnlyWhen
  BY <1>1 DEF ChecksStillHold, MainHolds, TerminatesOnlyWhen
<1>8. QED
  BY <1>2, <1>5, <1>6, <1>7 DEF IInv

(* The parts of IInv about the pools and the offers depend on four of the  *)
(* variables only.                                                         *)
LEMMA SameData ==
  ASSUME IInv, UNCHANGED <<pools, xids, reply, offers>>
  PROVE  ServedPools' /\ OffersHeld' /\ XidsOffered' /\ OverlapOnlyByEnclosure'
BY DEF IInv, ServedPools, OffersHeld, XidsOffered, OverlapOnlyByEnclosure, Offered

(* The other threads do not look at what main holds. *)
LEMMA ReceiveIInv ==
  ASSUME NEW d \in Traffic
  PROVE  IInv /\ Receive(d) => IInv'
<1> SUFFICES ASSUME IInv, Receive(d) PROVE IInv'
  OBVIOUS
<1>1. /\ pc # "terminated" /\ queue' = Append(queue, d)
      /\ UNCHANGED <<pools, xids, pc, packet, reply, api, offers>>
  BY DEF Receive, Running
<1>2. d \in Datagram /\ queue \in Seq(Datagram)
  BY TrafficAssumption DEF IInv, TypeOK
<1>3. queue' \in Seq(Datagram) /\ queue' # <<>>
  BY <1>1, <1>2
<1>4. TypeOK'
  BY <1>1, <1>3 DEF IInv, TypeOK
<1>5. ChecksStillHold' /\ MainHolds' /\ TerminatesOnlyWhen'
  BY <1>1, <1>3 DEF IInv, ChecksStillHold, MainHolds, TerminatesOnlyWhen
<1>6. QED
  BY <1>1, <1>4, <1>5, SameData DEF IInv

LEMMA CreatePoolIInv ==
  ASSUME NEW range \in Requests
  PROVE  IInv /\ CreatePool(range) => IInv'
<1> SUFFICES ASSUME IInv, CreatePool(range) PROVE IInv'
  OBVIOUS
<1>1. /\ pc # "terminated" /\ api' = <<range>>
      /\ UNCHANGED <<pools, queue, xids, pc, packet, reply, offers>>
  BY DEF CreatePool, Running
<1>2. range \in Ip \X Ip
  BY RequestsAssumption
<1>3. TypeOK'
  BY <1>1, <1>2 DEF IInv, TypeOK
<1>4. ChecksStillHold' /\ MainHolds' /\ TerminatesOnlyWhen'
  BY <1>1 DEF IInv, ChecksStillHold, MainHolds, TerminatesOnlyWhen
<1>5. QED
  BY <1>1, <1>3, <1>4, SameData DEF IInv

(* A range none of whose ends lies in another range shares an address with *)
(* it only when it encloses it.                                            *)
LEMMA NotIntersecting ==
  ASSUME NEW p, NEW q, p.start \in Ip, p.end \in Ip, q.start \in Ip, q.end \in Ip,
         ~Intersects(p, q.start, q.end),
         NEW ip \in (p.start .. p.end) \cap (q.start .. q.end)
  PROVE  q.start < p.start /\ p.end < q.end
<1>1. p.start \in Nat /\ p.end \in Nat /\ q.start \in Nat /\ q.end \in Nat
  BY IpFacts
<1>2. /\ ip \in Nat /\ p.start <= ip /\ ip <= p.end /\ q.start <= ip /\ ip <= q.end
  BY <1>1
<1>3. /\ ~(q.start >= p.start /\ q.start <= p.end)
      /\ ~(q.end >= p.start /\ q.end <= p.end)
  BY DEF Intersects
<1>4. QED
  BY <1>1, <1>2, <1>3

(* What add_address_pool does to the sequence of pools.                    *)
LEMMA AddPoolStep ==
  ASSUME IInv, add_address_pool
  PROVE  \/ pools' = pools
         \/ \E start, end \in Ip :
              /\ pools' = Append(pools, EmptyPool(start, end, start .. end))
              /\ \A i \in DOMAIN pools : ~Intersects(pools[i], start, end)
<1>1. PICK range \in Ip \X Ip : api = <<range>>
  BY DEF IInv, TypeOK, add_address_pool
<1>2. api[1] = range /\ range[1] \in Ip /\ range[2] \in Ip
  BY <1>1
<1>3. QED
  BY <1>2 DEF add_address_pool

LEMMA AddPoolIInv == IInv /\ add_address_pool => IInv'
<1> SUFFICES ASSUME IInv, add_address_pool PROVE IInv'
  OBVIOUS
<1>1. /\ pc # "terminated" /\ api' = <<>>
      /\ UNCHANGED <<queue, xids, pc, packet, reply, offers>>
  BY DEF add_address_pool, Running
<1>2. CASE pools' = pools
  <2>1. TypeOK'
    BY <1>1, <1>2 DEF IInv, TypeOK
  <2>2. ChecksStillHold' /\ MainHolds' /\ TerminatesOnlyWhen'
    BY <1>1, <1>2 DEF IInv, ChecksStillHold, MainHolds, TerminatesOnlyWhen
  <2>3. QED
    BY <1>1, <1>2, <2>1, <2>2, SameData DEF IInv
<1>3. ASSUME NEW start \in Ip, NEW end \in Ip,
             pools' = Append(pools, EmptyPool(start, end, start .. end)),
             \A i \in DOMAIN pools : ~Intersects(pools[i], start, end)
      PROVE  IInv'
  <2> DEFINE new == EmptyPool(start, end, start .. end)
  <2>1. new.start = start /\ new.end = end /\ ServedPool(new)
    BY EmptyPoolServed DEF EmptyPool
  <2>2. new \in Pool
    BY <2>1 DEF ServedPool, PoolInv
  <2>3. pools' = Append(pools, new)
    BY <1>3
  <2> HIDE DEF new
  <2>4. pools \in Seq(Pool) /\ pools' \in Seq(Pool)
    BY <2>2, <2>3 DEF IInv, TypeOK
  <2>5. /\ DOMAIN pools = 1 .. Len(pools) /\ DOMAIN pools' = 1 .. Len(pools) + 1
        /\ Len(pools) \in Nat
        /\ \A i \in DOMAIN pools : pools'[i] = pools[i]
        /\ pools'[Len(pools) + 1] = new
    BY <2>2, <2>3, <2>4
  <2>6. pools' # <<>> /\ (pools # <<>> => pools'[1] = pools[1])
    BY <2>4, <2>5
  <2>7. TypeOK'
    BY <1>1, <2>4 DEF IInv, TypeOK
  <2>8. ServedPools'
    <3> SUFFICES ASSUME NEW i \in DOMAIN pools' PROVE ServedPool(pools'[i])
      BY DEF ServedPools
    <3>1. CASE i \in DOMAIN pools
      BY <3>1, <2>5 DEF IInv, ServedPools
    <3>2. CASE i = Len(pools) + 1
      BY <3>2, <2>1, <2>5
    <3>3. QED
      BY <3>1, <3>2, <2>5
  <2>9. ChecksStillHold' /\ MainHolds' /\ TerminatesOnlyWhen'
    BY <1>1, <2>6 DEF IInv, ChecksStillHold, MainHolds, TerminatesOnlyWhen
  <2>10. OffersHeld' /\ XidsOffered'
    <3>1. Offered' = Offered
      BY <1>1 DEF Offered
    <3>2. QED
      BY <1>1, <2>6, <3>1 DEF IInv, OffersHeld, XidsOffered
  <2>11. OverlapOnlyByEnclosure'
    <3> SUFFICES ASSUME NEW i \in DOMAIN pools', NEW j \in DOMAIN pools', i < j,
                        pools'[i].included \cap pools'[j].included # {}
                 PROVE  pools'[j].start < pools'[i].start /\ pools'[i].end < pools'[j].end
      BY DEF OverlapOnlyByEnclosure
    <3>1. i \in DOMAIN pools
      BY <2>5
    <3>2. CASE j \in DOMAIN pools
      BY <3>1, <3>2, <2>5 DEF IInv, OverlapOnlyByEnclosure
    <3>3. CASE j = Len(pools) + 1
      <4> DEFINE p == pools[i]
      <4>1. pools'[i] = p /\ pools'[j] = new
        BY <3>1, <3>3, <2>5
      <4>2. ~Intersects(p, new.start, new.end)
        BY <3>1, <1>3, <2>1
      <4>3. ServedPool(p) /\ p \in Pool
        BY <3>1, <2>4 DEF IInv, ServedPools, ServedPool, PoolInv
      <4> HIDE DEF p
      <4>4. /\ p.included = p.start .. p.end /\ new.included = new.start .. new.end
            /\ p.start \in Ip /\ p.end \in Ip /\ new.start \in Ip /\ new.end \in Ip
        BY <4>3, <2>1 DEF ServedPool, Pool
      <4>5. PICK ip : ip \in (p.start .. p.end) \cap (new.start .. new.end)
        BY <4>1, <4>4
      <4>6. QED
        BY <4>1, <4>2, <4>4, <4>5, NotIntersecting
    <3>4. QED
      BY <3>2, <3>3, <2>5
  <2>12. QED
    BY <2>7, <2>8, <2>9, <2>10, <2>11 DEF IInv
<1>4. QED
  BY <1>2, <1>3, AddPoolStep

-----------------------------------------------------------------------------
(* The steps of main *)

(* The offers counted when there is no reply, and when there is one.       *)
LEMMA OfferedNone == reply = <<>> => Offered = offers
BY DEF Offered

LEMMA OfferedReply ==
  ASSUME NEW r \in Reply, reply = <<r>>
  PROVE  Offered = IF r.type = "OFFER" THEN offers \cup {r} ELSE offers
<1>1. \A o \in Reply : reply = <<o>> <=> o = r
  OBVIOUS
<1>2. QED
  BY <1>1 DEF Offered

LEMMA ChecksIInv == IInv /\ (have_free_address \/ is_input_queue_blank) => IInv'
<1> SUFFICES ASSUME IInv, have_free_address \/ is_input_queue_blank PROVE IInv'
  OBVIOUS
<1>1. UNCHANGED <<pools, queue, xids, packet, reply, api, offers>>
  BY DEF have_free_address, is_input_queue_blank
<1>2. \/ pc = "have_free_address" /\ pools # <<>> /\ pc' = "is_input_queue_blank"
      \/ pc = "is_input_queue_blank" /\ pc' = "have_free_address"
      \/ pc = "is_input_queue_blank" /\ queue # <<>> /\ pc' = "get_next_datagram"
  BY DEF have_free_address, is_input_queue_blank
<1>3. TypeOK'
  BY <1>1, <1>2 DEF IInv, TypeOK
<1>4. ChecksStillHold' /\ MainHolds' /\ TerminatesOnlyWhen'
  BY <1>1, <1>2 DEF IInv, ChecksStillHold, MainHolds, TerminatesOnlyWhen
<1>5. QED
  BY <1>1, <1>3, <1>4, SameData DEF IInv

LEMMA GetNextIInv == IInv /\ get_next_datagram => IInv'
<1> SUFFICES ASSUME IInv, get_next_datagram PROVE IInv'
  OBVIOUS
<1>1. /\ pc = "get_next_datagram" /\ pc' = "handle" /\ queue # <<>>
      /\ packet' = <<Head(queue)>> /\ queue' = Tail(queue)
      /\ UNCHANGED <<pools, xids, reply, api, offers>>
  BY DEF get_next_datagram
<1>2. Head(queue) \in Datagram /\ Tail(queue) \in Seq(Datagram)
  BY <1>1 DEF IInv, TypeOK
<1>3. TypeOK'
  BY <1>1, <1>2 DEF IInv, TypeOK
<1>4. ChecksStillHold' /\ MainHolds' /\ TerminatesOnlyWhen'
  BY <1>1 DEF IInv, ChecksStillHold, MainHolds, TerminatesOnlyWhen
<1>5. QED
  BY <1>1, <1>3, <1>4, SameData DEF IInv

(* The process ends for one of the four causes.                            *)
LEMMA TerminateIInv ==
  ASSUME IInv, Terminate,
         \/ reply # <<>>
         \/ ~packet[1].known \/ ~packet[1].wellformed
         \/ AllLeased(pools[1]) /\ pools[1].taken_mac[packet[1].mac] = NoIp
  PROVE  IInv'
<1>1. /\ pc' = "terminated"
      /\ UNCHANGED <<pools, queue, xids, packet, reply, api, offers>>
  BY DEF Terminate
<1>2. TypeOK'
  BY <1>1 DEF IInv, TypeOK
<1>3. ChecksStillHold' /\ MainHolds' /\ TerminatesOnlyWhen'
  BY <1>1 DEF ChecksStillHold, MainHolds, TerminatesOnlyWhen, AllLeased
<1>4. QED
  BY <1>1, <1>2, <1>3, SameData DEF IInv

LEMMA ThrowsIInv ==
  IInv /\ (UnknownInterface \/ ParseThrows \/ DiscoverThrows \/ SendThrows) => IInv'
<1> SUFFICES ASSUME IInv, UnknownInterface \/ ParseThrows \/ DiscoverThrows \/ SendThrows
             PROVE  IInv'
  OBVIOUS
<1>1. CASE UnknownInterface \/ ParseThrows
  BY <1>1, TerminateIInv DEF UnknownInterface, ParseThrows
<1>2. CASE SendThrows
  BY <1>2, TerminateIInv DEF SendThrows, IInv, MainHolds
<1>3. CASE DiscoverThrows
  <2>1. pc = "handle" /\ Terminate /\ get_address(pools[1], packet[1].mac) = {}
    BY <1>3 DEF DiscoverThrows, IsRequest, take_address
  <2>2. PICK d \in Datagram : packet = <<d>>
    BY <2>1 DEF IInv, TypeOK, MainHolds
  <2>3. packet[1].mac \in Mac
    BY <2>2 DEF Datagram
  <2>4. ServedPool(pools[1])
    BY <2>1 DEF IInv, TypeOK, ChecksStillHold, ServedPools
  <2>5. AllLeased(pools[1]) /\ pools[1].taken_mac[packet[1].mac] = NoIp
    BY <2>1, <2>3, <2>4, ThrowsAllLeased
  <2>6. QED
    BY <2>1, <2>5, TerminateIInv
<1>4. QED
  BY <1>1, <1>2, <1>3

LEMMA IgnoreIInv == IInv /\ Ignore => IInv'
<1> SUFFICES ASSUME IInv, Ignore PROVE IInv'
  OBVIOUS
<1>1. /\ pc = "handle" /\ pc' = "have_free_address" /\ packet' = <<>> /\ reply' = <<>>
      /\ UNCHANGED <<pools, queue, xids, api, offers>>
  BY DEF Ignore, NextIteration
<1>2. reply = <<>>
  BY <1>1 DEF IInv, MainHolds
<1>3. TypeOK'
  BY <1>1 DEF IInv, TypeOK
<1>4. ChecksStillHold' /\ MainHolds' /\ TerminatesOnlyWhen'
  BY <1>1 DEF ChecksStillHold, MainHolds, TerminatesOnlyWhen
<1>5. QED
  BY <1>1, <1>2, <1>3, <1>4, SameData DEF IInv

(* The reply of a DHCPDISCOVER is counted as an offer before it is sent.   *)
LEMMA SendIInv == IInv /\ broadcast_send_to => IInv'
<1> SUFFICES ASSUME IInv, broadcast_send_to PROVE IInv'
  OBVIOUS
<1>1. /\ pc = "send" /\ pc' = "have_free_address" /\ packet' = <<>> /\ reply' = <<>>
      /\ offers' = IF reply[1].type = "OFFER" THEN offers \cup {reply[1]} ELSE offers
      /\ UNCHANGED <<pools, queue, xids, api>>
  BY DEF broadcast_send_to, NextIteration
<1>2. PICK r \in Reply : reply = <<r>>
  BY <1>1 DEF IInv, TypeOK, MainHolds
<1>3. reply[1] = r
  BY <1>2
<1>4. Offered' = Offered
  <2>1. Offered' = offers'
    BY <1>1 DEF Offered
  <2>2. QED
    BY <1>1, <1>2, <1>3, <2>1, OfferedReply
<1>5. TypeOK'
  BY <1>1, <1>2, <1>3 DEF IInv, TypeOK
<1>6. ChecksStillHold' /\ MainHolds' /\ TerminatesOnlyWhen'
  BY <1>1 DEF ChecksStillHold, MainHolds, TerminatesOnlyWhen
<1>7. ServedPools' /\ OffersHeld' /\ XidsOffered' /\ OverlapOnlyByEnclosure'
  BY <1>1, <1>4 DEF IInv, ServedPools, OffersHeld, XidsOffered, OverlapOnlyByEnclosure
<1>8. QED
  BY <1>5, <1>6, <1>7 DEF IInv

(* A DHCPREQUEST reads the entry of its transaction, or fills it with      *)
(* 0.0.0.0.                                                                *)
LEMMA RequestStep ==
  ASSUME IInv, Request
  PROVE  \E d \in Datagram :
           /\ packet = <<d>> /\ Acknowledged(d.xid) \in Ip
           /\ reply' = <<[type |-> "ACK", xid |-> d.xid, mac |-> d.mac,
                          ip |-> Acknowledged(d.xid)]>>
           /\ xids' = [xids EXCEPT ![d.xid] = Acknowledged(d.xid)]
           /\ pc = "handle" /\ pc' = "send" /\ reply = <<>>
           /\ UNCHANGED <<pools, queue, packet, api, offers>>
<1>1. pc = "handle"
  BY DEF Request, IsRequest
<1>2. PICK d \in Datagram : packet = <<d>>
  BY <1>1 DEF IInv, TypeOK, MainHolds
<1>3. packet[1] = d /\ d.xid \in Xid
  BY <1>2 DEF Datagram
<1>4. Acknowledged(d.xid) \in Ip
  BY <1>3, AddressSpaceAssumption DEF IInv, TypeOK, Acknowledged, Ip
<1>5. QED
  BY <1>1, <1>2, <1>3, <1>4 DEF Request, IInv, MainHolds

LEMMA RequestIInv == IInv /\ Request => IInv'
<1> SUFFICES ASSUME IInv, Request PROVE IInv'
  OBVIOUS
<1>1. PICK d \in Datagram :
        /\ packet = <<d>> /\ Acknowledged(d.xid) \in Ip
        /\ reply' = <<[type |-> "ACK", xid |-> d.xid, mac |-> d.mac,
                       ip |-> Acknowledged(d.xid)]>>
        /\ xids' = [xids EXCEPT ![d.xid] = Acknowledged(d.xid)]
        /\ pc = "handle" /\ pc' = "send" /\ reply = <<>>
        /\ UNCHANGED <<pools, queue, packet, api, offers>>
  BY RequestStep
<1> DEFINE r == [type |-> "ACK", xid |-> d.xid, mac |-> d.mac, ip |-> Acknowledged(d.xid)]
<1>2. r \in Reply /\ r.type = "ACK" /\ d.xid \in Xid
  BY <1>1 DEF Reply, Datagram
<1>3. reply' = <<r>> /\ reply' # <<>>
  BY <1>1
<1> HIDE DEF r
<1>4. Offered' = Offered
  <2>1. ASSUME NEW o \in Reply, reply' = <<o>> PROVE o.type # "OFFER"
    BY <1>2, <1>3, <2>1
  <2>2. Offered' = offers /\ Offered = offers
    BY <1>1, <2>1 DEF Offered
  <2>3. QED
    BY <2>2
<1>5. TypeOK'
  BY <1>1, <1>2, <1>3 DEF IInv, TypeOK
<1>6. ChecksStillHold' /\ MainHolds' /\ TerminatesOnlyWhen'
  BY <1>1, <1>3 DEF IInv, ChecksStillHold, MainHolds, TerminatesOnlyWhen
<1>7. XidsOffered'
  <2> SUFFICES ASSUME NEW x \in Xid
               PROVE  \/ \E o \in Offered : o.xid = x /\ xids'[x] = o.ip
                      \/ (\A o \in Offered : o.xid # x) /\ xids'[x] \in {NoIp, 0}
    BY <1>4 DEF XidsOffered
  <2>1. xids \in [Xid -> Ip \cup {NoIp}]
    BY DEF IInv, TypeOK
  <2>2. Offered \subseteq Reply
    BY DEF IInv, TypeOK, Offered
  <2>3. \A o \in Offered : o.ip # NoIp
    BY <2>2, NoIpAssumption DEF Reply, Ip
  <2>4. CASE x = d.xid
    BY <1>1, <2>1, <2>3, <2>4 DEF IInv, XidsOffered, Acknowledged
  <2>5. CASE x # d.xid
    BY <1>1, <2>1, <2>5 DEF IInv, XidsOffered
  <2>6. QED
    BY <2>4, <2>5
<1>8. ServedPools' /\ OffersHeld' /\ OverlapOnlyByEnclosure'
  BY <1>1, <1>4 DEF IInv, ServedPools, OffersHeld, OverlapOnlyByEnclosure
<1>9. QED
  BY <1>5, <1>6, <1>7, <1>8 DEF IInv

(* A DHCPDISCOVER takes its client's address from the first pool.          *)
LEMMA DiscoverStep ==
  ASSUME IInv, Discover
  PROVE  \E d \in Datagram, ip \in Ip :
           /\ packet = <<d>> /\ ServedPool(pools[1])
           /\ ip \in get_address(pools[1], d.mac)
           /\ pools' = [pools EXCEPT ![1] = Take(pools[1], d.mac, ip)]
           /\ xids' = [xids EXCEPT ![d.xid] = ip]
           /\ reply' = <<[type |-> "OFFER", xid |-> d.xid, mac |-> d.mac, ip |-> ip]>>
           /\ pc = "handle" /\ pc' = "send" /\ reply = <<>>
           /\ UNCHANGED <<queue, packet, api, offers>>
<1>1. pc = "handle" /\ pc' = "send" /\ UNCHANGED <<queue, packet, api, offers>>
  BY DEF Discover, IsRequest
<1>2. PICK d \in Datagram : packet = <<d>>
  BY <1>1 DEF IInv, TypeOK, MainHolds
<1>3. packet[1] = d /\ d.mac \in Mac
  BY <1>2 DEF Datagram
<1>4. ServedPool(pools[1])
  BY <1>1 DEF IInv, TypeOK, ChecksStillHold, ServedPools
<1>5. PICK ip \in get_address(pools[1], d.mac) :
        /\ pools' = [pools EXCEPT ![1] = Take(pools[1], d.mac, ip)]
        /\ xids' = [xids EXCEPT ![d.xid] = ip]
        /\ reply' = <<[type |-> "OFFER", xid |-> d.xid, mac |-> d.mac, ip |-> ip]>>
  BY <1>3 DEF Discover, take_address
<1>6. ip \in Ip
  BY <1>3, <1>4, TakeServed
<1>7. reply = <<>>
  BY <1>1 DEF IInv, MainHolds
<1>8. QED
  BY <1>1, <1>2, <1>4, <1>5, <1>6, <1>7

LEMMA DiscoverIInv == IInv /\ Discover => IInv'
<1> SUFFICES ASSUME IInv, Discover PROVE IInv'
  OBVIOUS
<1>1. PICK d \in Datagram, ip \in Ip :
        /\ packet = <<d>> /\ ServedPool(pools[1])
        /\ ip \in get_address(pools[1], d.mac)
        /\ pools' = [pools EXCEPT ![1] = Take(pools[1], d.mac, ip)]
        /\ xids' = [xids EXCEPT ![d.xid] = ip]
        /\ reply' = <<[type |-> "OFFER", xid |-> d.xid, mac |-> d.mac, ip |-> ip]>>
        /\ pc = "handle" /\ pc' = "send" /\ reply = <<>>
        /\ UNCHANGED <<queue, packet, api, offers>>
  BY DiscoverStep
<1> DEFINE r == [type |-> "OFFER", xid |-> d.xid, mac |-> d.mac, ip |-> ip]
           p == pools[1]
           q == Take(p, d.mac, ip)
<1>2. /\ r \in Reply /\ r.type = "OFFER" /\ r.xid = d.xid /\ r.mac = d.mac /\ r.ip = ip
      /\ d.xid \in Xid /\ d.mac \in Mac
  BY <1>1 DEF Reply, Datagram
<1>3. reply' = <<r>> /\ reply' # <<>> /\ pools' = [pools EXCEPT ![1] = q]
  BY <1>1
<1>4. /\ ServedPool(q) /\ q \in Pool
      /\ q.start = p.start /\ q.end = p.end /\ q.included = p.included
      /\ q.taken_mac = [p.taken_mac EXCEPT ![d.mac] = ip]
      /\ p.taken_mac[d.mac] \in {NoIp, ip}
  BY <1>1, <1>2, TakeServed
<1>5. p.taken_mac \in [Mac -> Ip \cup {NoIp}]
  BY <1>1 DEF ServedPool, PoolInv, Pool
<1>6. pools \in Seq(Pool) /\ pools # <<>>
  BY <1>1 DEF IInv, TypeOK, ChecksStillHold
<1>7. /\ Len(pools) \in Nat /\ DOMAIN pools = 1 .. Len(pools) /\ 1 \in DOMAIN pools
      /\ \A i \in DOMAIN pools : pools[i] \in Pool
  BY <1>6
<1> HIDE DEF r, q
<1>8. /\ pools' \in Seq(Pool) /\ pools' # <<>> /\ DOMAIN pools' = DOMAIN pools
      /\ pools'[1] = q /\ \A i \in DOMAIN pools \ {1} : pools'[i] = pools[i]
  <2>1. /\ pools' \in Seq(Pool) /\ Len(pools') = Len(pools)
        /\ \A i \in 1 .. Len(pools) : pools'[i] = IF i = 1 THEN q ELSE pools[i]
    BY <1>3, <1>4, <1>6, <1>7, ExceptSeq
  <2>2. QED
    BY <1>7, <2>1
<1>9. Offered' = offers \cup {r} /\ Offered = offers
  <2>1. \A o \in Reply : reply' = <<o>> <=> o = r
    BY <1>3
  <2>2. QED
    BY <1>1, <1>2, <2>1 DEF Offered
<1>10. TypeOK'
  <2>1. xids' \in [Xid -> Ip \cup {NoIp}]
    BY <1>1, <1>2 DEF IInv, TypeOK
  <2>2. QED
    BY <1>1, <1>2, <1>3, <1>8, <2>1 DEF IInv, TypeOK
<1>11. ServedPools'
  BY <1>4, <1>8 DEF IInv, ServedPools
<1>12. ChecksStillHold' /\ MainHolds' /\ TerminatesOnlyWhen'
  BY <1>1, <1>3, <1>8 DEF IInv, ChecksStillHold, MainHolds, TerminatesOnlyWhen
<1>13. OffersHeld'
  <2> SUFFICES ASSUME NEW o \in Offered' PROVE q.taken_mac[o.mac] = o.ip
    BY <1>8 DEF OffersHeld
  <2>1. CASE o = r
    BY <2>1, <1>2, <1>4, <1>5
  <2>2. CASE o \in offers
    <3>1. p.taken_mac[o.mac] = o.ip /\ o.mac \in Mac /\ o.ip # NoIp
      BY <2>2, <1>9, NoIpAssumption DEF IInv, OffersHeld, TypeOK, Reply, Ip
    <3>2. QED
      BY <3>1, <1>4, <1>5
  <2>3. QED
    BY <2>1, <2>2, <1>9
<1>14. XidsOffered'
  <2> SUFFICES ASSUME NEW x \in Xid
               PROVE  \/ \E o \in Offered' : o.xid = x /\ xids'[x] = o.ip
                      \/ (\A o \in Offered' : o.xid # x) /\ xids'[x] \in {NoIp, 0}
    BY DEF XidsOffered
  <2>1. xids \in [Xid -> Ip \cup {NoIp}]
    BY DEF IInv, TypeOK
  <2>2. CASE x = d.xid
    BY <1>1, <1>2, <1>9, <2>1, <2>2
  <2>3. CASE x # d.xid
    BY <1>1, <1>2, <1>9, <2>1, <2>3 DEF IInv, XidsOffered
  <2>4. QED
    BY <2>2, <2>3
<1>15. OverlapOnlyByEnclosure'
  <2>1. \A i \in DOMAIN pools : /\ pools'[i].start = pools[i].start
                                /\ pools'[i].end = pools[i].end
                                /\ pools'[i].included = pools[i].included
    BY <1>4, <1>8
  <2>2. QED
    BY <1>8, <2>1 DEF IInv, OverlapOnlyByEnclosure
<1>16. QED
  BY <1>10, <1>11, <1>12, <1>13, <1>14, <1>15 DEF IInv

LEMMA NextIInv == IInv /\ [Next]_vars => IInv'
<1> SUFFICES ASSUME IInv, [Next]_vars PROVE IInv'
  OBVIOUS
<1>1. CASE Udp
  BY <1>1, ReceiveIInv DEF Udp
<1>2. ASSUME NEW range \in Requests, CreatePool(range) PROVE IInv'
  BY <1>2, CreatePoolIInv
<1>3. CASE add_address_pool
  BY <1>3, AddPoolIInv
<1>4. CASE MainLoop
  BY <1>4, ChecksIInv, GetNextIInv, ThrowsIInv, IgnoreIInv, DiscoverIInv,
     RequestIInv, SendIInv DEF MainLoop, Handle
<1>5. CASE UNCHANGED vars
  <2>1. ServedPools' /\ OffersHeld' /\ XidsOffered' /\ OverlapOnlyByEnclosure'
    BY <1>5, SameData DEF vars
  <2>2. TypeOK' /\ ChecksStillHold' /\ MainHolds' /\ TerminatesOnlyWhen'
    BY <1>5 DEF vars, IInv, TypeOK, ChecksStillHold, MainHolds, TerminatesOnlyWhen,
                AllLeased
  <2>3. QED
    BY <2>1, <2>2 DEF IInv
<1>6. QED
  BY <1>1, <1>2, <1>3, <1>4, <1>5 DEF Next

-----------------------------------------------------------------------------
(* The properties *)

(* The strengthened invariant holds in every reachable state. *)
THEOREM Invariance == Spec => []IInv
<1>1. Init => IInv
  BY InitIInv
<1>2. IInv /\ [Next]_vars => IInv'
  BY NextIInv
<1>3. QED
  BY <1>1, <1>2, PTL DEF Spec

(* Every variable keeps its type, also the packet and the reply that are   *)
(* there only at some steps of main_loop.                                  *)
THEOREM TypeCorrect == Spec => []TypeOK
<1>1. IInv => TypeOK
  BY DEF IInv
<1>2. QED
  BY <1>1, Invariance, PTL

(* main_loop pops a queue that is not empty and indexes a vector that is   *)
(* not empty, although both locks were released since it looked.           *)
THEOREM ChecksHold == Spec => []ChecksStillHold
<1>1. IInv => ChecksStillHold
  BY DEF IInv
<1>2. QED
  BY <1>1, Invariance, PTL

(* The causes listed are the only ones for which the process ends.         *)
THEOREM TerminationCauses == Spec => []TerminatesOnlyWhen
<1>1. IInv => TerminatesOnlyWhen
  BY DEF IInv
<1>2. QED
  BY <1>1, Invariance, PTL

(* add_address_pool lets pools overlap by enclosure only, for any number   *)
(* of pools and any ranges.                                                *)
THEOREM Overlap == Spec => []OverlapOnlyByEnclosure
<1>1. IInv => OverlapOnlyByEnclosure
  BY DEF IInv
<1>2. QED
  BY <1>1, Invariance, PTL

(* Two offers of make_offer name one address exactly when they go to one   *)
(* client, whatever pools the API thread adds between them.                *)
THEOREM ExclusiveOffers == Spec => []OffersExclusive
<1>1. IInv => OffersExclusive
  <2> SUFFICES ASSUME IInv, NEW o1 \in offers, NEW o2 \in offers
               PROVE  o1.ip = o2.ip <=> o1.mac = o2.mac
    BY DEF OffersExclusive
  <2>1. /\ pools # <<>> /\ pools[1].taken_mac[o1.mac] = o1.ip
        /\ pools[1].taken_mac[o2.mac] = o2.ip
    BY DEF IInv, OffersHeld, Offered
  <2>2. /\ o1.mac \in Mac /\ o2.mac \in Mac /\ o1.ip # NoIp /\ o2.ip # NoIp
    BY NoIpAssumption DEF IInv, TypeOK, Reply, Ip
  <2>3. LeasesMirrored(pools[1])
    BY <2>1 DEF IInv, TypeOK, ServedPools, ServedPool, PoolInv
  <2>4. QED
    BY <2>1, <2>2, <2>3 DEF LeasesMirrored
<1>2. QED
  BY <1>1, Invariance, PTL

(* An acknowledgement in a transaction only its client used names that     *)
(* client's lease, and 0.0.0.0 when nothing was offered in it.             *)
THEOREM AcknowledgesOwnLease == Spec => AckNamesOwnLease
<1> DEFINE Given == { o \in offers : o.xid = reply'[1].xid }
           Named == pc = "handle" /\ pc' = "send" /\ reply'[1].type = "ACK" =>
                      ((\A o \in Given : o.mac = reply'[1].mac) =>
                         reply'[1].ip = IF Given = {} THEN 0
                                        ELSE pools[1].taken_mac[reply'[1].mac])
<1>1. IInv /\ [Next]_vars => [Named]_vars
  <2> SUFFICES ASSUME IInv, Next, pc = "handle", pc' = "send", reply'[1].type = "ACK",
                      \A o \in Given : o.mac = reply'[1].mac
               PROVE  reply'[1].ip = IF Given = {} THEN 0
                                     ELSE pools[1].taken_mac[reply'[1].mac]
    BY DEF vars
  <2>1. ~Discover
    BY DEF Discover
  <2>2. Request
    BY <2>1 DEF Next, Udp, Receive, CreatePool, add_address_pool, MainLoop, Handle,
                have_free_address, is_input_queue_blank, get_next_datagram,
                UnknownInterface, ParseThrows, Ignore, NextIteration, DiscoverThrows,
                Terminate, broadcast_send_to, SendThrows
  <2>3. PICK d \in Datagram :
          /\ packet = <<d>> /\ Acknowledged(d.xid) \in Ip
          /\ reply' = <<[type |-> "ACK", xid |-> d.xid, mac |-> d.mac,
                         ip |-> Acknowledged(d.xid)]>>
          /\ xids' = [xids EXCEPT ![d.xid] = Acknowledged(d.xid)]
          /\ pc = "handle" /\ pc' = "send" /\ reply = <<>>
          /\ UNCHANGED <<pools, queue, packet, api, offers>>
    BY <2>2, RequestStep
  <2>4. /\ reply'[1].xid = d.xid /\ reply'[1].mac = d.mac
        /\ reply'[1].ip = Acknowledged(d.xid) /\ d.xid \in Xid
    BY <2>3 DEF Datagram
  <2>5. Offered = offers
    BY <2>3, OfferedNone
  <2>6. CASE Given = {}
    <3>1. xids[d.xid] \in {NoIp, 0}
      BY <2>4, <2>5, <2>6 DEF IInv, XidsOffered
    <3>2. QED
      BY <2>4, <2>6, <3>1 DEF Acknowledged
  <2>7. CASE Given # {}
    <3>1. PICK o \in offers : o.xid = d.xid /\ xids[d.xid] = o.ip
      BY <2>4, <2>5, <2>7 DEF IInv, XidsOffered
    <3>2. o.mac = d.mac
      BY <2>4, <3>1
    <3>3. pools[1].taken_mac[o.mac] = o.ip /\ o.ip # NoIp
      BY <2>5, <3>1, NoIpAssumption DEF IInv, OffersHeld, TypeOK, Reply, Ip
    <3>4. QED
      BY <2>4, <2>7, <3>1, <3>2, <3>3 DEF Acknowledged
  <2>8. QED
    BY <2>6, <2>7
<1>2. QED
  BY <1>1, Invariance, PTL DEF Spec, AckNamesOwnLease

-----------------------------------------------------------------------------
(* A pool is never removed, and its range never changes.                   *)
LEMMA PoolsStay ==
  IInv /\ [Next]_vars =>
    \A i \in DOMAIN pools : /\ i \in DOMAIN pools'
                            /\ pools'[i].start = pools[i].start
                            /\ pools'[i].end = pools[i].end
<1> SUFFICES ASSUME IInv, [Next]_vars, NEW i \in DOMAIN pools
             PROVE  /\ i \in DOMAIN pools'
                    /\ pools'[i].start = pools[i].start
                    /\ pools'[i].end = pools[i].end
  OBVIOUS
<1>1. pools \in Seq(Pool)
  BY DEF IInv, TypeOK
<1>2. CASE pools' = pools
  BY <1>2
<1>3. ASSUME NEW new, pools' = Append(pools, new)
      PROVE  i \in DOMAIN pools' /\ pools'[i] = pools[i]
  BY <1>1, <1>3
<1>4. CASE add_address_pool
  BY <1>2, <1>3, <1>4, AddPoolStep
<1>5. CASE Discover
  <2>1. PICK d \in Datagram, ip \in Ip : pools' = [pools EXCEPT ![1] = Take(pools[1], d.mac, ip)]
    BY <1>5, DiscoverStep
  <2> DEFINE q == Take(pools[1], d.mac, ip)
  <2>2. d.mac \in Mac
    BY DEF Datagram
  <2>3. CASE i = 1
    <3>1. q.start = pools[1].start /\ q.end = pools[1].end
      <4>1. pools[1] \in Pool
        BY <1>1, <2>3
      <4>2. QED
        BY <2>2, <4>1, TakeFields
    <3> HIDE DEF q
    <3>2. pools' = [pools EXCEPT ![1] = q]
      BY <2>1 DEF q
    <3>3. i \in DOMAIN pools' /\ pools'[1] = q
      BY <1>1, <2>3, <3>2
    <3>4. QED
      BY <2>3, <3>1, <3>3
  <2>4. CASE i # 1
    BY <1>1, <2>1, <2>4
  <2>5. QED
    BY <2>3, <2>4
<1>6. QED
  BY <1>2, <1>4, <1>5
     DEF Next, vars, Udp, Receive, CreatePool, MainLoop, Handle, have_free_address,
         is_input_queue_blank, get_next_datagram, UnknownInterface, ParseThrows, Ignore,
         DiscoverThrows, Terminate, Request, broadcast_send_to, SendThrows

-----------------------------------------------------------------------------
(* Leases *)

(* What a step does to the first pool: nothing, a lease, or its creation.  *)
FirstPoolStep ==
  \/ /\ pools # <<>> /\ pools' # <<>>
     /\ pools'[1].taken_mac = pools[1].taken_mac
     /\ pools'[1].included = pools[1].included
  \/ pools = <<>> /\ pools' = <<>>
  \/ /\ pools = <<>> /\ pools' # <<>>
     /\ pools'[1].taken_mac = [m \in Mac |-> NoIp] /\ pools'[1].included \subseteq Ip
  \/ /\ pools # <<>> /\ pools' # <<>>
     /\ pools'[1].included = pools[1].included
     /\ \E mac \in Mac, ip \in pools[1].included :
          /\ \A other \in Mac \ {mac} : pools[1].taken_mac[other] # ip
          /\ pools'[1].taken_mac = [pools[1].taken_mac EXCEPT ![mac] = ip]

LEMMA NextFirstPoolStep == IInv /\ [Next]_vars => FirstPoolStep
<1> SUFFICES ASSUME IInv, [Next]_vars PROVE FirstPoolStep
  OBVIOUS
<1>1. pools \in Seq(Pool)
  BY DEF IInv, TypeOK
<1>2. CASE pools' = pools
  BY <1>2 DEF FirstPoolStep
<1>3. CASE add_address_pool
  <2>1. ASSUME NEW start \in Ip, NEW end \in Ip,
               pools' = Append(pools, EmptyPool(start, end, start .. end))
        PROVE  FirstPoolStep
    <3> DEFINE new == EmptyPool(start, end, start .. end)
    <3>1. /\ ServedPool(new) /\ new.taken_mac = [m \in Mac |-> NoIp]
      BY EmptyPoolServed DEF EmptyPool
    <3>2. new \in Pool /\ new.included \subseteq Ip /\ pools' = Append(pools, new)
      BY <2>1, <3>1 DEF ServedPool, PoolInv, Pool
    <3> HIDE DEF new
    <3>3. CASE pools = <<>>
      <4>1. pools'[1] = new /\ pools' # <<>>
        BY <3>2, <3>3
      <4>2. QED
        BY <3>1, <3>2, <3>3, <4>1 DEF FirstPoolStep
    <3>4. CASE pools # <<>>
      <4>1. pools'[1] = pools[1] /\ pools' # <<>>
        BY <1>1, <3>2, <3>4
      <4>2. QED
        BY <3>4, <4>1 DEF FirstPoolStep
    <3>5. QED
      BY <3>3, <3>4
  <2>2. QED
    BY <1>2, <1>3, <2>1, AddPoolStep
<1>4. CASE Discover
  <2>1. PICK d \in Datagram, ip \in Ip :
          /\ packet = <<d>> /\ ServedPool(pools[1])
          /\ ip \in get_address(pools[1], d.mac)
          /\ pools' = [pools EXCEPT ![1] = Take(pools[1], d.mac, ip)]
          /\ pc = "handle"
    BY <1>4, DiscoverStep
  <2> DEFINE p == pools[1]
             q == Take(p, d.mac, ip)
  <2>2. d.mac \in Mac /\ pools # <<>>
    BY <2>1 DEF Datagram, IInv, ChecksStillHold
  <2>3. /\ q \in Pool /\ q.included = p.included
        /\ q.taken_mac = [p.taken_mac EXCEPT ![d.mac] = ip]
        /\ q.taken_mac # p.taken_mac =>
             ip \in p.included /\ \A other \in Mac \ {d.mac} : p.taken_mac[other] # ip
    BY <2>1, <2>2, TakeServed
  <2>4. pools' = [pools EXCEPT ![1] = q]
    BY <2>1
  <2> HIDE DEF q
  <2>5. pools' # <<>> /\ pools'[1] = q
    BY <1>1, <2>2, <2>3, <2>4, ExceptSeq
  <2>6. CASE q.taken_mac # p.taken_mac
    BY <2>2, <2>3, <2>5, <2>6 DEF FirstPoolStep
  <2>7. CASE q.taken_mac = p.taken_mac
    BY <2>2, <2>3, <2>5, <2>7 DEF FirstPoolStep
  <2>8. QED
    BY <2>6, <2>7
<1>5. QED
  BY <1>2, <1>3, <1>4
     DEF Next, vars, Udp, Receive, CreatePool, MainLoop, Handle, have_free_address,
         is_input_queue_blank, get_next_datagram, UnknownInterface, ParseThrows, Ignore,
         DiscoverThrows, Terminate, Request, broadcast_send_to, SendThrows

(* The first pool of the server implements Leases.tla, with main_loop and  *)
(* the API thread interleaved.                                             *)
THEOREM Refinement == Spec => ImplementsLeases
<1>1. Init => Lease!Init
  BY DEF Init, Lease!Init
<1>2. IInv /\ [Next]_vars => [Lease!Next]_(Lease!vars)
  <2> SUFFICES ASSUME IInv, [Next]_vars PROVE [Lease!Next]_(Lease!vars)
    OBVIOUS
  <2>1. FirstPoolStep
    BY NextFirstPoolStep
  <2>2. CASE /\ pools # <<>> /\ pools' # <<>>
             /\ pools'[1].taken_mac = pools[1].taken_mac
             /\ pools'[1].included = pools[1].included
    BY <2>2 DEF Lease!vars
  <2>3. CASE pools = <<>> /\ pools' = <<>>
    BY <2>3 DEF Lease!vars
  <2>4. CASE /\ pools = <<>> /\ pools' # <<>>
             /\ pools'[1].taken_mac = [m \in Mac |-> NoIp] /\ pools'[1].included \subseteq Ip
    BY <2>4 DEF Lease!Next, Lease!Withdraw
  <2>5. ASSUME pools # <<>>, pools' # <<>>, pools'[1].included = pools[1].included,
               NEW mac \in Mac, NEW ip \in pools[1].included,
               \A other \in Mac \ {mac} : pools[1].taken_mac[other] # ip,
               pools'[1].taken_mac = [pools[1].taken_mac EXCEPT ![mac] = ip]
        PROVE  Lease!Next
    <3>1. ip \in Ip
      <4>1. pools[1] \in Pool
        BY <2>5 DEF IInv, TypeOK
      <4>2. QED
        BY <2>5, <4>1 DEF Pool
    <3>2. Lease!Grant(mac, ip)
      BY <2>5 DEF Lease!Grant
    <3>3. QED
      BY <3>1, <3>2 DEF Lease!Next
  <2>6. QED
    BY <2>1, <2>2, <2>3, <2>4, <2>5 DEF FirstPoolStep
<1>3. QED
  BY <1>1, <1>2, Invariance, PTL DEF Spec, ImplementsLeases, Lease!Spec

=============================================================================
