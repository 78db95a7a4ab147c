------------------------------ MODULE PoolLemmas -----------------------------
(***************************************************************************)
(* Every method of AddressPool preserves PoolInv, and what get_address     *)
(* does to the leases.  AddressPoolProofs.tla and DhcpServerProofs.tla     *)
(* cite these lemmas.                                                      *)
(***************************************************************************)
EXTENDS PoolMethods, TLAPS

(* What every sequence of method calls keeps true of a pool: both maps     *)
(* from clients are mirrored by the map from addresses (the reverse does   *)
(* not hold: get_address leaves the address a client had before its        *)
(* reservation in taken_ip), a reservation and a lease on one address are  *)
(* the same client's, only an included address is reserved, and the cache  *)
(* stays empty because nothing fills it.                                   *)
ReservationsMirrored(p) ==
  \A m \in Mac : p.reserved_mac[m] # NoIp => p.reserved_ip[p.reserved_mac[m]] = m

LeasesMirrored(p) ==
  \A m \in Mac : p.taken_mac[m] # NoIp => p.taken_ip[p.taken_mac[m]] = m

ReservedForHolder(p) ==
  \A ip \in Ip : p.reserved_ip[ip] # NoMac =>
                   p.taken_ip[ip] \in {NoMac, p.reserved_ip[ip]}

ReservedIncluded(p) ==
  \A ip \in Ip : p.reserved_ip[ip] # NoMac => ip \in p.included

CacheEmpty(p) == \A m \in Mac : p.cache[m] = NoIp

PoolInv(p) == /\ p \in Pool
              /\ ReservationsMirrored(p)
              /\ LeasesMirrored(p)
              /\ ReservedForHolder(p)
              /\ ReservedIncluded(p)
              /\ CacheEmpty(p)

-----------------------------------------------------------------------------

(* The space is not empty and a step stays inside it. *)
LEMMA IpFacts ==
  /\ Ip \subseteq Nat
  /\ LastIp \in Ip
  /\ NoIp \notin Ip
  /\ \A ip \in Ip : NextIp(ip) \in Ip
BY AddressSpaceAssumption, NoIpAssumption DEF Ip, LastIp, NextIp

(* NextIp adds one except at the last address, which it takes to zero. *)
LEMMA NextIpValue ==
  ASSUME NEW ip \in Ip
  PROVE  NextIp(ip) = IF ip = LastIp THEN 0 ELSE ip + 1
BY AddressSpaceAssumption DEF Ip, LastIp, NextIp

(* A pool nobody has used yet satisfies the invariant. *)
LEMMA EmptyPoolInv ==
  ASSUME NEW start \in Ip, NEW end \in Ip, NEW included \in SUBSET Ip
  PROVE  PoolInv(EmptyPool(start, end, included))
<1> DEFINE p == EmptyPool(start, end, included)
<1>1. /\ p.start = start /\ p.end = end
      /\ p.included = included /\ p.excluded = {}
      /\ p.reserved_ip = [ip \in Ip |-> NoMac]
      /\ p.reserved_mac = [m \in Mac |-> NoIp]
      /\ p.taken_ip = [ip \in Ip |-> NoMac]
      /\ p.taken_mac = [m \in Mac |-> NoIp]
      /\ p.cache = [m \in Mac |-> NoIp]
  BY DEF EmptyPool
<1>2. p \in Pool
  BY DEF Pool, EmptyPool
<1> HIDE DEF p
<1>3. PoolInv(p)
  BY <1>1, <1>2 DEF PoolInv, ReservationsMirrored, LeasesMirrored,
                    ReservedForHolder, ReservedIncluded, CacheEmpty
<1>4. QED
  BY <1>3 DEF p

(* Adding an address to the included ones, as the constructor does. *)
LEMMA IncludePreserves ==
  ASSUME NEW p, PoolInv(p), NEW ip \in Ip
  PROVE  PoolInv([p EXCEPT !.included = @ \cup {ip}])
<1> DEFINE q == [p EXCEPT !.included = @ \cup {ip}]
<1>1. q \in Pool
  BY DEF PoolInv, Pool
<1>2. /\ q.included = p.included \cup {ip}
      /\ q.reserved_ip = p.reserved_ip /\ q.reserved_mac = p.reserved_mac
      /\ q.taken_ip = p.taken_ip /\ q.taken_mac = p.taken_mac /\ q.cache = p.cache
  BY DEF PoolInv, Pool
<1> HIDE DEF q
<1>3. PoolInv(q)
  BY <1>1, <1>2 DEF PoolInv, ReservationsMirrored, LeasesMirrored,
                    ReservedForHolder, ReservedIncluded, CacheEmpty
<1>4. QED
  BY <1>3 DEF q

-----------------------------------------------------------------------------
(* get_address *)

(* What get_address returns: the client's reservation, else its lease,     *)
(* else a free address.                                                    *)
LEMMA GetAddressCases ==
  ASSUME NEW p, PoolInv(p), NEW mac \in Mac, NEW ip \in get_address(p, mac)
  PROVE  /\ ip \in Ip
         /\ \/ ip = p.reserved_mac[mac] /\ p.reserved_ip[ip] = mac
            \/ /\ p.reserved_mac[mac] = NoIp
               /\ ip = p.taken_mac[mac] /\ p.taken_ip[ip] = mac
            \/ /\ p.reserved_mac[mac] = NoIp /\ p.taken_mac[mac] = NoIp
               /\ ip \in Free(p)
<1>1. /\ p.included \subseteq Ip
      /\ p.reserved_mac[mac] \in Ip \cup {NoIp}
      /\ p.taken_mac[mac] \in Ip \cup {NoIp}
      /\ p.cache[mac] = NoIp
  BY DEF PoolInv, Pool, CacheEmpty
<1>2. CASE p.reserved_mac[mac] # NoIp
  BY <1>1, <1>2 DEF get_address, PoolInv, ReservationsMirrored
<1>3. CASE p.reserved_mac[mac] = NoIp /\ p.taken_mac[mac] # NoIp
  BY <1>1, <1>3 DEF get_address, PoolInv, LeasesMirrored
<1>4. CASE p.reserved_mac[mac] = NoIp /\ p.taken_mac[mac] = NoIp
  BY <1>1, <1>4 DEF get_address, FirstFree, Free
<1>5. QED
  BY <1>2, <1>3, <1>4

(* The fields of the pool after get_address. *)
LEMMA TakeFields ==
  ASSUME NEW p \in Pool, NEW mac \in Mac, NEW ip \in Ip
  PROVE  LET q == Take(p, mac, ip)
         IN  /\ q \in Pool
             /\ q.start = p.start /\ q.end = p.end
             /\ q.included = p.included /\ q.excluded = p.excluded
             /\ q.reserved_ip = p.reserved_ip /\ q.reserved_mac = p.reserved_mac
             /\ q.cache = p.cache
             /\ IF p.reserved_mac[mac] = NoIp /\ p.taken_mac[mac] # NoIp
                THEN q.taken_ip = p.taken_ip /\ q.taken_mac = p.taken_mac
                ELSE /\ q.taken_ip = [p.taken_ip EXCEPT ![ip] = mac]
                     /\ q.taken_mac = [p.taken_mac EXCEPT ![mac] = ip]
BY DEF Take, Pool

(* The address get_address returns is nobody else's: no other client       *)
(* holds it or held it before.                                             *)
LEMMA GetAddressUncontended ==
  ASSUME NEW p, PoolInv(p), NEW mac \in Mac, NEW ip \in get_address(p, mac)
  PROVE  /\ p.taken_ip[ip] \in {NoMac, mac}
         /\ \A other \in Mac \ {mac} : p.taken_mac[other] # ip
<1>1. ip \in Ip /\ p.taken_ip[ip] \in {NoMac, mac}
  <2>1. CASE p.reserved_ip[ip] = mac
    BY <2>1, GetAddressCases, NoMacAssumption DEF PoolInv, ReservedForHolder
  <2>2. CASE p.taken_ip[ip] = mac
    BY <2>2, GetAddressCases
  <2>3. CASE ip \in Free(p)
    BY <2>3, GetAddressCases DEF Free
  <2>4. QED
    BY <2>1, <2>2, <2>3, GetAddressCases
<1>2. ASSUME NEW other \in Mac \ {mac}, p.taken_mac[other] = ip
      PROVE  FALSE
  <2>1. p.taken_ip[ip] = other
    BY <1>1, <1>2, NoIpAssumption DEF PoolInv, LeasesMirrored, Ip
  <2>2. QED
    BY <1>1, <2>1, NoMacAssumption
<1>3. QED
  BY <1>1, <1>2

LEMMA TakePreserves ==
  ASSUME NEW p, PoolInv(p), NEW mac \in Mac, NEW ip \in get_address(p, mac)
  PROVE  PoolInv(Take(p, mac, ip))
<1> DEFINE q == Take(p, mac, ip)
<1>1. p \in Pool /\ ip \in Ip
  BY GetAddressCases DEF PoolInv
<1>2. CASE p.reserved_mac[mac] = NoIp /\ p.taken_mac[mac] # NoIp
  BY <1>2 DEF Take
<1>3. CASE ~(p.reserved_mac[mac] = NoIp /\ p.taken_mac[mac] # NoIp)
  <2>1. /\ q \in Pool
        /\ q.included = p.included /\ q.cache = p.cache
        /\ q.reserved_ip = p.reserved_ip /\ q.reserved_mac = p.reserved_mac
        /\ q.taken_ip = [p.taken_ip EXCEPT ![ip] = mac]
        /\ q.taken_mac = [p.taken_mac EXCEPT ![mac] = ip]
    BY <1>1, <1>3, TakeFields
  <2> HIDE DEF q
  <2>2. /\ p.taken_mac \in [Mac -> Ip \cup {NoIp}]
        /\ p.taken_ip \in [Ip -> Mac \cup {NoMac}]
        /\ p.reserved_ip \in [Ip -> Mac \cup {NoMac}]
    BY <1>1 DEF Pool
  <2>3. LeasesMirrored(q)
    <3> SUFFICES ASSUME NEW m \in Mac, q.taken_mac[m] # NoIp
                 PROVE  q.taken_ip[q.taken_mac[m]] = m
      BY DEF LeasesMirrored
    <3>1. CASE m = mac
      BY <3>1, <1>1, <2>1, <2>2
    <3>2. CASE m # mac
      <4>1. q.taken_mac[m] = p.taken_mac[m] /\ p.taken_mac[m] \in Ip
        BY <3>2, <2>1, <2>2
      <4>2. p.taken_mac[m] # ip
        BY <3>2, GetAddressUncontended
      <4>3. p.taken_ip[p.taken_mac[m]] = m
        BY <4>1 DEF PoolInv, LeasesMirrored
      <4>4. QED
        BY <4>1, <4>2, <4>3, <2>1, <2>2
    <3>3. QED
      BY <3>1, <3>2
  <2>4. ReservedForHolder(q)
    <3> SUFFICES ASSUME NEW x \in Ip, p.reserved_ip[x] # NoMac
                 PROVE  q.taken_ip[x] \in {NoMac, p.reserved_ip[x]}
      BY <2>1 DEF ReservedForHolder
    <3>1. CASE x = ip
      <4>1. p.reserved_ip[ip] = mac
        BY <3>1, <1>3, GetAddressCases, IpFacts DEF Free
      <4>2. QED
        BY <3>1, <4>1, <2>1, <2>2
    <3>2. CASE x # ip
      BY <3>2, <2>1, <2>2 DEF PoolInv, ReservedForHolder
    <3>3. QED
      BY <3>1, <3>2
  <2>5. ReservationsMirrored(q) /\ ReservedIncluded(q) /\ CacheEmpty(q)
    BY <2>1 DEF PoolInv, ReservationsMirrored, ReservedIncluded, CacheEmpty
  <2>6. PoolInv(q)
    BY <2>1, <2>3, <2>4, <2>5 DEF PoolInv
  <2>7. QED
    BY <2>6 DEF q
<1>4. QED
  BY <1>2, <1>3

-----------------------------------------------------------------------------
(* Reservations *)

LEMMA ReservePreserves ==
  ASSUME NEW p, PoolInv(p), NEW mac \in Mac, NEW ip \in Ip, can_reserve_ip(p, ip)
  PROVE  PoolInv(reserve_ip(p, ip, mac))
<1> DEFINE q == reserve_ip(p, ip, mac)
<1>1. /\ p.reserved_ip \in [Ip -> Mac \cup {NoMac}]
      /\ p.reserved_mac \in [Mac -> Ip \cup {NoIp}]
      /\ ip \in p.included /\ p.reserved_ip[ip] = NoMac /\ p.taken_ip[ip] = NoMac
  BY DEF PoolInv, Pool, can_reserve_ip
<1>2. /\ q \in Pool
      /\ q.included = p.included /\ q.cache = p.cache
      /\ q.taken_ip = p.taken_ip /\ q.taken_mac = p.taken_mac
      /\ q.reserved_ip = [p.reserved_ip EXCEPT ![ip] = mac]
      /\ q.reserved_mac = [p.reserved_mac EXCEPT ![mac] = ip]
  BY DEF PoolInv, Pool, reserve_ip
<1> HIDE DEF q
<1>3. ReservationsMirrored(q)
  <2> SUFFICES ASSUME NEW m \in Mac, q.reserved_mac[m] # NoIp
               PROVE  q.reserved_ip[q.reserved_mac[m]] = m
    BY DEF ReservationsMirrored
  <2>1. CASE m = mac
    BY <2>1, <1>1, <1>2
  <2>2. CASE m # mac
    <3>1. p.reserved_mac[m] \in Ip /\ p.reserved_ip[p.reserved_mac[m]] = m
      BY <2>2, <1>1, <1>2 DEF PoolInv, ReservationsMirrored
    <3>2. p.reserved_mac[m] # ip
      BY <3>1, <1>1, NoMacAssumption
    <3>3. QED
      BY <2>2, <3>1, <3>2, <1>1, <1>2
  <2>3. QED
    BY <2>1, <2>2
<1>4. ReservedForHolder(q) /\ ReservedIncluded(q)
  BY <1>1, <1>2 DEF PoolInv, ReservedForHolder, ReservedIncluded
<1>5. LeasesMirrored(q) /\ CacheEmpty(q)
  BY <1>2 DEF PoolInv, LeasesMirrored, CacheEmpty
<1>6. PoolInv(q)
  BY <1>2, <1>3, <1>4, <1>5 DEF PoolInv
<1>7. QED
  BY <1>6 DEF q

LEMMA UnreservePreserves ==
  ASSUME NEW p, PoolInv(p), NEW ip \in Ip, can_unreserve_ip(p, ip)
  PROVE  LET q == unreserve_ip(p, ip)
         IN  /\ PoolInv(q)
             /\ q.start = p.start /\ q.end = p.end
             /\ q.included = p.included /\ q.excluded = p.excluded
             /\ q.taken_ip = p.taken_ip /\ q.taken_mac = p.taken_mac
             /\ q.cache = p.cache
             /\ q.reserved_ip = [p.reserved_ip EXCEPT ![ip] = NoMac]
<1> DEFINE q == unreserve_ip(p, ip)
           mac == p.reserved_ip[ip]
<1>1. /\ p.reserved_ip \in [Ip -> Mac \cup {NoMac}]
      /\ p.reserved_mac \in [Mac -> Ip \cup {NoIp}]
      /\ mac \in Mac
  BY DEF PoolInv, Pool, can_unreserve_ip
<1>2. /\ q \in Pool
      /\ q.start = p.start /\ q.end = p.end
      /\ q.included = p.included /\ q.excluded = p.excluded
      /\ q.taken_ip = p.taken_ip /\ q.taken_mac = p.taken_mac
      /\ q.cache = p.cache
      /\ q.reserved_ip = [p.reserved_ip EXCEPT ![ip] = NoMac]
      /\ q.reserved_mac = [p.reserved_mac EXCEPT ![mac] = NoIp]
  BY DEF PoolInv, Pool, unreserve_ip
<1> HIDE DEF q
<1>3. ReservationsMirrored(q)
  <2> SUFFICES ASSUME NEW m \in Mac, q.reserved_mac[m] # NoIp
               PROVE  q.reserved_ip[q.reserved_mac[m]] = m
    BY DEF ReservationsMirrored
  <2>1. m # mac
    BY <1>1, <1>2
  <2>2. p.reserved_mac[m] \in Ip /\ p.reserved_ip[p.reserved_mac[m]] = m
    BY <2>1, <1>1, <1>2 DEF PoolInv, ReservationsMirrored
  <2>3. p.reserved_mac[m] # ip
    BY <2>1, <2>2
  <2>4. QED
    BY <2>1, <2>2, <2>3, <1>1, <1>2
<1>4. ReservedForHolder(q) /\ ReservedIncluded(q)
  BY <1>1, <1>2 DEF PoolInv, ReservedForHolder, ReservedIncluded
<1>5. LeasesMirrored(q) /\ CacheEmpty(q)
  BY <1>2 DEF PoolInv, LeasesMirrored, CacheEmpty
<1>6. PoolInv(q)
  BY <1>2, <1>3, <1>4, <1>5 DEF PoolInv
<1>7. QED
  BY <1>2, <1>6 DEF q

-----------------------------------------------------------------------------
(* Exclusion *)

(* Forgetting from an empty cache changes nothing. *)
LEMMA ForgetCachedEmpty ==
  ASSUME NEW p, PoolInv(p), NEW ip \in Ip
  PROVE  ForgetCached(p.cache, ip) = p.cache
BY NoIpAssumption DEF ForgetCached, PoolInv, CacheEmpty, Ip

(* What exclude_ip does: an included address moves to the excluded ones    *)
(* and loses its reservation, every lease stays.                           *)
LEMMA ExcludeFields ==
  ASSUME NEW p, PoolInv(p), NEW ip \in Ip
  PROVE  LET q == exclude_ip(p, ip)
         IN  /\ PoolInv(q)
             /\ q.start = p.start /\ q.end = p.end
             /\ q.taken_ip = p.taken_ip /\ q.taken_mac = p.taken_mac
             /\ q.included = p.included \ {ip}
             /\ q.excluded = IF ip \in p.included THEN p.excluded \cup {ip}
                                                  ELSE p.excluded
             /\ q.reserved_ip = [p.reserved_ip EXCEPT ![ip] = NoMac]
<1> DEFINE q == exclude_ip(p, ip)
<1>1. CASE ip \notin p.included
  <2>1. q = p
    BY <1>1 DEF exclude_ip
  <2>2. p.reserved_ip \in [Ip -> Mac \cup {NoMac}] /\ p.reserved_ip[ip] = NoMac
    BY <1>1 DEF PoolInv, Pool, ReservedIncluded
  <2>3. p.reserved_ip = [p.reserved_ip EXCEPT ![ip] = NoMac]
    BY <2>2
  <2>4. p.included = p.included \ {ip}
    BY <1>1
  <2>5. QED
    BY <1>1, <2>1, <2>3, <2>4
<1>2. CASE ip \in p.included
  <2> DEFINE u == IF p.reserved_ip[ip] # NoMac THEN unreserve_ip(p, ip) ELSE p
  <2>1. /\ PoolInv(u)
        /\ u.start = p.start /\ u.end = p.end
        /\ u.included = p.included /\ u.excluded = p.excluded
        /\ u.taken_ip = p.taken_ip /\ u.taken_mac = p.taken_mac
        /\ u.cache = p.cache
        /\ u.reserved_ip = [p.reserved_ip EXCEPT ![ip] = NoMac]
    <3>1. CASE p.reserved_ip[ip] # NoMac
      BY <3>1, UnreservePreserves DEF can_unreserve_ip
    <3>2. CASE p.reserved_ip[ip] = NoMac
      <4>1. p.reserved_ip = [p.reserved_ip EXCEPT ![ip] = NoMac]
        BY <3>2 DEF PoolInv, Pool
      <4>2. QED
        BY <3>2, <4>1
    <3>3. QED
      BY <3>1, <3>2
  <2>2. q = [u EXCEPT !.excluded = u.excluded \cup {ip},
                      !.cache    = ForgetCached(u.cache, ip),
                      !.included = u.included \ {ip}]
    BY <1>2 DEF exclude_ip, release_address
  <2>3. ForgetCached(u.cache, ip) = u.cache
    BY <2>1, ForgetCachedEmpty
  <2> HIDE DEF q, u
  <2>4. /\ q \in Pool
        /\ q.start = u.start /\ q.end = u.end
        /\ q.included = u.included \ {ip} /\ q.excluded = u.excluded \cup {ip}
        /\ q.taken_ip = u.taken_ip /\ q.taken_mac = u.taken_mac
        /\ q.reserved_ip = u.reserved_ip /\ q.reserved_mac = u.reserved_mac
        /\ q.cache = u.cache
    BY <2>1, <2>2, <2>3 DEF PoolInv, Pool
  <2>5. ReservedIncluded(q)
    <3>1. p.reserved_ip \in [Ip -> Mac \cup {NoMac}]
      BY DEF PoolInv, Pool
    <3>2. u.reserved_ip[ip] = NoMac
      BY <2>1, <3>1
    <3>3. QED
      BY <2>1, <2>4, <3>2 DEF PoolInv, ReservedIncluded
  <2>6. /\ ReservationsMirrored(q) /\ LeasesMirrored(q)
        /\ ReservedForHolder(q) /\ CacheEmpty(q)
    BY <2>1, <2>4 DEF PoolInv, ReservationsMirrored, LeasesMirrored,
                      ReservedForHolder, CacheEmpty
  <2>7. PoolInv(q)
    BY <2>4, <2>5, <2>6 DEF PoolInv
  <2>8. QED
    BY <1>2, <2>1, <2>4, <2>7 DEF q
<1>3. QED
  BY <1>1, <1>2

=============================================================================
