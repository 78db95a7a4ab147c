-------------------------- MODULE AddressPoolProofs --------------------------
(***************************************************************************)
(* Theorems about AddressPool.tla, for every size of the address space and *)
(* every set of clients.                                                   *)
(***************************************************************************)
EXTENDS AddressPool, PoolLemmas

(* The constructor's loop: nothing is excluded yet, the addresses of the   *)
(* range below the cursor are in, and unless the range ends with the last  *)
(* address, on which the loop wraps around, nothing else is.               *)
ConstructLoop ==
  pc = "constructing" =>
    /\ pool.excluded = {}
    /\ \A ip \in pool.start .. pool.end : ip < cursor => ip \in pool.included
    /\ pool.end # LastIp => /\ pool.start <= cursor
                            /\ pool.included \subseteq pool.start .. pool.end

(* The loop of exclude_ip_range: the addresses from the first one up to    *)
(* the cursor are out of service and not reserved.                         *)
OutOfService(p, ip) == ip \notin p.included /\ p.reserved_ip[ip] = NoMac

ExcludeLoop ==
  pc = "excluding" => \A ip \in Upto(first, cursor) \ {cursor} : OutOfService(pool, ip)

IInv == /\ TypeOK
        /\ PoolInv(pool)
        /\ RangeAccounted
        /\ ConstructLoop
        /\ ExcludeLoop

-----------------------------------------------------------------------------
(* The addresses passed when the cursor moves on are those passed before   *)
(* and the one it was at.                                                  *)
LEMMA UptoNext ==
  ASSUME NEW a \in Ip, NEW c \in Ip, NEW x \in Upto(a, NextIp(c)) \ {NextIp(c)}
  PROVE  x \in Upto(a, c)
BY NextIpValue, AddressSpaceAssumption DEF Upto, Ip, LastIp

(* All of a wrapped range is addresses. *)
LEMMA UptoIp ==
  ASSUME NEW a \in Ip, NEW b \in Ip
  PROVE  Upto(a, b) \subseteq Ip
BY AddressSpaceAssumption DEF Upto, Ip, LastIp

LEMMA RangeIp ==
  ASSUME NEW a \in Ip, NEW b \in Ip
  PROVE  a .. b \subseteq Ip
BY AddressSpaceAssumption DEF Ip

(* Initially the pool is empty and the constructor is about to fill it. *)
LEMMA InitIInv == Init => IInv
<1> SUFFICES ASSUME Init PROVE IInv
  OBVIOUS
<1>1. PICK start \in Ip, end \in Ip : pool = EmptyPool(start, end, {})
  BY DEF Init
<1>2. PoolInv(pool)
  BY <1>1, EmptyPoolInv
<1>3. /\ pool.start = start /\ pool.end = end
      /\ pool.included = {} /\ pool.excluded = {}
      /\ pc = "constructing" /\ first = start /\ cursor = start /\ last = end
  BY <1>1 DEF Init, EmptyPool
<1>4. TypeOK
  BY <1>2, <1>3 DEF Init, TypeOK, PoolInv, Done, Return
<1>5. RangeAccounted /\ ExcludeLoop
  BY <1>3 DEF RangeAccounted, ExcludeLoop
<1>6. ConstructLoop
  BY <1>3, IpFacts DEF ConstructLoop
<1>7. QED
  BY <1>2, <1>4, <1>5, <1>6 DEF IInv

-----------------------------------------------------------------------------
(* Each action preserves IInv. *)

LEMMA ConstructInsertIInv == IInv /\ ConstructInsert => IInv'
<1> SUFFICES ASSUME IInv, ConstructInsert PROVE IInv'
  OBVIOUS
<1>1. /\ pool \in Pool /\ cursor \in Ip /\ pool.start \in Ip /\ pool.end \in Ip
      /\ NextIp(cursor) \in Ip
  BY IpFacts DEF IInv, TypeOK, Pool
<1>2. /\ pc = "constructing" /\ pc' = pc /\ cursor <= pool.end
      /\ cursor' = NextIp(cursor)
      /\ pool'.start = pool.start /\ pool'.end = pool.end
      /\ pool'.excluded = pool.excluded
      /\ pool'.included = pool.included \cup {cursor}
  BY <1>1 DEF ConstructInsert, Pool
<1>3. PoolInv(pool')
  BY <1>1, IncludePreserves DEF IInv, ConstructInsert
<1>4. TypeOK'
  BY <1>1, <1>2, <1>3 DEF IInv, TypeOK, PoolInv, ConstructInsert
<1>5. pool.excluded = {}
  BY <1>2 DEF IInv, ConstructLoop
<1>6. RangeAccounted' /\ ExcludeLoop'
  BY <1>2, <1>5 DEF RangeAccounted, ExcludeLoop
<1>7. ConstructLoop'
  <2>1. ASSUME NEW ip \in pool.start .. pool.end, ip < NextIp(cursor)
        PROVE  ip \in pool.included \cup {cursor}
    BY <1>1, <1>2, <2>1, NextIpValue, AddressSpaceAssumption
       DEF IInv, ConstructLoop, Ip, LastIp
  <2>2. ASSUME pool.end # LastIp
        PROVE  /\ pool.start <= NextIp(cursor)
               /\ pool.included \cup {cursor} \subseteq pool.start .. pool.end
    BY <1>1, <1>2, <2>2, NextIpValue, AddressSpaceAssumption
       DEF IInv, ConstructLoop, Ip, LastIp
  <2>3. QED
    BY <1>2, <1>5, <2>1, <2>2 DEF ConstructLoop
<1>8. QED
  BY <1>3, <1>4, <1>6, <1>7 DEF IInv

(* The constructor returns with exactly the range included. *)
LEMMA ConstructReturnFull ==
  IInv /\ ConstructReturn => pool.included = pool.start .. pool.end
<1> SUFFICES ASSUME IInv, ConstructReturn
             PROVE  pool.included = pool.start .. pool.end
  OBVIOUS
<1>1. /\ cursor \in Ip /\ pool.start \in Ip /\ pool.end \in Ip
      /\ pc = "constructing" /\ cursor > pool.end
  BY DEF IInv, TypeOK, Pool, ConstructReturn
<1>2. pool.end # LastIp
  BY <1>1, AddressSpaceAssumption DEF Ip, LastIp
<1>3. pool.included \subseteq pool.start .. pool.end
  BY <1>1, <1>2 DEF IInv, ConstructLoop
<1>4. pool.start .. pool.end \subseteq pool.included
  BY <1>1, AddressSpaceAssumption DEF IInv, ConstructLoop, Ip
<1>5. QED
  BY <1>3, <1>4

LEMMA ConstructReturnIInv == IInv /\ ConstructReturn => IInv'
<1> SUFFICES ASSUME IInv, ConstructReturn PROVE IInv'
  OBVIOUS
<1>1. /\ pool' = pool /\ pc = "constructing" /\ pc' = "ready"
      /\ first' = first /\ cursor' = cursor /\ last' = last /\ ret' = ret
  BY DEF ConstructReturn
<1>2. pool.included = pool.start .. pool.end /\ pool.excluded = {}
  BY <1>1, ConstructReturnFull DEF IInv, ConstructLoop
<1>3. TypeOK' /\ PoolInv(pool')
  BY <1>1 DEF IInv, TypeOK
<1>4. RangeAccounted' /\ ConstructLoop' /\ ExcludeLoop'
  BY <1>1, <1>2 DEF RangeAccounted, ConstructLoop, ExcludeLoop
<1>5. QED
  BY <1>3, <1>4 DEF IInv

(* One call of exclude_ip, in or out of the loop, keeps the part of IInv   *)
(* that is about the pool, and what is out of service stays so.            *)
LEMMA ExcludeStep ==
  ASSUME IInv, pc # "constructing", NEW ip \in Ip, pool' = exclude_ip(pool, ip)
  PROVE  /\ PoolInv(pool')
         /\ pool'.included \cap pool'.excluded = {}
         /\ pool'.included \cup pool'.excluded = pool'.start .. pool'.end
         /\ \A x \in Ip : OutOfService(pool, x) => OutOfService(pool', x)
         /\ OutOfService(pool', ip)
<1>1. PoolInv(pool)
  BY DEF IInv
<1>2. /\ PoolInv(pool')
      /\ pool'.start = pool.start /\ pool'.end = pool.end
      /\ pool'.included = pool.included \ {ip}
      /\ pool'.excluded = IF ip \in pool.included THEN pool.excluded \cup {ip}
                                                  ELSE pool.excluded
      /\ pool'.reserved_ip = [pool.reserved_ip EXCEPT ![ip] = NoMac]
  BY <1>1, ExcludeFields
<1>3. pool.reserved_ip \in [Ip -> Mac \cup {NoMac}]
  BY <1>1 DEF PoolInv, Pool
<1>4. QED
  BY <1>2, <1>3 DEF IInv, RangeAccounted, OutOfService

LEMMA ExcludeIpIInv ==
  ASSUME NEW ip \in Ip
  PROVE  IInv /\ ExcludeIp(ip) => IInv'
<1> SUFFICES ASSUME IInv, ExcludeIp(ip) PROVE IInv'
  OBVIOUS
<1>1. /\ pc = "ready" /\ pc' = pc /\ pool' = exclude_ip(pool, ip) /\ ret' = Done
      /\ first' = first /\ cursor' = cursor /\ last' = last
  BY DEF ExcludeIp
<1>2. PoolInv(pool') /\ RangeAccounted'
  BY <1>1, ExcludeStep DEF RangeAccounted
<1>3. TypeOK'
  BY <1>1, <1>2 DEF IInv, TypeOK, PoolInv, Done, Return
<1>4. ConstructLoop' /\ ExcludeLoop'
  BY <1>1 DEF ConstructLoop, ExcludeLoop
<1>5. QED
  BY <1>2, <1>3, <1>4 DEF IInv

LEMMA ExcludeRangeCallIInv ==
  ASSUME NEW start \in Ip, NEW end \in Ip
  PROVE  IInv /\ ExcludeRangeCall(start, end) => IInv'
<1> SUFFICES ASSUME IInv, ExcludeRangeCall(start, end) PROVE IInv'
  OBVIOUS
<1>1. /\ pc = "ready" /\ pc' = "excluding" /\ pool' = pool /\ ret' = ret
      /\ first' = start /\ cursor' = start /\ last' = end
  BY DEF ExcludeRangeCall
<1>2. PoolInv(pool') /\ RangeAccounted' /\ TypeOK'
  BY <1>1 DEF IInv, TypeOK, RangeAccounted
<1>3. Upto(start, start) = {start}
  BY DEF Upto, Ip
<1>4. ConstructLoop' /\ ExcludeLoop'
  BY <1>1, <1>3 DEF ConstructLoop, ExcludeLoop
<1>5. QED
  BY <1>2, <1>4 DEF IInv

LEMMA ExcludeRangeStepIInv == IInv /\ ExcludeRangeStep => IInv'
<1> SUFFICES ASSUME IInv, ExcludeRangeStep PROVE IInv'
  OBVIOUS
<1>1. /\ pc = "excluding" /\ pc' = pc /\ pool' = exclude_ip(pool, cursor)
      /\ cursor' = NextIp(cursor)
      /\ first' = first /\ last' = last /\ ret' = ret
  BY DEF ExcludeRangeStep
<1>2. cursor \in Ip /\ NextIp(cursor) \in Ip /\ first \in Ip
  BY IpFacts DEF IInv, TypeOK
<1>3. /\ PoolInv(pool') /\ RangeAccounted'
      /\ \A x \in Ip : OutOfService(pool, x) => OutOfService(pool', x)
      /\ OutOfService(pool', cursor)
  BY <1>1, <1>2, ExcludeStep DEF RangeAccounted
<1>4. TypeOK'
  BY <1>1, <1>2, <1>3 DEF IInv, TypeOK, PoolInv
<1>5. ExcludeLoop'
  <2>1. ASSUME NEW x \in Upto(first, NextIp(cursor)) \ {NextIp(cursor)}
        PROVE  OutOfService(pool', x)
    <3>1. x \in Upto(first, cursor) /\ x \in Ip
      BY <1>2, <2>1, UptoNext, UptoIp
    <3>2. CASE x = cursor
      BY <3>2, <1>3 DEF OutOfService
    <3>3. CASE x # cursor
      BY <3>1, <3>3, <1>1, <1>3 DEF IInv, ExcludeLoop
    <3>4. QED
      BY <3>2, <3>3
  <2>2. QED
    BY <2>1, <1>1 DEF ExcludeLoop, OutOfService
<1>6. ConstructLoop'
  BY <1>1 DEF ConstructLoop
<1>7. QED
  BY <1>3, <1>4, <1>5, <1>6 DEF IInv

(* When exclude_ip_range returns, nothing of its range is in service. *)
LEMMA ExcludeRangeReturnIInv ==
  IInv /\ ExcludeRangeReturn =>
    IInv' /\ \A x \in Upto(first, last) : OutOfService(pool', x)
<1> SUFFICES ASSUME IInv, ExcludeRangeReturn
             PROVE  IInv' /\ \A x \in Upto(first, last) : OutOfService(pool', x)
  OBVIOUS
<1>1. /\ pc = "excluding" /\ pc' = "ready" /\ pool' = exclude_ip(pool, last)
      /\ cursor = last /\ ret' = Done
      /\ first' = first /\ cursor' = cursor /\ last' = last
  BY DEF ExcludeRangeReturn
<1>2. last \in Ip /\ first \in Ip
  BY DEF IInv, TypeOK
<1>3. /\ PoolInv(pool') /\ RangeAccounted'
      /\ \A x \in Ip : OutOfService(pool, x) => OutOfService(pool', x)
      /\ OutOfService(pool', last)
  BY <1>1, <1>2, ExcludeStep DEF RangeAccounted
<1>4. TypeOK'
  BY <1>1, <1>3 DEF IInv, TypeOK, PoolInv, Done, Return
<1>5. ConstructLoop' /\ ExcludeLoop'
  BY <1>1 DEF ConstructLoop, ExcludeLoop
<1>6. ASSUME NEW x \in Upto(first, last) PROVE OutOfService(pool', x)
  <2>1. x \in Ip
    BY <1>2, UptoIp
  <2>2. CASE x = last
    BY <2>2, <1>3 DEF OutOfService
  <2>3. CASE x # last
    BY <2>1, <2>3, <1>1, <1>3 DEF IInv, ExcludeLoop
  <2>4. QED
    BY <2>2, <2>3
<1>7. QED
  BY <1>3, <1>4, <1>5, <1>6 DEF IInv

-----------------------------------------------------------------------------
(* The calls that only touch the reservations and the leases. *)

LEMMA ReserveIpIInv ==
  ASSUME NEW ip \in Ip, NEW mac \in Mac
  PROVE  IInv /\ ReserveIp(ip, mac) => IInv'
<1> SUFFICES ASSUME IInv, ReserveIp(ip, mac) PROVE IInv'
  OBVIOUS
<1>1. /\ pc = "ready" /\ pc' = pc /\ pool' = reserve_ip(pool, ip, mac) /\ ret' = Done
      /\ first' = first /\ cursor' = cursor /\ last' = last
  BY DEF ReserveIp
<1>2. PoolInv(pool')
  BY <1>1, ReservePreserves DEF IInv, ReserveIp
<1>3. /\ pool'.start = pool.start /\ pool'.end = pool.end
      /\ pool'.included = pool.included /\ pool'.excluded = pool.excluded
  BY <1>1 DEF IInv, PoolInv, Pool, reserve_ip
<1>4. TypeOK' /\ RangeAccounted' /\ ConstructLoop' /\ ExcludeLoop'
  BY <1>1, <1>2, <1>3 DEF IInv, TypeOK, PoolInv, Done, Return, RangeAccounted,
                          ConstructLoop, ExcludeLoop
<1>5. QED
  BY <1>2, <1>4 DEF IInv

LEMMA UnreserveIpIInv ==
  ASSUME NEW ip \in Ip
  PROVE  IInv /\ UnreserveIp(ip) => IInv'
<1> SUFFICES ASSUME IInv, UnreserveIp(ip) PROVE IInv'
  OBVIOUS
<1>1. /\ pc = "ready" /\ pc' = pc /\ pool' = unreserve_ip(pool, ip) /\ ret' = Done
      /\ first' = first /\ cursor' = cursor /\ last' = last
  BY DEF UnreserveIp
<1>2. PoolInv(pool) /\ can_unreserve_ip(pool, ip)
  BY DEF IInv, UnreserveIp
<1>3. /\ PoolInv(pool')
      /\ pool'.start = pool.start /\ pool'.end = pool.end
      /\ pool'.included = pool.included /\ pool'.excluded = pool.excluded
  BY <1>1, <1>2, UnreservePreserves
<1>4. TypeOK' /\ RangeAccounted' /\ ConstructLoop' /\ ExcludeLoop'
  BY <1>1, <1>3 DEF IInv, TypeOK, PoolInv, Done, Return, RangeAccounted,
                    ConstructLoop, ExcludeLoop
<1>5. QED
  BY <1>3, <1>4 DEF IInv

LEMMA GetAddressIInv ==
  ASSUME NEW mac \in Mac
  PROVE  IInv /\ GetAddress(mac) => IInv'
<1> SUFFICES ASSUME IInv, GetAddress(mac) PROVE IInv'
  OBVIOUS
<1>1. PICK ip \in get_address(pool, mac) : pool' = Take(pool, mac, ip) /\ ret' = Return(ip)
  BY DEF GetAddress
<1>2. /\ pc = "ready" /\ pc' = pc
      /\ first' = first /\ cursor' = cursor /\ last' = last
  BY DEF GetAddress
<1>3. pool \in Pool /\ ip \in Ip
  BY <1>1, GetAddressCases DEF IInv, PoolInv
<1>4. PoolInv(pool')
  BY <1>1, TakePreserves DEF IInv
<1>5. /\ pool'.start = pool.start /\ pool'.end = pool.end
      /\ pool'.included = pool.included /\ pool'.excluded = pool.excluded
  BY <1>1, <1>3, TakeFields
<1>6. TypeOK' /\ RangeAccounted' /\ ConstructLoop' /\ ExcludeLoop'
  BY <1>1, <1>2, <1>3, <1>4, <1>5 DEF IInv, TypeOK, PoolInv, Return, RangeAccounted,
                                     ConstructLoop, ExcludeLoop
<1>7. QED
  BY <1>4, <1>6 DEF IInv

(* A call that throws, and release_address, leave the pool as it was. *)
LEMMA NoChangeIInv ==
  ASSUME IInv, pc = "ready", UNCHANGED <<pool, pc, first, cursor, last>>,
         ret' \in {Throw, Done}
  PROVE  IInv'
<1>1. TypeOK'
  <2>1. {Throw, Done} \subseteq [throws : BOOLEAN, ip : Ip \cup {NoIp}]
    BY DEF Throw, Done, Return
  <2>2. ret' \in [throws : BOOLEAN, ip : Ip \cup {NoIp}]
    BY <2>1
  <2>3. QED
    BY <2>2 DEF IInv, TypeOK
<1>2. RangeAccounted' /\ ConstructLoop' /\ ExcludeLoop' /\ PoolInv(pool')
  BY DEF IInv, RangeAccounted, ConstructLoop, ExcludeLoop
<1>3. QED
  BY <1>1, <1>2 DEF IInv

LEMMA NextIInv == IInv /\ [Next]_vars => IInv'
<1> SUFFICES ASSUME IInv, [Next]_vars PROVE IInv'
  OBVIOUS
<1>1. CASE Construct
  BY <1>1, ConstructInsertIInv, ConstructReturnIInv DEF Construct
<1>2. CASE ExcludeRange
  BY <1>2, ExcludeRangeStepIInv, ExcludeRangeReturnIInv DEF ExcludeRange
<1>3. ASSUME NEW start \in Ip, NEW end \in Ip, ExcludeRangeCall(start, end)
      PROVE  IInv'
  BY <1>3, ExcludeRangeCallIInv
<1>4. ASSUME NEW ip \in Ip,
             \/ ExcludeIp(ip) \/ ReserveIpThrows(ip) \/ UnreserveIp(ip)
             \/ UnreserveIpThrows(ip) \/ ReleaseAddress(ip)
      PROVE  IInv'
  <2>1. CASE ExcludeIp(ip) \/ UnreserveIp(ip)
    BY <2>1, ExcludeIpIInv, UnreserveIpIInv
  <2>2. CASE ReserveIpThrows(ip)
    BY <2>2, NoChangeIInv DEF ReserveIpThrows
  <2>3. CASE UnreserveIpThrows(ip)
    BY <2>3, NoChangeIInv DEF UnreserveIpThrows
  <2>4. CASE ReleaseAddress(ip)
    BY <2>4, NoChangeIInv DEF ReleaseAddress, release_address
  <2>5. QED
    BY <1>4, <2>1, <2>2, <2>3, <2>4
<1>5. ASSUME NEW mac \in Mac, GetAddress(mac) PROVE IInv'
  BY <1>5, GetAddressIInv
<1>6. ASSUME NEW mac \in Mac, GetAddressThrows(mac) PROVE IInv'
  BY <1>6, NoChangeIInv DEF GetAddressThrows
<1>7. ASSUME NEW ip \in Ip, NEW mac \in Mac, ReserveIp(ip, mac) PROVE IInv'
  BY <1>7, ReserveIpIInv
<1>8. CASE UNCHANGED vars
  BY <1>8 DEF vars, IInv, TypeOK, RangeAccounted, ConstructLoop, ExcludeLoop, OutOfService
<1>9. QED
  BY <1>1, <1>2, <1>3, <1>4, <1>5, <1>6, <1>7, <1>8 DEF Next

-----------------------------------------------------------------------------
(* The properties *)

(* The strengthened invariant holds in every reachable state. *)
THEOREM Invariance == Spec => []IInv
<1>1. Init => IInv
  BY InitIInv
<1>2. IInv /\ [Next]_vars => IInv'
  BY NextIInv
<1>3. QED
  BY <1>1, <1>2, PTL DEF Spec

(* Every variable keeps its type: the uint32_t cursors stay addresses      *)
(* although both loops run past the end of the space, and the maps only    *)
(* ever hold clients and addresses.                                        *)
THEOREM TypeCorrect == Spec => []TypeOK
<1>1. IInv => TypeOK
  BY DEF IInv
<1>2. QED
  BY <1>1, Invariance, PTL

(* No two clients hold one address (get_address, reserve_ip, unreserve_ip  *)
(* and exclude_ip in any order).                                           *)
THEOREM OneHolder == Spec => []OneHolderPerAddress
<1>1. IInv => OneHolderPerAddress
  BY DEF IInv, PoolInv, LeasesMirrored, OneHolderPerAddress
<1>2. QED
  BY <1>1, Invariance, PTL

(* A reserved address is free or its owner's. *)
THEOREM ReservationHonoured == Spec => []ReservationsHonoured
<1>1. IInv => ReservationsHonoured
  BY DEF IInv, PoolInv, ReservedForHolder, ReservationsHonoured
<1>2. QED
  BY <1>1, Invariance, PTL

(* The constructor fills exactly the range, and exclude_ip moves addresses *)
(* from one set to the other.                                              *)
THEOREM RangeAlwaysAccounted == Spec => []RangeAccounted
<1>1. IInv => RangeAccounted
  BY DEF IInv
<1>2. QED
  BY <1>1, Invariance, PTL

(* exclude_ip_range returns with its whole range, wrapped or not, out of   *)
(* service.                                                                *)
THEOREM RangeExclusion == Spec => RangeExclusionComplete
<1> DEFINE Complete == pc = "excluding" /\ pc' = "ready" =>
                         \A ip \in Upto(first, last) :
                            /\ ip \notin pool'.included
                            /\ pool'.reserved_ip[ip] = NoMac
<1>1. IInv /\ [Next]_vars => [Complete]_vars
  <2> SUFFICES ASSUME IInv, Next, pc = "excluding", pc' = "ready"
               PROVE  Complete
    BY DEF vars
  <2>1. ExcludeRangeReturn
    BY DEF Next, Construct, ConstructInsert, ConstructReturn, ExcludeRange,
           ExcludeRangeStep, ExcludeRangeCall, ExcludeIp, ReserveIpThrows,
           UnreserveIp, UnreserveIpThrows, ReleaseAddress, GetAddress,
           GetAddressThrows, ReserveIp
  <2>2. QED
    BY <2>1, ExcludeRangeReturnIInv DEF OutOfService
<1>2. QED
  BY <1>1, Invariance, PTL DEF Spec, RangeExclusionComplete

-----------------------------------------------------------------------------
(* Leases *)

(* What a step does to the leases and to the addresses in service: one of  *)
(* the two steps of Leases.tla, or nothing.                                *)
LeaseStep ==
  \/ /\ pool'.taken_mac = pool.taken_mac /\ pool'.taken_ip = pool.taken_ip
     /\ pool'.start = pool.start /\ pool'.end = pool.end
     /\ \/ pc = "constructing" /\ pc' = pc
        \/ /\ pc = "constructing" /\ pc' = "ready"
           /\ pool'.included = pool.start .. pool.end
        \/ /\ pc # "constructing" /\ pc' # "constructing"
           /\ pool'.included \subseteq pool.included
  \/ /\ pc = "ready" /\ pc' = pc /\ pool'.included = pool.included
     /\ \E mac \in Mac, ip \in pool.included :
           /\ pool.taken_ip[ip] \in {NoMac, mac}
           /\ \A other \in Mac \ {mac} : pool.taken_mac[other] # ip
           /\ pool'.taken_ip = [pool.taken_ip EXCEPT ![ip] = mac]
           /\ pool'.taken_mac = [pool.taken_mac EXCEPT ![mac] = ip]

LEMMA NextLeaseStep == IInv /\ [Next]_vars => LeaseStep
<1> SUFFICES ASSUME IInv, [Next]_vars PROVE LeaseStep
  OBVIOUS
<1>1. PoolInv(pool) /\ pool \in Pool
  BY DEF IInv, PoolInv
<1>2. CASE ConstructInsert
  BY <1>1, <1>2 DEF ConstructInsert, LeaseStep, Pool
<1>3. CASE ConstructReturn
  BY <1>3, ConstructReturnFull DEF ConstructReturn, LeaseStep
<1>4. ASSUME NEW ip \in Ip, pool' = exclude_ip(pool, ip),
             pc # "constructing", pc' # "constructing"
      PROVE  LeaseStep
  <2>1. LET q == exclude_ip(pool, ip)
        IN  /\ PoolInv(q)
            /\ q.start = pool.start /\ q.end = pool.end
            /\ q.taken_ip = pool.taken_ip /\ q.taken_mac = pool.taken_mac
            /\ q.included = pool.included \ {ip}
            /\ q.excluded = IF ip \in pool.included THEN pool.excluded \cup {ip}
                                                     ELSE pool.excluded
            /\ q.reserved_ip = [pool.reserved_ip EXCEPT ![ip] = NoMac]
    BY <1>1, ExcludeFields, Zenon
  <2>2. /\ pool'.start = pool.start /\ pool'.end = pool.end
        /\ pool'.taken_ip = pool.taken_ip /\ pool'.taken_mac = pool.taken_mac
        /\ pool'.included = pool.included \ {ip}
    BY <1>4, <2>1
  <2>3. QED
    BY <1>4, <2>2 DEF LeaseStep
<1>5. CASE ExcludeRange
  BY <1>4, <1>5 DEF ExcludeRange, ExcludeRangeStep, ExcludeRangeReturn, IInv, TypeOK
<1>6. ASSUME NEW ip \in Ip, ExcludeIp(ip) PROVE LeaseStep
  BY <1>4, <1>6 DEF ExcludeIp
<1>7. ASSUME pool' = pool, pc # "constructing", pc' # "constructing"
      PROVE  LeaseStep
  BY <1>7 DEF LeaseStep
<1>8. ASSUME NEW ip \in Ip, UnreserveIp(ip) PROVE LeaseStep
  <2>1. can_unreserve_ip(pool, ip) /\ pool' = unreserve_ip(pool, ip)
        /\ pc = "ready" /\ pc' = pc
    BY <1>8 DEF UnreserveIp
  <2>2. QED
    BY <1>1, <2>1, UnreservePreserves DEF LeaseStep
<1>9. ASSUME NEW ip \in Ip, NEW mac \in Mac, ReserveIp(ip, mac) PROVE LeaseStep
  BY <1>1, <1>9 DEF ReserveIp, reserve_ip, LeaseStep, Pool
<1>10. ASSUME NEW mac \in Mac, GetAddress(mac) PROVE LeaseStep
  <2>1. PICK ip \in get_address(pool, mac) : pool' = Take(pool, mac, ip)
    BY <1>10 DEF GetAddress
  <2>2. pc = "ready" /\ pc' = pc /\ ip \in Ip
    BY <1>1, <1>10, GetAddressCases DEF GetAddress
  <2>3. CASE pool.reserved_mac[mac] = NoIp /\ pool.taken_mac[mac] # NoIp
    BY <2>1, <2>2, <2>3 DEF Take, LeaseStep
  <2>4. CASE ~(pool.reserved_mac[mac] = NoIp /\ pool.taken_mac[mac] # NoIp)
    <3>1. /\ pool'.included = pool.included
          /\ pool'.taken_ip = [pool.taken_ip EXCEPT ![ip] = mac]
          /\ pool'.taken_mac = [pool.taken_mac EXCEPT ![mac] = ip]
      BY <1>1, <2>1, <2>2, <2>4, TakeFields
    <3>2. ip \in pool.included
      BY <1>1, <2>2, <2>4, GetAddressCases, IpFacts, NoMacAssumption
         DEF Free, PoolInv, ReservedIncluded
    <3>3. /\ pool.taken_ip[ip] \in {NoMac, mac}
          /\ \A other \in Mac \ {mac} : pool.taken_mac[other] # ip
      BY <1>1, GetAddressUncontended
    <3>4. QED
      BY <2>2, <3>1, <3>2, <3>3 DEF LeaseStep
  <2>5. QED
    BY <2>3, <2>4
<1>11. CASE UNCHANGED vars
  BY <1>11 DEF vars, LeaseStep
<1>12. QED
  BY <1>2, <1>3, <1>5, <1>6, <1>7, <1>8, <1>9, <1>10, <1>11
     DEF Next, Construct, ExcludeRangeCall, ReserveIpThrows, UnreserveIpThrows,
         GetAddressThrows, ReleaseAddress, release_address

(* The pool implements the abstract specification Leases.tla. *)
THEOREM Refinement == Spec => ImplementsLeases
<1>1. Init => Lease!Init
  <2> SUFFICES ASSUME Init PROVE Lease!Init
    OBVIOUS
  <2>1. PICK start \in Ip, end \in Ip : pool = EmptyPool(start, end, {})
    BY DEF Init
  <2>2. pool.start = start /\ pool.end = end /\ pool.taken_mac = [m \in Mac |-> NoIp]
    BY <2>1 DEF EmptyPool
  <2>3. QED
    BY <2>2, RangeIp DEF Init, Lease!Init
<1>2. IInv /\ [Next]_vars => [Lease!Next]_(Lease!vars)
  <2> SUFFICES ASSUME IInv, [Next]_vars PROVE [Lease!Next]_(Lease!vars)
    OBVIOUS
  <2>1. pool.included \subseteq Ip
    BY DEF IInv, PoolInv, Pool
  <2>2. LeaseStep
    BY NextLeaseStep
  <2>3. CASE pool'.taken_mac = pool.taken_mac
    BY <2>2, <2>3 DEF LeaseStep, Lease!Next, Lease!Withdraw, Lease!vars
  <2>4. CASE pool'.taken_mac # pool.taken_mac
    <3>1. PICK mac \in Mac, ip \in pool.included :
            /\ \A other \in Mac \ {mac} : pool.taken_mac[other] # ip
            /\ pool'.taken_mac = [pool.taken_mac EXCEPT ![mac] = ip]
      BY <2>2, <2>4 DEF LeaseStep
    <3>2. pc = "ready" /\ pc' = "ready" /\ pool'.included = pool.included
      BY <2>2, <2>4 DEF LeaseStep
    <3>3. Lease!Grant(mac, ip)
      BY <3>1, <3>2 DEF Lease!Grant
    <3>4. QED
      BY <2>1, <3>3 DEF Lease!Next
  <2>5. QED
    BY <2>3, <2>4
<1>3. QED
  BY <1>1, <1>2, Invariance, PTL DEF Spec, ImplementsLeases, Lease!Spec

LeaseType == pool.taken_mac \in [Mac -> Ip \cup {NoIp}]

(* Leases.tla alone makes its leases exclusive, so whatever implements it  *)
(* need not be looked at again.                                            *)
LEMMA AbstractLeasesExclusive == Lease!Spec => [](LeaseType /\ Lease!Exclusive)
<1>1. Lease!Init => LeaseType /\ Lease!Exclusive
  BY DEF Lease!Init, LeaseType, Lease!Exclusive
<1>2. LeaseType /\ Lease!Exclusive /\ [Lease!Next]_(Lease!vars)
        => (LeaseType /\ Lease!Exclusive)'
  <2> SUFFICES ASSUME LeaseType, Lease!Exclusive, [Lease!Next]_(Lease!vars)
               PROVE  LeaseType' /\ Lease!Exclusive'
    OBVIOUS
  <2>1. ASSUME NEW mac \in Mac, NEW ip \in Ip, Lease!Grant(mac, ip)
        PROVE  LeaseType' /\ Lease!Exclusive'
    BY <2>1 DEF Lease!Grant, LeaseType, Lease!Exclusive
  <2>2. CASE Lease!Withdraw
    BY <2>2 DEF Lease!Withdraw, LeaseType, Lease!Exclusive
  <2>3. CASE UNCHANGED Lease!vars
    BY <2>3 DEF Lease!vars, LeaseType, Lease!Exclusive
  <2>4. QED
    BY <2>1, <2>2, <2>3 DEF Lease!Next
<1>3. QED
  BY <1>1, <1>2, PTL DEF Lease!Spec

(* get_address never gives one address to two clients: what the pool       *)
(* inherits from the promise of Leases.tla.                                *)
THEOREM LeasesExclusive == Spec => []Lease!Exclusive
BY Refinement, AbstractLeasesExclusive, PTL DEF ImplementsLeases

=============================================================================
