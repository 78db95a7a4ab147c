----------------------------- MODULE AddressPool -----------------------------
(***************************************************************************)
(* One object of class AddressPool (dhcp/src/AddressPool.cpp) and a caller *)
(* that makes any sequence of calls of its public methods.  The two loops  *)
(* over addresses, in the constructor and in exclude_ip_range, take one    *)
(* step per address, because their counters are uint32_t and wrap around.  *)
(***************************************************************************)
EXTENDS PoolMethods

VARIABLES
  pool,     \* the object
  pc,       \* "constructing", "excluding" (inside a loop) or "ready"
  first,    \* the first address of the running loop
  cursor,   \* the loop's current address
  last,     \* the address exclude_ip_range stops at
  ret       \* what the last call returned: an address, or whether it threw

vars == <<pool, pc, first, cursor, last, ret>>

Return(ip) == [throws |-> FALSE, ip |-> ip]
Done  == Return(NoIp)
Throw == [throws |-> TRUE, ip |-> NoIp]

Init == /\ \E start, end \in Ip : pool = EmptyPool(start, end, {})
        /\ pc = "constructing"
        /\ first = pool.start
        /\ cursor = pool.start
        /\ last = pool.end
        /\ ret = Done

-----------------------------------------------------------------------------
(* AddressPool::AddressPool: for (ip = start; ip <= end; ip++) insert(ip) *)

ConstructInsert ==
  /\ pc = "constructing"
  /\ cursor <= pool.end
  /\ pool' = [pool EXCEPT !.included = @ \cup {cursor}]
  /\ cursor' = NextIp(cursor)
  /\ UNCHANGED <<pc, first, last, ret>>

ConstructReturn ==
  /\ pc = "constructing"
  /\ cursor > pool.end
  /\ pc' = "ready"
  /\ UNCHANGED <<pool, first, cursor, last, ret>>

-----------------------------------------------------------------------------
(* exclude_ip, and exclude_ip_range: while (current != ip_end) ... *)

ExcludeIp(ip) ==
  /\ pc = "ready"
  /\ pool' = exclude_ip(pool, ip)
  /\ ret' = Done
  /\ UNCHANGED <<pc, first, cursor, last>>

ExcludeRangeCall(start, end) ==
  /\ pc = "ready"
  /\ pc' = "excluding"
  /\ first' = start
  /\ cursor' = start
  /\ last' = end
  /\ UNCHANGED <<pool, ret>>

ExcludeRangeStep ==
  /\ pc = "excluding"
  /\ cursor # last
  /\ pool' = exclude_ip(pool, cursor)
  /\ cursor' = NextIp(cursor)
  /\ UNCHANGED <<pc, first, last, ret>>

ExcludeRangeReturn ==
  /\ pc = "excluding"
  /\ cursor = last
  /\ pool' = exclude_ip(pool, last)
  /\ pc' = "ready"
  /\ ret' = Done
  /\ UNCHANGED <<first, cursor, last>>

-----------------------------------------------------------------------------
(* Reservations, and the calls a client's requests lead to. *)

ReserveIp(ip, mac) ==
  /\ pc = "ready"
  /\ can_reserve_ip(pool, ip)
  /\ pool' = reserve_ip(pool, ip, mac)
  /\ ret' = Done
  /\ UNCHANGED <<pc, first, cursor, last>>

ReserveIpThrows(ip) ==
  /\ pc = "ready"
  /\ ~can_reserve_ip(pool, ip)
  /\ ret' = Throw
  /\ UNCHANGED <<pool, pc, first, cursor, last>>

UnreserveIp(ip) ==
  /\ pc = "ready"
  /\ can_unreserve_ip(pool, ip)
  /\ pool' = unreserve_ip(pool, ip)
  /\ ret' = Done
  /\ UNCHANGED <<pc, first, cursor, last>>

UnreserveIpThrows(ip) ==
  /\ pc = "ready"
  /\ ~can_unreserve_ip(pool, ip)
  /\ ret' = Throw
  /\ UNCHANGED <<pool, pc, first, cursor, last>>

GetAddress(mac) ==
  /\ pc = "ready"
  /\ \E ip \in get_address(pool, mac) :
        /\ pool' = Take(pool, mac, ip)
        /\ ret' = Return(ip)
  /\ UNCHANGED <<pc, first, cursor, last>>

GetAddressThrows(mac) ==
  /\ pc = "ready"
  /\ get_address(pool, mac) = {}
  /\ ret' = Throw
  /\ UNCHANGED <<pool, pc, first, cursor, last>>

ReleaseAddress(ip) ==
  /\ pc = "ready"
  /\ pool' = release_address(pool, ip)
  /\ ret' = Done
  /\ UNCHANGED <<pc, first, cursor, last>>

-----------------------------------------------------------------------------

Construct == ConstructInsert \/ ConstructReturn

ExcludeRange == ExcludeRangeStep \/ ExcludeRangeReturn

Next ==
  \/ Construct
  \/ ExcludeRange
  \/ \E start, end \in Ip : ExcludeRangeCall(start, end)
  \/ \E ip \in Ip : \/ ExcludeIp(ip)
                    \/ ReserveIpThrows(ip)
                    \/ UnreserveIp(ip)
                    \/ UnreserveIpThrows(ip)
                    \/ ReleaseAddress(ip)
  \/ \E mac \in Mac : GetAddress(mac) \/ GetAddressThrows(mac)
  \/ \E ip \in Ip, mac \in Mac : ReserveIp(ip, mac)

Spec == Init /\ [][Next]_vars

(* A call that was made runs: the thread inside a loop keeps stepping.     *)
(* Nothing obliges the caller to make another call.                        *)
FairSpec == Spec /\ WF_vars(Construct) /\ WF_vars(ExcludeRange)

-----------------------------------------------------------------------------
(* Properties *)

TypeOK == /\ pool \in Pool
          /\ pc \in {"constructing", "excluding", "ready"}
          /\ first \in Ip /\ cursor \in Ip /\ last \in Ip
          /\ ret \in [throws : BOOLEAN, ip : Ip \cup {NoIp}]

(* No address is leased to two clients, however reservations come, go and  *)
(* move between the calls of get_address.                                  *)
OneHolderPerAddress ==
  \A a, b \in Mac :
    pool.taken_mac[a] = pool.taken_mac[b] /\ pool.taken_mac[a] # NoIp => a = b

(* An address reserved for a client is free or held by that client: nobody *)
(* else's lease can stand in the way of the reservation.                   *)
ReservationsHonoured ==
  \A ip \in Ip : pool.reserved_ip[ip] # NoMac =>
                   pool.taken_ip[ip] \in {NoMac, pool.reserved_ip[ip]}

(* After construction, and through every exclusion, each address of the    *)
(* range is either included or excluded, never both, and no address from   *)
(* outside the range is either.                                            *)
RangeAccounted ==
  /\ pool.included \cap pool.excluded = {}
  /\ pc # "constructing" => pool.included \cup pool.excluded = pool.start .. pool.end

(* The addresses from a up to and including b, going up with wraparound. *)
Upto(a, b) == IF a <= b THEN a .. b ELSE (a .. LastIp) \cup (0 .. b)

(* exclude_ip_range, when it returns, has taken every address from its     *)
(* first argument up to its second out of service, with the reservations   *)
(* on them; a reversed range wraps around the whole address space.         *)
RangeExclusionComplete ==
  [][pc = "excluding" /\ pc' = "ready" =>
       \A ip \in Upto(first, last) : /\ ip \notin pool'.included
                                     /\ pool'.reserved_ip[ip] = NoMac]_vars

(* The loops on a uint32_t end.  The constructor returns for every range   *)
(* that stops short of the last address of the space (and never for one    *)
(* that does not); exclude_ip_range returns for every pair of arguments,   *)
(* reversed or not.                                                        *)
LoopsTerminate == /\ pool.end # LastIp ~> pc = "ready"
                  /\ pc = "excluding" ~> pc = "ready"

(* The pool keeps the promise of Leases.tla: the abstract lease of a       *)
(* client is its entry in _taken_mac_addresses, and the usable addresses   *)
(* are the included ones (all of the range while it is being filled).      *)
Lease == INSTANCE Leases WITH
           Client <- Mac, Address <- Ip, None <- NoIp,
           lease  <- pool.taken_mac,
           usable <- IF pc = "constructing" THEN pool.start .. pool.end
                                            ELSE pool.included

ImplementsLeases == Lease!Spec

-----------------------------------------------------------------------------
(* What comments of the source say, and the code does not do. *)

(* AddressPool.hpp:45-46 says of _taken_ip_addresses and                   *)
(* _taken_mac_addresses that they go together ("тоже вместе"): an address  *)
(* is recorded as a client's exactly when the client is recorded at it.    *)
TakenMapsTogether ==
  \A ip \in Ip, mac \in Mac : pool.taken_ip[ip] = mac <=> pool.taken_mac[mac] = ip

(* AddressPool.hpp:10 says of IPv4AddressRange that it includes its end    *)
(* ("включительно"): the pool built over a range has all of it.            *)
RangeInclusive ==
  pc = "constructing" /\ pool.start <= pool.end
    ~> pc = "ready" /\ pool.included = pool.start .. pool.end

=============================================================================
