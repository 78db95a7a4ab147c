----------------------------- MODULE PoolMethods -----------------------------
(***************************************************************************)
(* The class AddressPool (dhcp/src/AddressPool.cpp) as a value: a pool is  *)
(* a record with one field per data member, and every method is an         *)
(* operator on such records.  The state machine of one pool is in          *)
(* AddressPool.tla; DhcpServer.tla keeps a sequence of pools.              *)
(*                                                                         *)
(* An IPv4 address is the number to_uint32_t() gives; a std::map is a      *)
(* total function in which NoIp / NoMac stands for an absent key.  The     *)
(* member _options is left out: no method reads it.                        *)
(***************************************************************************)
EXTENDS Naturals

CONSTANTS
  AddressSpace,   \* number of addresses: 2^32 in the code
  Mac,            \* the clients' hardware addresses
  NoIp,           \* no entry in a map of addresses
  NoMac           \* no entry in a map of hardware addresses

ASSUME AddressSpaceAssumption == AddressSpace \in Nat \ {0}
ASSUME NoMacAssumption == NoMac \notin Mac
ASSUME NoIpAssumption == NoIp \notin 0 .. AddressSpace - 1

Ip == 0 .. AddressSpace - 1
LastIp == AddressSpace - 1

(* Two faulty increments: one that leaves uint32_t, one that is lost, as   *)
(* when a postfix operator works on the copy it returns.                   *)
NextIpUnbounded(ip) == ip + 1
NextIpLost(ip) == ip

(* The uint32_t arithmetic of IPv4Address::operator++ wraps around. *)
NextIp(ip) == (ip + 1) % AddressSpace

Pool == [ start        : Ip,                     \* _addresses_range
          end          : Ip,
          included     : SUBSET Ip,              \* _included_addresses
          excluded     : SUBSET Ip,              \* _excluded_addresses
          reserved_ip  : [Ip -> Mac \cup {NoMac}],
          reserved_mac : [Mac -> Ip \cup {NoIp}],
          taken_ip     : [Ip -> Mac \cup {NoMac}],
          taken_mac    : [Mac -> Ip \cup {NoIp}],
          cache        : [Mac -> Ip \cup {NoIp}] ]

(* A pool over start..end whose set of included addresses is given. *)
EmptyPool(start, end, included) ==
  [ start        |-> start,
    end          |-> end,
    included     |-> included,
    excluded     |-> {},
    reserved_ip  |-> [ip \in Ip |-> NoMac],
    reserved_mac |-> [m \in Mac |-> NoIp],
    taken_ip     |-> [ip \in Ip |-> NoMac],
    taken_mac    |-> [m \in Mac |-> NoIp],
    cache        |-> [m \in Mac |-> NoIp] ]

-----------------------------------------------------------------------------
(* get_address *)

(* A faulty loop: it does not skip the addresses that are taken. *)
FreeIgnoresTaken(p) == { ip \in p.included : p.reserved_ip[ip] = NoMac }

(* The addresses its last loop does not skip. *)
Free(p) == { ip \in p.included : /\ p.reserved_ip[ip] = NoMac
                                 /\ p.taken_ip[ip] = NoMac }

(* std::set iterates in numeric order, so the loop returns the least one. *)
FirstFree(p) == { ip \in Free(p) : \A other \in Free(p) : ip <= other }

(* The address get_address(mac) returns, as a set with one element; the    *)
(* empty set when the call throws.                                         *)
get_address(p, mac) ==
  IF p.reserved_mac[mac] # NoIp   THEN { p.reserved_mac[mac] }
  ELSE IF p.taken_mac[mac] # NoIp THEN { p.taken_mac[mac] }
  ELSE IF p.cache[mac] # NoIp     THEN { p.cache[mac] }
  ELSE FirstFree(p)

(* A faulty bookkeeping: only _taken_ip_addresses gains the pair. *)
TakeForgetsClient(p, mac, ip) == [p EXCEPT !.taken_ip = [@ EXCEPT ![ip] = mac]]

(* The pool after get_address(mac) has returned ip: both maps of taken     *)
(* addresses gain the pair, unless the client is served the address it     *)
(* already had.  No entry is removed and _cache is not written.            *)
Take(p, mac, ip) ==
  IF p.reserved_mac[mac] = NoIp /\ p.taken_mac[mac] # NoIp
  THEN p
  ELSE [p EXCEPT !.taken_mac = [@ EXCEPT ![mac] = ip],
                 !.taken_ip  = [@ EXCEPT ![ip] = mac]]

-----------------------------------------------------------------------------
(* Reservations.  Both methods throw, and change nothing, when the guard   *)
(* is false.                                                               *)

(* A faulty guard: the third test, of is_address_taken, is missing. *)
CanReserveTaken(p, ip) == /\ ip \in p.included
                          /\ p.reserved_ip[ip] = NoMac

can_reserve_ip(p, ip) ==
  /\ ip \in p.included
  /\ p.reserved_ip[ip] = NoMac
  /\ p.taken_ip[ip] = NoMac

reserve_ip(p, ip, mac) ==
  [p EXCEPT !.reserved_ip  = [@ EXCEPT ![ip] = mac],
            !.reserved_mac = [@ EXCEPT ![mac] = ip]]

can_unreserve_ip(p, ip) == p.reserved_ip[ip] # NoMac

unreserve_ip(p, ip) ==
  [p EXCEPT !.reserved_mac = [@ EXCEPT ![p.reserved_ip[ip]] = NoIp],
            !.reserved_ip  = [@ EXCEPT ![ip] = NoMac]]

-----------------------------------------------------------------------------
(* Exclusion *)

(* The body of release_address is empty. *)
release_address(p, ip) == p

(* At most one entry of _cache, the one find_if stops at, is erased. *)
ForgetCached(cache, ip) ==
  IF \E m \in Mac : cache[m] = ip
  THEN [cache EXCEPT ![CHOOSE m \in Mac : cache[m] = ip] = NoIp]
  ELSE cache

(* A faulty exclusion: the final erase from _included_addresses is missing. *)
ExcludeKeepsIncluded(p, ip) ==
  IF ip \notin p.included THEN p ELSE [p EXCEPT !.excluded = @ \cup {ip}]

exclude_ip(p, ip) ==
  LET unreserved == IF p.reserved_ip[ip] # NoMac THEN unreserve_ip(p, ip) ELSE p
      released   == IF p.taken_ip[ip] # NoMac
                    THEN release_address(unreserved, ip) ELSE unreserved
  IN  IF ip \notin p.included
      THEN p
      ELSE [released EXCEPT !.excluded = @ \cup {ip},
                            !.cache    = ForgetCached(@, ip),
                            !.included = @ \ {ip}]

=============================================================================
