------------------------------- MODULE Leases --------------------------------
(***************************************************************************)
(* What an address pool promises, whatever it does inside: a client is     *)
(* given an address that is still usable and that no other client holds,   *)
(* a client once served always holds some address, and an address          *)
(* withdrawn from use is never given to a client that does not hold it.    *)
(***************************************************************************)
CONSTANTS Client, Address, None

VARIABLES
  lease,    \* the address each client was last given
  usable    \* the addresses that may still be given out

vars == <<lease, usable>>

Init == /\ lease = [c \in Client |-> None]
        /\ usable \in SUBSET Address

(* Client c is given address a; it may hold another one until then. *)
Grant(c, a) == /\ a \in usable
               /\ \A other \in Client \ {c} : lease[other] # a
               /\ lease' = [lease EXCEPT ![c] = a]
               /\ UNCHANGED usable

(* Addresses are withdrawn from use; the clients that hold them keep them. *)
Withdraw == /\ usable' \subseteq usable
            /\ UNCHANGED lease

Next == \/ \E c \in Client, a \in Address : Grant(c, a)
        \/ Withdraw

Spec == Init /\ [][Next]_vars

(* No address is held by two clients. *)
Exclusive == \A c, d \in Client : lease[c] = lease[d] /\ lease[c] # None => c = d

=============================================================================
