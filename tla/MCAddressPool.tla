---------------------------- MODULE MCAddressPool ----------------------------
(***************************************************************************)
(* One pool, all of whose methods are called in any order.  Four addresses *)
(* give ranges with a first, an inner and a last address, and ranges that  *)
(* touch the end of the address space; two clients suffice for every       *)
(* conflict over an address.                                               *)
(***************************************************************************)
EXTENDS AddressPool

=============================================================================
