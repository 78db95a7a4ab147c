---------------------------- MODULE MCDhcpServer -----------------------------
(***************************************************************************)
(* Small instances of DhcpServer.tla.                                      *)
(***************************************************************************)
EXTENDS DhcpServer, FiniteSets

(* A datagram of a client the server can read. *)
Message(type, x, m) ==
  [known |-> TRUE, wellformed |-> TRUE, op |-> "BOOTREQUEST",
   type |-> type, xid |-> x, mac |-> m]

(* Who uses which transaction: with two of each, one client keeps to its   *)
(* own, and the other uses both.                                           *)
Uses == LET all == Xid \X Mac
        IN  IF Cardinality(all) = 1 THEN all ELSE all \ {CHOOSE u \in all : TRUE}

ClientTraffic == { Message(type, u[1], u[2]) : type \in {"DISCOVER", "REQUEST"}, u \in Uses }

(* Datagrams for the other ways through main_loop: one that does not       *)
(* parse, and a server's own from an interface that is not known.          *)
OtherTraffic ==
  LET any == CHOOSE d \in ClientTraffic : d.type = "DISCOVER"
  IN  { [any EXCEPT !.wellformed = FALSE],
        [any EXCEPT !.known = FALSE, !.op = "BOOTREPLY"] }

AllTraffic == ClientTraffic \cup OtherTraffic

(* A pool with two addresses, one inside it, one around it, a reversed     *)
(* range, and one up to the last address.                                  *)
SomeRequests == { <<1, 2>>, <<2, 2>>, <<0, 3>>, <<3, 2>>, <<4, LastIp>> }

=============================================================================
