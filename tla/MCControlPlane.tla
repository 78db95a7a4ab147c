--------------------------- MODULE MCControlPlane ----------------------------
(***************************************************************************)
(* Small instances of ControlPlane.tla.                                    *)
(***************************************************************************)
EXTENDS ControlPlane

(* A pool, one around it, one next to it, a reversed one, and one up to    *)
(* the last address.                                                       *)
SomeRequests == { <<1, 1>>, <<0, 2>>, <<2, 2>>, <<3, 2>>, <<3, LastIp>> }

FewRequests == { <<1, 1>>, <<0, 2>>, <<3, LastIp>> }

AllCommands ==
  LET any == CHOOSE r \in Requests : TRUE
  IN  { [cmd |-> "dhcp.pool.create", range |-> r] : r \in Requests }
        \cup { [cmd |-> cmd, range |-> any] : cmd \in {"dhcp.pool.list", "ip.address"} }

LookupCommands == { c \in AllCommands : c.cmd # "dhcp.pool.create" }

(* One client, and a datagram that ends the process. *)
SomeTraffic ==
  { [known |-> TRUE, wellformed |-> readable, op |-> "BOOTREQUEST",
     type |-> "DISCOVER", xid |-> x, mac |-> m] :
      readable \in BOOLEAN, x \in Xid, m \in Mac }

NoTraffic == {}

=============================================================================
