-------------------------- MODULE ControlPlaneProofs --------------------------
(***************************************************************************)
(* Theorems about ControlPlane.tla.  The server inside it is Dhcp; the     *)
(* theorems about the server are those of DhcpServerProofs, instantiated   *)
(* as Server, whose definitions are the same ones under another name.      *)
(***************************************************************************)
EXTENDS ControlPlane, SequenceTheorems, TLAPS

Server == INSTANCE DhcpServerProofs

-----------------------------------------------------------------------------
(* The CLI's own variables. *)
CliOK ==
  /\ command = <<>> \/ \E c \in Message : command = <<c>>
  /\ shown = <<>> \/ \E s \in [request : Message, answer : Reply] : shown = <<s>>
  /\ waiting \in BOOLEAN

(* A message on its way is the command the CLI waits on, or an answer to   *)
(* it that tells the truth.                                                *)
RequestHere(q) == q = <<>> \/ q = <<command[1]>>

ReplyHere(q) == q = <<>> \/ \E a \in Reply : q = <<a>> /\ Truthful(command[1], a)

Channels ==
  /\ RequestHere(cli_core) /\ RequestHere(core_queue)
  /\ RequestHere(core_dhcp) /\ RequestHere(dhcp_queue)
  /\ ReplyHere(dhcp_core) /\ ReplyHere(core_cli)

(* The pool the API thread is building is the one asked for. *)
Building ==
  api # <<>> => /\ command[1].cmd = "dhcp.pool.create"
                /\ api = <<command[1].range>>

(* OneUnderWay without arithmetic: a message in one place is in no other,  *)
(* and there is none unless the CLI waits.                                 *)
Alone ==
  /\ command = <<>> => /\ cli_core = <<>> /\ core_queue = <<>> /\ core_dhcp = <<>>
                       /\ dhcp_queue = <<>> /\ api = <<>>
                       /\ dhcp_core = <<>> /\ core_cli = <<>>
  /\ cli_core # <<>> => /\ core_queue = <<>> /\ core_dhcp = <<>> /\ dhcp_queue = <<>>
                        /\ api = <<>> /\ dhcp_core = <<>> /\ core_cli = <<>>
  /\ core_queue # <<>> => /\ core_dhcp = <<>> /\ dhcp_queue = <<>>
                          /\ api = <<>> /\ dhcp_core = <<>> /\ core_cli = <<>>
  /\ core_dhcp # <<>> => /\ dhcp_queue = <<>> /\ api = <<>>
                         /\ dhcp_core = <<>> /\ core_cli = <<>>
  /\ dhcp_queue # <<>> => api = <<>> /\ dhcp_core = <<>> /\ core_cli = <<>>
  /\ api # <<>> => dhcp_core = <<>> /\ core_cli = <<>>
  /\ dhcp_core # <<>> => core_cli = <<>>

IInv == /\ CliOK
        /\ Channels
        /\ Building
        /\ Alone
        /\ AnswerTruthful
        /\ Server!IInv

-----------------------------------------------------------------------------
(* The server *)

LEMMA ServerAssumptions ==
  /\ Server!TrafficAssumption /\ Server!RequestsAssumption
  /\ Server!AddressSpaceAssumption /\ Server!NoMacAssumption /\ Server!NoIpAssumption
BY DhcpAssumption, AddressSpaceAssumption, NoMacAssumption, NoIpAssumption
   DEF Server!TrafficAssumption, Server!RequestsAssumption, Server!Datagram,
       Server!AddressSpaceAssumption, Server!NoMacAssumption, Server!NoIpAssumption,
       Dhcp!Datagram, Server!Ip, Ip

(* Dhcp and Server are two names for one state machine.                    *)
LEMMA SameActions ==
  /\ Dhcp!Udp => Server!Udp
  /\ \A range : Dhcp!CreatePool(range) => Server!CreatePool(range)
  /\ Dhcp!add_address_pool => Server!add_address_pool
  /\ Dhcp!MainLoop => Server!MainLoop
<1>1. Dhcp!Udp => Server!Udp
  BY DEF Dhcp!Udp, Server!Udp, Dhcp!Receive, Server!Receive, Dhcp!Running, Server!Running
<1>2. \A range : Dhcp!CreatePool(range) => Server!CreatePool(range)
  BY DEF Dhcp!CreatePool, Server!CreatePool, Dhcp!Running, Server!Running
<1>3. Dhcp!add_address_pool => Server!add_address_pool
  BY DEF Dhcp!add_address_pool, Server!add_address_pool, Dhcp!Running, Server!Running,
         Dhcp!Intersects, Server!Intersects, Dhcp!EmptyPool, Server!EmptyPool,
         Dhcp!LastIp, Server!LastIp, Dhcp!Ip, Server!Ip
<1>4. Dhcp!have_free_address \/ Dhcp!is_input_queue_blank \/ Dhcp!get_next_datagram
        => Server!MainLoop
  BY DEF Dhcp!have_free_address, Server!have_free_address, Dhcp!is_input_queue_blank,
         Server!is_input_queue_blank, Dhcp!get_next_datagram, Server!get_next_datagram,
         Server!MainLoop
<1>5. Dhcp!broadcast_send_to \/ Dhcp!SendThrows => Server!MainLoop
  BY DEF Dhcp!broadcast_send_to, Server!broadcast_send_to, Dhcp!SendThrows,
         Server!SendThrows, Dhcp!Terminate, Server!Terminate, Dhcp!NextIteration,
         Server!NextIteration, Server!MainLoop
<1>6. Dhcp!UnknownInterface \/ Dhcp!ParseThrows \/ Dhcp!Ignore \/ Dhcp!Request
        => Server!MainLoop
  BY DEF Dhcp!UnknownInterface, Server!UnknownInterface, Dhcp!ParseThrows,
         Server!ParseThrows, Dhcp!Ignore, Server!Ignore, Dhcp!Request, Server!Request,
         Dhcp!IsRequest, Server!IsRequest, Dhcp!Acknowledged, Server!Acknowledged,
         Dhcp!Terminate, Server!Terminate, Dhcp!NextIteration, Server!NextIteration,
         Server!Handle, Server!MainLoop
<1>7. \A m : Dhcp!take_address(m) = Server!take_address(m)
  BY DEF Dhcp!take_address, Server!take_address, Dhcp!get_address, Server!get_address,
         Dhcp!FirstFree, Server!FirstFree, Dhcp!Free, Server!Free
<1>8. \A p, m, ip : Dhcp!Take(p, m, ip) = Server!Take(p, m, ip)
  BY DEF Dhcp!Take, Server!Take
<1>9. Dhcp!Discover => Server!MainLoop
  BY <1>7, <1>8 DEF Dhcp!Discover, Server!Discover, Dhcp!IsRequest, Server!IsRequest,
                    Server!Handle, Server!MainLoop
<1>10. Dhcp!DiscoverThrows => Server!MainLoop
  BY <1>7 DEF Dhcp!DiscoverThrows, Server!DiscoverThrows, Dhcp!IsRequest,
              Server!IsRequest, Dhcp!Terminate, Server!Terminate,
              Server!Handle, Server!MainLoop
<1>11. QED
  BY <1>1, <1>2, <1>3, <1>4, <1>5, <1>6, <1>9, <1>10 DEF Dhcp!MainLoop, Dhcp!Handle

LEMMA SameInit == Dhcp!Init => Server!Init
BY DEF Dhcp!Init, Server!Init

LEMMA SameNext == [Dhcp!Next]_(Dhcp!vars) => [Server!Next]_(Server!vars)
BY SameActions DEF Dhcp!Next, Server!Next, Dhcp!vars, Server!vars

(* Whatever the control plane does, the server makes a step of its own or  *)
(* none.                                                                   *)
LEMMA ServerStep == IInv /\ [Next]_vars => [Dhcp!Next]_(Dhcp!vars)
<1> SUFFICES ASSUME IInv, [Next]_vars PROVE [Dhcp!Next]_(Dhcp!vars)
  OBVIOUS
<1>1. CASE UNCHANGED dhcpVars
  BY <1>1 DEF dhcpVars, Dhcp!vars
<1>2. CASE DhcpServes
  BY <1>2 DEF DhcpServes, Dhcp!Next
<1>3. CASE ApiCreate
  <2>1. Dhcp!CreatePool(Head(dhcp_queue).range) /\ dhcp_queue # <<>>
    BY <1>3 DEF ApiCreate, ApiTake
  <2>2. PICK c \in Message : command = <<c>>
    BY <2>1 DEF IInv, CliOK, Alone
  <2>3. dhcp_queue = <<c>>
    BY <2>1, <2>2 DEF IInv, Channels, RequestHere
  <2>4. Head(dhcp_queue).range \in Requests
    BY <2>3 DEF Message
  <2>5. QED
    BY <2>1, <2>4 DEF Dhcp!Next
<1>4. CASE ApiCreated
  BY <1>4 DEF ApiCreated, Dhcp!Next
<1>5. QED
  BY <1>1, <1>2, <1>3, <1>4
     DEF Next, vars, CliSend, CliReceive, CoreListen, Core, CoreForward, CoreReply,
         CoreReplyFails, DhcpListen, ApiThread, ApiList, ApiUnknown

LEMMA ServerIInv == IInv /\ [Next]_vars => Server!IInv'
BY ServerStep, SameNext, ServerAssumptions, Server!NextIInv DEF IInv

(* A true answer stays true, since pools are never removed.                *)
LEMMA TruthKept ==
  ASSUME IInv, [Next]_vars, NEW c \in Message, NEW a \in Reply, Truthful(c, a)
  PROVE  Truthful(c, a)'
<1>1. \A i \in DOMAIN pools : /\ i \in DOMAIN pools'
                              /\ pools'[i].start = pools[i].start
                              /\ pools'[i].end = pools[i].end
  BY ServerStep, SameNext, ServerAssumptions, Server!PoolsStay DEF IInv
<1>2. QED
  BY <1>1 DEF Truthful, Dhcp!Intersects

LEMMA AnswerKept ==
  ASSUME IInv, [Next]_vars, shown' = shown
  PROVE  AnswerTruthful'
<1> SUFFICES ASSUME shown # <<>>
             PROVE  Truthful(shown[1].request, shown[1].answer)'
  BY DEF AnswerTruthful
<1>1. PICK s \in [request : Message, answer : Reply] : shown = <<s>>
  BY DEF IInv, CliOK
<1>2. s.request \in Message /\ s.answer \in Reply /\ shown[1] = s /\ shown'[1] = s
  BY <1>1
<1>3. Truthful(s.request, s.answer)
  BY <1>1, <1>2 DEF IInv, AnswerTruthful
<1>4. Truthful(s.request, s.answer)'
  BY <1>2, <1>3, TruthKept
<1>5. QED
  BY <1>2, <1>4

(* A reply that stays where it is, while its command is waited for.        *)
LEMMA RepliesKept ==
  ASSUME IInv, [Next]_vars, command' = command
  PROVE  /\ dhcp_core' = dhcp_core => ReplyHere(dhcp_core)'
         /\ core_cli' = core_cli => ReplyHere(core_cli)'
<1>1. CASE dhcp_core = <<>> /\ core_cli = <<>>
  BY <1>1 DEF ReplyHere
<1>2. CASE dhcp_core # <<>> \/ core_cli # <<>>
  <2>1. PICK c \in Message : command = <<c>>
    BY <1>2 DEF IInv, CliOK, Alone
  <2>2. command[1] = c /\ command'[1] = c
    BY <2>1
  <2>3. \A a \in Reply : Truthful(command[1], a) => Truthful(command[1], a)'
    <3>1. ASSUME NEW a \in Reply, Truthful(c, a) PROVE Truthful(c, a)'
      BY <3>1, TruthKept
    <3>2. QED
      BY <2>2, <3>1
  <2>4. QED
    BY <2>3 DEF IInv, Channels, ReplyHere
<1>3. QED
  BY <1>1, <1>2

-----------------------------------------------------------------------------
(* The steps *)

LEMMA InitIInv == Init => IInv
<1> SUFFICES ASSUME Init PROVE IInv
  OBVIOUS
<1>1. Server!IInv
  BY SameInit, ServerAssumptions, Server!InitIInv DEF Init
<1>2. CliOK /\ Channels /\ Building /\ Alone /\ AnswerTruthful
  BY DEF Init, Dhcp!Init, CliOK, Channels, RequestHere, ReplyHere, Building, Alone,
         AnswerTruthful
<1>3. QED
  BY <1>1, <1>2 DEF IInv

(* All of IInv but the server's part, which ServerIInv takes care of.      *)
Path == CliOK /\ Channels /\ Building /\ Alone /\ AnswerTruthful

LEMMA CliSendPath ==
  ASSUME IInv, [Next]_vars, NEW c \in Commands, CliSend(c)
  PROVE  Path'
<1>1. /\ command = <<>> /\ command' = <<c>> /\ cli_core' = Append(cli_core, c)
      /\ UNCHANGED <<dhcpVars, shown, waiting, core_cli, core_dhcp, dhcp_core,
                     core_queue, dhcp_queue>>
  BY DEF CliSend
<1>2. /\ cli_core = <<>> /\ core_queue = <<>> /\ core_dhcp = <<>> /\ dhcp_queue = <<>>
      /\ api = <<>> /\ dhcp_core = <<>> /\ core_cli = <<>>
  BY <1>1 DEF IInv, Alone
<1>3. cli_core' = <<c>> /\ command'[1] = c /\ c \in Message /\ api' = api
  BY <1>1, <1>2, CommandsAssumption DEF dhcpVars
<1>4. CliOK' /\ Channels' /\ Building' /\ Alone'
  BY <1>1, <1>2, <1>3 DEF IInv, CliOK, Channels, RequestHere, ReplyHere, Building, Alone
<1>5. QED
  BY <1>1, <1>4, AnswerKept DEF Path

LEMMA CliReceivePath ==
  ASSUME IInv, [Next]_vars, CliReceive
  PROVE  Path'
<1>1. /\ command # <<>> /\ core_cli # <<>> /\ command' = <<>>
      /\ shown' = <<[request |-> command[1], answer |-> Head(core_cli)]>>
      /\ core_cli' = Tail(core_cli)
      /\ UNCHANGED <<dhcpVars, waiting, cli_core, core_dhcp, dhcp_core,
                     core_queue, dhcp_queue>>
  BY DEF CliReceive
<1>2. PICK c \in Message : command = <<c>>
  BY <1>1 DEF IInv, CliOK
<1>3. command[1] = c
  BY <1>2
<1>4. PICK a \in Reply : core_cli = <<a>> /\ Truthful(c, a)
  BY <1>1, <1>3 DEF IInv, Channels, ReplyHere
<1>5. /\ cli_core = <<>> /\ core_queue = <<>> /\ core_dhcp = <<>> /\ dhcp_queue = <<>>
      /\ api = <<>> /\ dhcp_core = <<>> /\ core_cli' = <<>>
  BY <1>1, <1>4 DEF IInv, Alone
<1> DEFINE s == [request |-> c, answer |-> a]
<1>6. shown' = <<s>> /\ s \in [request : Message, answer : Reply]
  BY <1>1, <1>3, <1>4
<1>7. CliOK' /\ Channels' /\ Building' /\ Alone'
  BY <1>1, <1>5, <1>6
     DEF IInv, CliOK, Channels, RequestHere, ReplyHere, Building, Alone, dhcpVars
<1>8. AnswerTruthful'
  <2>1. Truthful(c, a)'
    BY <1>4, TruthKept
  <2>2. shown'[1].request = c /\ shown'[1].answer = a
    BY <1>6
  <2>3. QED
    BY <2>1, <2>2 DEF AnswerTruthful
<1>9. QED
  BY <1>7, <1>8 DEF Path

(* A request moves on.                                                     *)
LEMMA RequestMovesPath ==
  ASSUME IInv, [Next]_vars, CoreListen \/ CoreForward \/ DhcpListen
  PROVE  Path'
<1>1. /\ UNCHANGED <<dhcpVars, cliVars, core_cli, dhcp_core>>
      /\ waiting' \in BOOLEAN
  BY DEF CoreListen, CoreForward, DhcpListen, IInv, CliOK
<1>2. command # <<>>
  BY DEF CoreListen, CoreForward, DhcpListen, IInv, Alone
<1>3. PICK c \in Message : command = <<c>>
  BY <1>2 DEF IInv, CliOK
<1>4. command[1] = c /\ command' = command /\ shown' = shown /\ api' = api
  BY <1>1, <1>3 DEF cliVars, dhcpVars
<1>5. \/ /\ cli_core = <<c>> /\ cli_core' = <<>> /\ core_queue' = <<c>>
         /\ UNCHANGED <<core_dhcp, dhcp_queue>>
      \/ /\ core_queue = <<c>> /\ core_queue' = <<>> /\ core_dhcp' = <<c>>
         /\ UNCHANGED <<cli_core, dhcp_queue>>
      \/ /\ core_dhcp = <<c>> /\ core_dhcp' = <<>> /\ dhcp_queue' = <<c>>
         /\ UNCHANGED <<cli_core, core_queue>>
  <2>1. CASE CoreListen
    BY <1>4, <2>1 DEF CoreListen, IInv, Channels, RequestHere, Alone
  <2>2. CASE CoreForward
    BY <1>4, <2>2 DEF CoreForward, IInv, Channels, RequestHere, Alone
  <2>3. CASE DhcpListen
    BY <1>4, <2>3 DEF DhcpListen, IInv, Channels, RequestHere, Alone
  <2>4. QED
    BY <2>1, <2>2, <2>3
<1>6. CliOK' /\ Channels' /\ Building' /\ Alone'
  BY <1>1, <1>3, <1>4, <1>5, RepliesKept
     DEF IInv, CliOK, Channels, RequestHere, Building, Alone
<1>7. QED
  BY <1>4, <1>6, AnswerKept DEF Path

LEMMA CoreReplyPath ==
  ASSUME IInv, [Next]_vars, CoreReply
  PROVE  Path'
<1>1. /\ dhcp_core # <<>> /\ core_cli' = Append(core_cli, Head(dhcp_core))
      /\ dhcp_core' = Tail(dhcp_core) /\ waiting' = FALSE
      /\ UNCHANGED <<dhcpVars, cliVars, cli_core, core_dhcp, core_queue, dhcp_queue>>
  BY DEF CoreReply
<1>2. PICK c \in Message : command = <<c>>
  BY <1>1 DEF IInv, CliOK, Alone
<1>3. /\ command[1] = c /\ command' = command /\ command'[1] = c
      /\ shown' = shown /\ api' = api
  BY <1>1, <1>2 DEF cliVars, dhcpVars
<1>4. PICK a \in Reply : dhcp_core = <<a>> /\ Truthful(c, a)
  BY <1>1, <1>3 DEF IInv, Channels, ReplyHere
<1>5. /\ cli_core = <<>> /\ core_queue = <<>> /\ core_dhcp = <<>> /\ dhcp_queue = <<>>
      /\ api = <<>> /\ core_cli = <<>>
  BY <1>1 DEF IInv, Alone
<1>6. core_cli' = <<a>> /\ dhcp_core' = <<>>
  BY <1>1, <1>4, <1>5
<1>7. Truthful(c, a)'
  BY <1>4, TruthKept
<1>8. ReplyHere(core_cli)' /\ ReplyHere(dhcp_core)'
  BY <1>3, <1>6, <1>7 DEF ReplyHere
<1>9. CliOK' /\ Channels' /\ Building' /\ Alone'
  BY <1>1, <1>3, <1>5, <1>6, <1>8
     DEF IInv, CliOK, Channels, RequestHere, Building, Alone
<1>10. QED
  BY <1>3, <1>9, AnswerKept DEF Path

(* A step that leaves every message where it is.                           *)
LEMMA NothingMovesPath ==
  ASSUME IInv, [Next]_vars,
         waiting' \in BOOLEAN,
         UNCHANGED <<api, cliVars, cli_core, core_cli, core_dhcp, dhcp_core,
                     core_queue, dhcp_queue>>
  PROVE  Path'
<1>1. command' = command /\ shown' = shown
  BY DEF cliVars
<1>2. CliOK' /\ Channels' /\ Building' /\ Alone'
  BY <1>1, RepliesKept DEF IInv, CliOK, Channels, RequestHere, Building, Alone
<1>3. QED
  BY <1>1, <1>2, AnswerKept DEF Path

(* The API thread takes c.                                                 *)
LEMMA Taken ==
  ASSUME IInv, NEW cmd, ApiTake(cmd)
  PROVE  \E c \in Message :
           /\ c.cmd = cmd /\ command = <<c>> /\ command' = command /\ shown' = shown
           /\ Head(dhcp_queue) = c /\ dhcp_queue' = <<>>
           /\ cli_core = <<>> /\ core_queue = <<>> /\ core_dhcp = <<>>
           /\ api = <<>> /\ dhcp_core = <<>> /\ core_cli = <<>>
<1>1. dhcp_queue # <<>> /\ command' = command /\ shown' = shown
  BY DEF ApiTake, cliVars
<1>2. PICK c \in Message : command = <<c>>
  BY <1>1 DEF IInv, CliOK, Alone
<1>3. dhcp_queue = <<c>>
  BY <1>1, <1>2 DEF IInv, Channels, RequestHere
<1>4. Head(dhcp_queue) = c /\ dhcp_queue' = <<>> /\ c.cmd = cmd
  BY <1>3 DEF ApiTake
<1>5. /\ cli_core = <<>> /\ core_queue = <<>> /\ core_dhcp = <<>>
      /\ api = <<>> /\ dhcp_core = <<>> /\ core_cli = <<>>
  BY <1>1 DEF IInv, Alone
<1>6. QED
  BY <1>1, <1>2, <1>4, <1>5

LEMMA ApiCreatePath ==
  ASSUME IInv, [Next]_vars, ApiCreate
  PROVE  Path'
<1>1. ApiTake("dhcp.pool.create")
  BY DEF ApiCreate
<1>2. PICK c \in Message :
        /\ c.cmd = "dhcp.pool.create"
        /\ command = <<c>> /\ command' = command /\ shown' = shown
        /\ Head(dhcp_queue) = c /\ dhcp_queue' = <<>>
        /\ cli_core = <<>> /\ core_queue = <<>> /\ core_dhcp = <<>>
        /\ api = <<>> /\ dhcp_core = <<>> /\ core_cli = <<>>
  BY <1>1, Taken
<1>3. api' = <<c.range>> /\ command'[1] = c
  BY <1>2 DEF ApiCreate, Dhcp!CreatePool
<1>4. UNCHANGED <<waiting, cli_core, core_cli, core_dhcp, core_queue, dhcp_core>>
  BY <1>1 DEF ApiCreate, ApiTake
<1>5. CliOK' /\ Channels' /\ Building' /\ Alone'
  BY <1>2, <1>3, <1>4
     DEF IInv, CliOK, Channels, RequestHere, ReplyHere, Building, Alone
<1>6. QED
  BY <1>2, <1>5, AnswerKept DEF Path

(* The reply to a create is true: it says whether the pool was added, and  *)
(* a pool is refused only because of another one.                          *)
LEMMA CreatedTruthful ==
  ASSUME IInv, NEW c \in Message, c.cmd = "dhcp.pool.create", api = <<c.range>>,
         Dhcp!add_address_pool,
         NEW r \in Reply, r = [cmd |-> "dhcp.pool.create", status |-> pools' # pools]
  PROVE  Truthful(c, r)'
<1> DEFINE q == Dhcp!EmptyPool(c.range[1], c.range[2], c.range[1] .. c.range[2])
           Meets(i) == Dhcp!Intersects(pools[i], c.range[1], c.range[2])
<1>0. api[1] = c.range
  OBVIOUS
<1>1. pools' = IF \E i \in DOMAIN pools : Meets(i) THEN pools ELSE Append(pools, q)
  BY <1>0 DEF Dhcp!add_address_pool
<1>2. q.start = c.range[1] /\ q.end = c.range[2]
  BY DEF Dhcp!EmptyPool
<1>3. pools \in Seq(Server!Pool)
  BY DEF IInv, Server!IInv, Server!TypeOK
<1>4. PICK S : pools \in Seq(S) /\ q \in S
  <2>1. pools \in Seq(Server!Pool \cup {q})
    BY <1>3
  <2>2. QED
    BY <2>1
<1> HIDE DEF q
<1>5. CASE \E i \in DOMAIN pools : Meets(i)
  <2>1. pools' = pools /\ r.status = FALSE
    BY <1>1, <1>5
  <2>2. QED
    BY <1>5, <2>1 DEF Truthful, Dhcp!Intersects
<1>6. CASE ~ \E i \in DOMAIN pools : Meets(i)
  <2>1. pools' = Append(pools, q)
    BY <1>1, <1>6
  <2>2. /\ Len(pools') = Len(pools) + 1 /\ pools'[Len(pools) + 1] = q
        /\ Len(pools) \in Nat /\ Len(pools) + 1 \in DOMAIN pools'
    BY <1>4, <2>1, AppendProperties
  <2>3. pools' # pools
    BY <2>2
  <2>4. r.status = TRUE
    BY <2>3
  <2>5. QED
    BY <1>2, <2>2, <2>4 DEF Truthful
<1>7. QED
  BY <1>5, <1>6

LEMMA ApiCreatedPath ==
  ASSUME IInv, [Next]_vars, ApiCreated
  PROVE  Path'
<1>0. PICK r \in Reply : r = [cmd |-> "dhcp.pool.create", status |-> pools' # pools]
  <2>1. (pools' # pools) \in BOOLEAN
    BY Zenon
  <2>2. \A b \in BOOLEAN : [cmd |-> "dhcp.pool.create", status |-> b] \in Reply
    BY DEF Reply
  <2>3. QED
    BY <2>1, <2>2, Zenon
<1>1. /\ Dhcp!add_address_pool /\ api # <<>> /\ api' = <<>>
      /\ dhcp_core' = Append(dhcp_core, r)
      /\ UNCHANGED <<cliVars, waiting, cli_core, core_cli, core_dhcp, core_queue,
                     dhcp_queue>>
  BY <1>0 DEF ApiCreated, Dhcp!add_address_pool
<1>2. PICK c \in Message : command = <<c>>
  BY <1>1 DEF IInv, CliOK, Alone
<1>3. command[1] = c /\ command' = command /\ command'[1] = c /\ shown' = shown
  BY <1>1, <1>2 DEF cliVars
<1>4. c.cmd = "dhcp.pool.create" /\ api = <<c.range>>
  BY <1>1, <1>3 DEF IInv, Building
<1>5. /\ cli_core = <<>> /\ core_queue = <<>> /\ core_dhcp = <<>> /\ dhcp_queue = <<>>
      /\ dhcp_core = <<>> /\ core_cli = <<>>
  BY <1>1 DEF IInv, Alone
<1>6. Truthful(c, r)'
  BY <1>0, <1>1, <1>4, CreatedTruthful
<1>7. dhcp_core' = <<r>>
  BY <1>1, <1>5
<1>8. ReplyHere(dhcp_core)'
  BY <1>3, <1>6, <1>7 DEF ReplyHere
<1>9. CliOK' /\ Channels' /\ Building' /\ Alone'
  BY <1>1, <1>3, <1>5, <1>7, <1>8
     DEF IInv, CliOK, Channels, RequestHere, ReplyHere, Building, Alone
<1>10. QED
  BY <1>3, <1>9, AnswerKept DEF Path

LEMMA ApiListPath ==
  ASSUME IInv, [Next]_vars, ApiList
  PROVE  Path'
<1> DEFINE r == [cmd |-> "dhcp.pool.list", status |-> FALSE]
<1>1. ApiTake("dhcp.pool.list")
  BY DEF ApiList
<1>2. PICK c \in Message :
        /\ c.cmd = "dhcp.pool.list"
        /\ command = <<c>> /\ command' = command /\ shown' = shown
        /\ Head(dhcp_queue) = c /\ dhcp_queue' = <<>>
        /\ cli_core = <<>> /\ core_queue = <<>> /\ core_dhcp = <<>>
        /\ api = <<>> /\ dhcp_core = <<>> /\ core_cli = <<>>
  BY <1>1, Taken
<1>3. r \in Reply /\ r.cmd = c.cmd
  BY <1>2 DEF Reply
<1>4. Truthful(c, r)'
  BY <1>2, <1>3 DEF Truthful
<1>5. /\ dhcp_core' = <<r>> /\ command'[1] = c
      /\ UNCHANGED <<api, waiting, cli_core, core_cli, core_dhcp, core_queue>>
  BY <1>1, <1>2 DEF ApiList, ApiTake, dhcpVars
<1> HIDE DEF r
<1>6. ReplyHere(dhcp_core)'
  BY <1>3, <1>4, <1>5 DEF ReplyHere
<1>7. CliOK' /\ Channels' /\ Building' /\ Alone'
  BY <1>2, <1>5, <1>6
     DEF IInv, CliOK, Channels, RequestHere, ReplyHere, Building, Alone
<1>8. QED
  BY <1>2, <1>7, AnswerKept DEF Path

LEMMA ApiUnknownPath ==
  ASSUME IInv, [Next]_vars, ApiUnknown
  PROVE  Path'
<1>1. ApiTake("ip.address")
  BY DEF ApiUnknown
<1>2. PICK c \in Message :
        /\ c.cmd = "ip.address"
        /\ command = <<c>> /\ command' = command /\ shown' = shown
        /\ Head(dhcp_queue) = c /\ dhcp_queue' = <<>>
        /\ cli_core = <<>> /\ core_queue = <<>> /\ core_dhcp = <<>>
        /\ api = <<>> /\ dhcp_core = <<>> /\ core_cli = <<>>
  BY <1>1, Taken
<1>3. UNCHANGED <<api, waiting, cli_core, core_cli, core_dhcp, core_queue, dhcp_core>>
  BY <1>1 DEF ApiUnknown, ApiTake, dhcpVars
<1>4. CliOK' /\ Channels' /\ Building' /\ Alone'
  BY <1>2, <1>3
     DEF IInv, CliOK, Channels, RequestHere, ReplyHere, Building, Alone
<1>5. QED
  BY <1>2, <1>4, AnswerKept DEF Path

(* What the other threads of the dhcp process do to the pool being built.  *)
LEMMA ServingKeepsApi == Dhcp!Udp \/ Dhcp!MainLoop => api' = api
BY DEF Dhcp!Udp, Dhcp!Receive, Dhcp!MainLoop, Dhcp!have_free_address,
       Dhcp!is_input_queue_blank, Dhcp!get_next_datagram, Dhcp!Handle,
       Dhcp!UnknownInterface, Dhcp!ParseThrows, Dhcp!Ignore, Dhcp!Discover,
       Dhcp!DiscoverThrows, Dhcp!Request, Dhcp!broadcast_send_to, Dhcp!SendThrows,
       Dhcp!Terminate

LEMMA NextIInv == IInv /\ [Next]_vars => IInv'
<1> SUFFICES ASSUME IInv, [Next]_vars PROVE Path'
  BY ServerIInv DEF Path, IInv
<1>1. ASSUME NEW c \in Commands, CliSend(c) PROVE Path'
  BY <1>1, CliSendPath
<1>2. CASE CliReceive
  BY <1>2, CliReceivePath
<1>3. CASE CoreListen \/ CoreForward \/ DhcpListen
  BY <1>3, RequestMovesPath
<1>4. CASE CoreReply
  BY <1>4, CoreReplyPath
<1>5. CASE CoreReplyFails
  <2>1. /\ waiting' = FALSE
        /\ UNCHANGED <<dhcpVars, cliVars, cli_core, core_cli, core_dhcp, dhcp_core,
                       core_queue, dhcp_queue>>
    BY <1>5 DEF CoreReplyFails
  <2>2. QED
    BY <2>1, NothingMovesPath DEF dhcpVars
<1>6. CASE ApiThread
  BY <1>6, ApiCreatePath, ApiCreatedPath, ApiListPath, ApiUnknownPath DEF ApiThread
<1>7. CASE DhcpServes
  <2>1. waiting' \in BOOLEAN
    BY <1>7 DEF DhcpServes, IInv, CliOK
  <2>2. QED
    BY <1>7, <2>1, ServingKeepsApi, NothingMovesPath DEF DhcpServes
<1>8. CASE UNCHANGED vars
  <2>1. waiting' \in BOOLEAN
    BY <1>8 DEF vars, IInv, CliOK
  <2>2. QED
    BY <1>8, <2>1, NothingMovesPath DEF vars, dhcpVars
<1>9. QED
  BY <1>1, <1>2, <1>3, <1>4, <1>5, <1>6, <1>7, <1>8 DEF Next, Core

-----------------------------------------------------------------------------
(* The theorems *)

(* The strengthened invariant holds in every state.                        *)
THEOREM Invariance == Spec => []IInv
<1>1. Init => IInv
  BY InitIInv
<1>2. IInv /\ [Next]_vars => IInv'
  BY NextIInv
<1>3. QED
  BY <1>1, <1>2, PTL DEF Spec

LEMMA SingletonSeq == ASSUME NEW S, NEW q, q = <<>> \/ \E e \in S : q = <<e>>
                      PROVE  q \in Seq(S)
<1>1. <<>> \in Seq(S) /\ \A e \in S : <<e>> \in Seq(S)
  OBVIOUS
<1>2. QED
  BY <1>1

(* Every variable of the three processes and of the bytes between them     *)
(* stays within its type.                                                  *)
THEOREM TypeCorrect == Spec => []TypeOK
<1>1. IInv => TypeOK
  <2> SUFFICES ASSUME IInv PROVE TypeOK
    OBVIOUS
  <2>1. Dhcp!TypeOK
    BY DEF IInv, Server!IInv, Server!TypeOK, Dhcp!TypeOK, Server!Datagram, Dhcp!Datagram,
           Server!Reply, Dhcp!Reply, Server!Ip, Dhcp!Ip, Server!Pool, Dhcp!Pool
  <2>2. /\ command \in {<<>>} \cup { <<c>> : c \in Message }
        /\ shown \in {<<>>} \cup { <<s>> : s \in [request : Message, answer : Reply] }
        /\ waiting \in BOOLEAN
    BY DEF IInv, CliOK
  <2>3. \A q : RequestHere(q) /\ (q # <<>> => command # <<>>) => q \in Seq(Message)
    <3> SUFFICES ASSUME NEW q, RequestHere(q), q # <<>> => command # <<>>
                 PROVE  q = <<>> \/ \E e \in Message : q = <<e>>
      BY SingletonSeq
    <3>1. QED
      BY DEF IInv, CliOK, RequestHere
  <2>4. \A q \in {cli_core, core_dhcp, core_queue, dhcp_queue} : q \in Seq(Message)
    BY <2>3 DEF IInv, Channels, Alone
  <2>5. \A q : ReplyHere(q) => q \in Seq(Reply)
    <3> SUFFICES ASSUME NEW q, ReplyHere(q)
                 PROVE  q = <<>> \/ \E e \in Reply : q = <<e>>
      BY SingletonSeq
    <3>1. QED
      BY DEF ReplyHere
  <2>6. \A q \in {core_cli, dhcp_core} : q \in Seq(Reply)
    BY <2>5 DEF IInv, Channels
  <2>7. QED
    BY <2>1, <2>2, <2>4, <2>6 DEF TypeOK
<1>2. QED
  BY <1>1, Invariance, PTL

(* One request or reply is under way between the three processes, and none *)
(* unless the CLI waits for it: recv never returns two messages at once.   *)
THEOREM OneMessage == Spec => []OneUnderWay
<1>1. IInv => OneUnderWay
  <2> SUFFICES ASSUME IInv PROVE OneUnderWay
    OBVIOUS
  <2> DEFINE Short(q) == (q = <<>> /\ Len(q) = 0) \/ (q # <<>> /\ Len(q) = 1)
  <2>1. Short(command)
    BY DEF IInv, CliOK
  <2>2. Short(cli_core) /\ Short(core_queue) /\ Short(core_dhcp) /\ Short(dhcp_queue)
    BY DEF IInv, Channels, RequestHere
  <2>3. Short(dhcp_core) /\ Short(core_cli)
    BY DEF IInv, Channels, ReplyHere
  <2>4. Short(api)
    BY DEF IInv, Building
  <2>5. QED
    BY <2>1, <2>2, <2>3, <2>4 DEF IInv, Alone, OneUnderWay
<1>2. QED
  BY <1>1, Invariance, PTL

(* What the CLI printed last is true of the server, and stays true         *)
(* whatever the server does afterwards.                                    *)
THEOREM TruthfulAnswers == Spec => []AnswerTruthful
<1>1. IInv => AnswerTruthful
  BY DEF IInv
<1>2. QED
  BY <1>1, Invariance, PTL

-----------------------------------------------------------------------------
(* The refinement *)

(* What PoolService.tla makes of the state, under names of its own.        *)
Pending == \/ cli_core # <<>> \/ core_queue # <<>> \/ core_dhcp # <<>>
           \/ dhcp_queue # <<>> \/ api # <<>>

Outcome == dhcp_core \o core_cli

Ranges == { <<pools[i].start, pools[i].end>> : i \in DOMAIN pools }

(* Nothing the service shows changes.                                      *)
Silent == UNCHANGED <<command, Pending, Outcome, shown, Ranges>>

LEMMA SilentStep == Silent => UNCHANGED Service!vars
BY DEF Silent, Service!vars, Pending, Outcome, Ranges

LEMMA AppendNonEmpty ==
  ASSUME NEW S, NEW q \in Seq(S), NEW e
  PROVE  Append(q, e) # <<>>
<1>1. q \in Seq(S \cup {e}) /\ e \in S \cup {e}
  OBVIOUS
<1>2. Len(Append(q, e)) = Len(q) + 1 /\ Len(q) \in Nat
  BY <1>1, AppendProperties, LenProperties
<1>3. QED
  BY <1>2, EmptySeq

(* The pools keep their ranges while main_loop and the UDP thread run.     *)
LEMMA ServingKeepsRanges ==
  ASSUME IInv, [Next]_vars, Dhcp!Udp \/ Dhcp!MainLoop
  PROVE  Ranges' = Ranges
<1>1. DOMAIN pools' = DOMAIN pools
  BY DEF Dhcp!Udp, Dhcp!Receive, Dhcp!MainLoop, Dhcp!have_free_address,
         Dhcp!is_input_queue_blank, Dhcp!get_next_datagram, Dhcp!Handle,
         Dhcp!UnknownInterface, Dhcp!ParseThrows, Dhcp!Ignore, Dhcp!Discover,
         Dhcp!DiscoverThrows, Dhcp!Request, Dhcp!broadcast_send_to, Dhcp!SendThrows,
         Dhcp!Terminate
<1>2. \A i \in DOMAIN pools : /\ pools'[i].start = pools[i].start
                              /\ pools'[i].end = pools[i].end
  BY ServerStep, SameNext, ServerAssumptions, Server!PoolsStay DEF IInv
<1>3. QED
  BY <1>1, <1>2 DEF Ranges

LEMMA IssueStep ==
  ASSUME IInv, NEW c \in Commands, CliSend(c)
  PROVE  Service!Issue(c)
<1>1. /\ command = <<>> /\ command' = <<c>> /\ cli_core' = Append(cli_core, c)
      /\ shown' = shown /\ pools' = pools /\ core_cli' = core_cli /\ dhcp_core' = dhcp_core
  BY DEF CliSend, dhcpVars
<1>2. cli_core = <<>>
  BY <1>1 DEF IInv, Alone
<1>3. cli_core' # <<>>
  BY <1>1, <1>2
<1>4. QED
  BY <1>1, <1>3 DEF Service!Issue

LEMMA AnswerStep ==
  ASSUME IInv, CliReceive
  PROVE  Service!Answer
<1>1. /\ command # <<>> /\ core_cli # <<>> /\ command' = <<>>
      /\ shown' = <<[request |-> command[1], answer |-> Head(core_cli)]>>
      /\ core_cli' = Tail(core_cli)
      /\ UNCHANGED <<pools, api, cli_core, core_dhcp, dhcp_core, core_queue, dhcp_queue>>
  BY DEF CliReceive, dhcpVars
<1>2. PICK a \in Reply : core_cli = <<a>>
  BY <1>1 DEF IInv, Channels, ReplyHere
<1>3. dhcp_core = <<>> /\ core_cli' = <<>> /\ Head(core_cli) = a
  BY <1>1, <1>2 DEF IInv, Alone
<1>4. dhcp_core \o core_cli = <<a>> /\ (dhcp_core \o core_cli)' = <<>>
  BY <1>1, <1>2, <1>3
<1>5. QED
  BY <1>1, <1>3, <1>4 DEF Service!Answer

(* A message moves on, nothing else: the service does not notice.          *)
LEMMA MoveStep ==
  ASSUME IInv, [Next]_vars,
         \/ CoreListen \/ CoreForward \/ DhcpListen \/ CoreReply
         \/ CoreReplyFails \/ ApiCreate \/ DhcpServes \/ UNCHANGED vars
  PROVE  Silent
<1>1. CASE CoreListen \/ CoreForward \/ DhcpListen
  <2>1. /\ UNCHANGED <<command, shown, pools, core_cli, dhcp_core>>
        /\ Pending /\ command # <<>>
    BY <1>1 DEF CoreListen, CoreForward, DhcpListen, cliVars, dhcpVars, Pending, IInv, Alone
  <2>2. PICK c \in Message : command = <<c>>
    BY <2>1 DEF IInv, CliOK
  <2>3. \A q : RequestHere(q) => q \in Seq(Message)
    <3> SUFFICES ASSUME NEW q, RequestHere(q)
                 PROVE  q = <<>> \/ \E e \in Message : q = <<e>>
      BY SingletonSeq
    <3>1. QED
      BY <2>2 DEF RequestHere
  <2>4. cli_core \in Seq(Message) /\ core_queue \in Seq(Message)
        /\ core_dhcp \in Seq(Message) /\ dhcp_queue \in Seq(Message)
    BY <2>3 DEF IInv, Channels
  <2>5. core_queue' # <<>> \/ core_dhcp' # <<>> \/ dhcp_queue' # <<>>
    <3>1. CASE CoreListen
      BY <2>4, <3>1, AppendNonEmpty DEF CoreListen
    <3>2. CASE CoreForward
      BY <2>4, <3>2, AppendNonEmpty DEF CoreForward
    <3>3. CASE DhcpListen
      BY <2>4, <3>3, AppendNonEmpty DEF DhcpListen
    <3>4. QED
      BY <1>1, <3>1, <3>2, <3>3
  <2>6. Pending'
    BY <2>5 DEF Pending
  <2>7. QED
    BY <2>1, <2>6 DEF Silent, Outcome, Ranges
<1>2. CASE CoreReply
  <2>1. /\ dhcp_core # <<>> /\ core_cli' = Append(core_cli, Head(dhcp_core))
        /\ dhcp_core' = Tail(dhcp_core)
        /\ UNCHANGED <<command, shown, pools, api, cli_core, core_dhcp, core_queue, dhcp_queue>>
    BY <1>2 DEF CoreReply, cliVars, dhcpVars
  <2>2. PICK a \in Reply : dhcp_core = <<a>>
    BY <2>1 DEF IInv, Channels, ReplyHere
  <2>3. core_cli = <<>> /\ core_cli' = <<a>> /\ dhcp_core' = <<>>
    BY <2>1, <2>2 DEF IInv, Alone
  <2>4. Outcome = <<a>> /\ Outcome' = <<a>>
    BY <2>2, <2>3 DEF Outcome
  <2>5. QED
    BY <2>1, <2>4 DEF Silent, Pending, Ranges
<1>3. CASE CoreReplyFails \/ UNCHANGED vars
  BY <1>3 DEF CoreReplyFails, vars, cliVars, dhcpVars, Silent, Pending, Outcome, Ranges
<1>4. CASE ApiCreate
  <2>1. /\ dhcp_queue # <<>> /\ api' # <<>>
        /\ UNCHANGED <<command, shown, pools, core_cli, dhcp_core>>
    BY <1>4 DEF ApiCreate, ApiTake, cliVars, Dhcp!CreatePool
  <2>2. QED
    BY <2>1 DEF Silent, Pending, Outcome, Ranges
<1>5. CASE DhcpServes
  <2>1. /\ Ranges' = Ranges /\ api' = api
        /\ UNCHANGED <<command, shown, cli_core, core_cli, core_dhcp, dhcp_core,
                       core_queue, dhcp_queue>>
    BY <1>5, ServingKeepsRanges, ServingKeepsApi DEF DhcpServes, cliVars
  <2>2. QED
    BY <2>1 DEF Silent, Pending, Outcome
<1>6. QED
  BY <1>1, <1>2, <1>3, <1>4, <1>5

(* The test of add_address_pool is the one of the service.                 *)
LEMMA SameTest ==
  ASSUME IInv, NEW c \in Message
  PROVE  Service!Meets(c.range)
           <=> \E i \in DOMAIN pools : Dhcp!Intersects(pools[i], c.range[1], c.range[2])
<1> DEFINE R(i) == <<pools[i].start, pools[i].end>>
           Hit(r) == Service!Lies(c.range[1], r) \/ Service!Lies(c.range[2], r)
<1>1. \A i : Hit(R(i)) <=> Dhcp!Intersects(pools[i], c.range[1], c.range[2])
  BY DEF Service!Lies, Dhcp!Intersects
<1>2. Service!Meets(c.range) <=> \E r \in { R(i) : i \in DOMAIN pools } : Hit(r)
  BY DEF Service!Meets
<1> HIDE DEF R, Hit
<1>3. QED
  BY <1>1, <1>2

(* add_address_pool is the moment the call is carried out.                 *)
LEMMA CreatedStep ==
  ASSUME IInv, ApiCreated
  PROVE  Service!Create \/ Service!Refuse
<1>1. /\ Dhcp!add_address_pool /\ api # <<>> /\ api' = <<>>
      /\ dhcp_core' = Append(dhcp_core, [cmd |-> "dhcp.pool.create",
                                         status |-> pools' # pools])
      /\ UNCHANGED <<command, shown, cli_core, core_cli, core_dhcp, core_queue, dhcp_queue>>
  BY DEF ApiCreated, Dhcp!add_address_pool, cliVars
<1>2. PICK c \in Message : command = <<c>>
  BY <1>1 DEF IInv, CliOK, Alone
<1>3. command[1] = c /\ command # <<>> /\ c.cmd = "dhcp.pool.create" /\ api[1] = c.range
  BY <1>1, <1>2 DEF IInv, Building
<1>4. c.range \in Ip \X Ip /\ <<c.range[1], c.range[2]>> = c.range
  BY DhcpAssumption DEF Message
<1>5. /\ cli_core = <<>> /\ core_queue = <<>> /\ core_dhcp = <<>> /\ dhcp_queue = <<>>
      /\ dhcp_core = <<>> /\ core_cli = <<>>
  BY <1>1 DEF IInv, Alone
<1> DEFINE q == Dhcp!EmptyPool(c.range[1], c.range[2], c.range[1] .. c.range[2])
<1>6. pools' = IF Service!Meets(c.range) THEN pools ELSE Append(pools, q)
  BY <1>1, <1>3, SameTest DEF Dhcp!add_address_pool
<1>7. q.start = c.range[1] /\ q.end = c.range[2]
  BY DEF Dhcp!EmptyPool
<1>8. PICK S : pools \in Seq(S) /\ q \in S
  <2>1. pools \in Seq(Server!Pool)
    BY DEF IInv, Server!IInv, Server!TypeOK
  <2>2. pools \in Seq(Server!Pool \cup {q})
    BY <2>1
  <2>3. QED
    BY <2>2
<1> HIDE DEF q
<1> DEFINE Status(b) == [cmd |-> c.cmd, status |-> b]
<1>9. \A b : dhcp_core' = <<Status(b)>> => (dhcp_core \o core_cli)' = <<Status(b)>>
  BY <1>1, <1>5
<1>10. CASE Service!Meets(c.range)
  <2>1. pools' = pools
    BY <1>6, <1>10
  <2>2. dhcp_core' = <<Status(FALSE)>>
    <3>1. (pools' # pools) = FALSE
      BY <2>1
    <3>2. dhcp_core' = Append(<<>>, Status(pools' # pools))
      BY <1>1, <1>3, <1>5, Zenon
    <3>3. dhcp_core' = Append(<<>>, Status(FALSE))
      BY <3>1, <3>2, Zenon
    <3>4. QED
      BY <3>3
  <2>3. (dhcp_core \o core_cli)' = <<Status(FALSE)>>
    BY <1>9, <2>2
  <2>4. Service!Perform("dhcp.pool.create")
    BY <1>1, <1>3, <1>5 DEF Service!Perform
  <2>5. QED
    BY <1>3, <1>10, <2>1, <2>3, <2>4 DEF Service!Refuse, Service!Outcome
<1>11. CASE ~Service!Meets(c.range)
  <2>1. pools' = Append(pools, q)
    BY <1>6, <1>11
  <2>2. /\ Len(pools) \in Nat /\ DOMAIN pools = 1 .. Len(pools)
        /\ DOMAIN pools' = 1 .. Len(pools) + 1 /\ pools'[Len(pools) + 1] = q
        /\ \A i \in 1 .. Len(pools) : pools'[i] = pools[i]
    BY <1>8, <2>1, AppendProperties, LenProperties
  <2>3. pools' # pools
    BY <2>2
  <2>4. dhcp_core' = <<Status(TRUE)>>
    <3>1. (pools' # pools) = TRUE
      BY <2>3
    <3>2. dhcp_core' = Append(<<>>, Status(pools' # pools))
      BY <1>1, <1>3, <1>5, Zenon
    <3>3. dhcp_core' = Append(<<>>, Status(TRUE))
      BY <3>1, <3>2, Zenon
    <3>4. QED
      BY <3>3
  <2>5. (dhcp_core \o core_cli)' = <<Status(TRUE)>>
    BY <1>9, <2>4
  <2>6. Ranges' = Ranges \cup {c.range}
    <3>1. \A i \in 1 .. Len(pools) + 1 : i \in 1 .. Len(pools) \/ i = Len(pools) + 1
      BY <2>2
    <3>2. <<pools'[Len(pools) + 1].start, pools'[Len(pools) + 1].end>> = c.range
      BY <1>4, <1>7, <2>2
    <3>3. Len(pools) + 1 \in 1 .. Len(pools) + 1 /\ 1 .. Len(pools) \subseteq 1 .. Len(pools) + 1
      BY <2>2
    <3>4. QED
      BY <2>2, <3>1, <3>2, <3>3 DEF Ranges
  <2>7. Service!Perform("dhcp.pool.create")
    BY <1>1, <1>3, <1>5 DEF Service!Perform
  <2>8. QED
    BY <1>3, <1>11, <2>5, <2>6, <2>7 DEF Service!Create, Service!Outcome, Ranges
<1>12. QED
  BY <1>10, <1>11

LEMMA ListStep ==
  ASSUME IInv, ApiList
  PROVE  Service!List
<1> DEFINE r == [cmd |-> "dhcp.pool.list", status |-> FALSE]
<1>1. ApiTake("dhcp.pool.list")
  BY DEF ApiList
<1>2. PICK c \in Message :
        /\ c.cmd = "dhcp.pool.list"
        /\ command = <<c>> /\ command' = command /\ shown' = shown
        /\ Head(dhcp_queue) = c /\ dhcp_queue' = <<>>
        /\ cli_core = <<>> /\ core_queue = <<>> /\ core_dhcp = <<>>
        /\ api = <<>> /\ dhcp_core = <<>> /\ core_cli = <<>>
  BY <1>1, Taken
<1>3. /\ dhcp_core' = <<r>> /\ command[1] = c /\ command # <<>> /\ dhcp_queue # <<>>
      /\ UNCHANGED <<pools, api, cli_core, core_cli, core_dhcp, core_queue>>
  BY <1>1, <1>2 DEF ApiList, ApiTake, dhcpVars
<1>4. (dhcp_core \o core_cli)' = <<r>>
  BY <1>2, <1>3
<1>5. Service!Perform("dhcp.pool.list")
  BY <1>2, <1>3 DEF Service!Perform
<1>6. QED
  BY <1>2, <1>3, <1>4, <1>5 DEF Service!List, Service!Outcome

LEMMA LoseStep ==
  ASSUME IInv, ApiUnknown
  PROVE  Service!Lose
<1>1. ApiTake("ip.address")
  BY DEF ApiUnknown
<1>2. PICK c \in Message :
        /\ c.cmd = "ip.address"
        /\ command = <<c>> /\ command' = command /\ shown' = shown
        /\ Head(dhcp_queue) = c /\ dhcp_queue' = <<>>
        /\ cli_core = <<>> /\ core_queue = <<>> /\ core_dhcp = <<>>
        /\ api = <<>> /\ dhcp_core = <<>> /\ core_cli = <<>>
  BY <1>1, Taken
<1>3. /\ command[1] = c /\ command # <<>> /\ dhcp_queue # <<>>
      /\ UNCHANGED <<pools, api, cli_core, core_cli, core_dhcp, core_queue, dhcp_core>>
  BY <1>1, <1>2 DEF ApiUnknown, ApiTake, dhcpVars
<1>4. QED
  BY <1>2, <1>3 DEF Service!Lose, Service!Perform

(* The three processes implement PoolService.tla: a command is carried out *)
(* at most once, in one piece, and answered with its own outcome, across   *)
(* both connections, both queues and whatever main_loop does meanwhile.    *)
THEOREM Refinement == Spec => ImplementsPoolService
<1>1. Init => Service!Init
  BY DEF Init, Dhcp!Init, Service!Init
<1>2. IInv /\ [Next]_vars => [Service!Next]_(Service!vars)
  <2> SUFFICES ASSUME IInv, [Next]_vars PROVE [Service!Next]_(Service!vars)
    OBVIOUS
  <2>1. ASSUME NEW c \in Commands, CliSend(c) PROVE Service!Next
    BY <2>1, IssueStep, CommandsAssumption DEF Service!Next
  <2>2. CASE CliReceive
    BY <2>2, AnswerStep DEF Service!Next
  <2>3. CASE ApiCreated
    BY <2>3, CreatedStep DEF Service!Next
  <2>4. CASE ApiList
    BY <2>4, ListStep DEF Service!Next
  <2>5. CASE ApiUnknown
    BY <2>5, LoseStep DEF Service!Next
  <2>6. CASE \/ CoreListen \/ CoreForward \/ DhcpListen \/ CoreReply
             \/ CoreReplyFails \/ ApiCreate \/ DhcpServes \/ UNCHANGED vars
    BY <2>6, MoveStep, SilentStep
  <2>7. QED
    BY <2>1, <2>2, <2>3, <2>4, <2>5, <2>6 DEF Next, Core, ApiThread
<1>3. QED
  BY <1>1, <1>2, Invariance, PTL DEF Spec, ImplementsPoolService, Service!Spec

=============================================================================
