----------------------------- MODULE ControlPlane -----------------------------
(***************************************************************************)
(* The path of an operator's command: the CLI (cli/src/command_handlers),  *)
(* the core (core/src/main.cpp) and the API thread of the dhcp process     *)
(* (dhcp/src/ApiServer.cpp), with the two ApiConnector / ApiListener       *)
(* connections of common/src between them, composed with the server of     *)
(* DhcpServer.tla whose pools the commands change.                         *)
(*                                                                         *)
(* The behaviour starts when both connections are established.  A message  *)
(* is shorter than one buffer of either side, so a recv returns it whole;  *)
(* never more than one is under way (OneUnderWay).                         *)
(***************************************************************************)
EXTENDS PoolMethods, Sequences

CONSTANTS
  Xid, Traffic, Requests, MaxQueue, MaxPools,   \* as in DhcpServer.tla
  Commands                                      \* the requests the CLI can send

Message == [ cmd   : {"dhcp.pool.create", "dhcp.pool.list", "ip.address"},
             range : Requests ]           \* ip_start and ip_end of a create

ASSUME CommandsAssumption == Commands \subseteq Message

Reply == [ cmd : {"dhcp.pool.create", "dhcp.pool.list"}, status : BOOLEAN ]

VARIABLES
  pools, queue, xids, pc, packet, reply, api, offers,   \* the dhcp server
  command,      \* the request the CLI waits on in recv, a sequence of at most one
  shown,        \* the last request answered, with the status printed, likewise
  waiting,      \* whether the core is in send_and_whait_reply
  cli_core, core_cli, core_dhcp, dhcp_core,   \* the bytes in each direction
  core_queue,   \* the queue of the core's ApiListener
  dhcp_queue    \* the queue of the dhcp process's ApiListener

Dhcp == INSTANCE DhcpServer

ASSUME DhcpAssumption == Traffic \subseteq Dhcp!Datagram /\ Requests \subseteq Ip \X Ip

dhcpVars == <<pools, queue, xids, pc, packet, reply, api, offers>>
cliVars  == <<command, shown>>
vars == <<dhcpVars, cliVars, waiting, cli_core, core_cli, core_dhcp, dhcp_core,
          core_queue, dhcp_queue>>

Init == /\ Dhcp!Init
        /\ command = <<>> /\ shown = <<>>
        /\ waiting = FALSE
        /\ cli_core = <<>> /\ core_cli = <<>>
        /\ core_dhcp = <<>> /\ dhcp_core = <<>>
        /\ core_queue = <<>> /\ dhcp_queue = <<>>

-----------------------------------------------------------------------------
(* CLI: send_cmd_and_get_reply *)

(* A range is asked for only while there is room for it in the model. *)
CliSend(c) ==
  /\ command = <<>>
  /\ c.cmd = "dhcp.pool.create" => Len(pools) < MaxPools
  /\ command' = <<c>>
  /\ cli_core' = Append(cli_core, c)
  /\ UNCHANGED <<dhcpVars, shown, waiting, core_cli, core_dhcp, dhcp_core,
                 core_queue, dhcp_queue>>

(* Prints OK or ERROR; a reply without a status counts as false. *)
CliReceive ==
  /\ command # <<>>
  /\ core_cli # <<>>
  /\ shown' = <<[request |-> command[1], answer |-> Head(core_cli)]>>
  /\ core_cli' = Tail(core_cli)
  /\ command' = <<>>
  /\ UNCHANGED <<dhcpVars, waiting, cli_core, core_dhcp, dhcp_core,
                 core_queue, dhcp_queue>>

-----------------------------------------------------------------------------
(* Core *)

CoreListen ==
  /\ cli_core # <<>>
  /\ core_queue' = Append(core_queue, Head(cli_core))
  /\ cli_core' = Tail(cli_core)
  /\ UNCHANGED <<dhcpVars, cliVars, waiting, core_cli, core_dhcp, dhcp_core, dhcp_queue>>

(* A faulty loop, which reads the front of the queue and does not pop it. *)
CoreForwardKeeps ==
  /\ ~waiting
  /\ core_queue # <<>>
  /\ core_dhcp' = Append(core_dhcp, Head(core_queue))
  /\ waiting' = TRUE
  /\ UNCHANGED <<dhcpVars, cliVars, cli_core, core_cli, dhcp_core, core_queue, dhcp_queue>>

(* Every request of the CLI has the component dhcp. *)
CoreForward ==
  /\ ~waiting
  /\ core_queue # <<>>
  /\ core_dhcp' = Append(core_dhcp, Head(core_queue))
  /\ core_queue' = Tail(core_queue)
  /\ waiting' = TRUE
  /\ UNCHANGED <<dhcpVars, cliVars, cli_core, core_cli, dhcp_core, dhcp_queue>>

CoreReply ==
  /\ waiting
  /\ dhcp_core # <<>>
  /\ core_cli' = Append(core_cli, Head(dhcp_core))
  /\ dhcp_core' = Tail(dhcp_core)
  /\ waiting' = FALSE
  /\ UNCHANGED <<dhcpVars, cliVars, cli_core, core_dhcp, core_queue, dhcp_queue>>

(* The dhcp process is gone: send or recv fails, or recv returns no bytes, *)
(* which do not parse.  main catches the exception and sends no reply.     *)
CoreReplyFails ==
  /\ waiting
  /\ ~Dhcp!Running
  /\ dhcp_core = <<>>
  /\ waiting' = FALSE
  /\ UNCHANGED <<dhcpVars, cliVars, cli_core, core_cli, core_dhcp, dhcp_core,
                 core_queue, dhcp_queue>>

-----------------------------------------------------------------------------
(* The API thread of the dhcp process, and its listener. *)

DhcpListen ==
  /\ Dhcp!Running
  /\ core_dhcp # <<>>
  /\ dhcp_queue' = Append(dhcp_queue, Head(core_dhcp))
  /\ core_dhcp' = Tail(core_dhcp)
  /\ UNCHANGED <<dhcpVars, cliVars, waiting, cli_core, core_cli, dhcp_core, core_queue>>

(* The thread is between two requests and takes the next, which is a cmd. *)
ApiTake(cmd) ==
  /\ Dhcp!Running
  /\ api = <<>>
  /\ dhcp_queue # <<>>
  /\ Head(dhcp_queue).cmd = cmd
  /\ dhcp_queue' = Tail(dhcp_queue)
  /\ UNCHANGED <<cliVars, waiting, cli_core, core_cli, core_dhcp, core_queue>>

(* The handler parses both addresses.  The CLI has parsed them before and  *)
(* sends them as IPv4Address::to_string writes them, so this cannot throw. *)
ApiCreate ==
  /\ ApiTake("dhcp.pool.create")
  /\ Dhcp!CreatePool(Head(dhcp_queue).range)
  /\ UNCHANGED dhcp_core

(* A faulty handler, which reports a pool that was refused as created. *)
ApiCreatedAlways ==
  /\ Dhcp!add_address_pool
  /\ dhcp_core' = Append(dhcp_core, [cmd |-> "dhcp.pool.create", status |-> TRUE])
  /\ UNCHANGED <<cliVars, waiting, cli_core, core_cli, core_dhcp, core_queue, dhcp_queue>>

(* A faulty handler, which adds the pool whatever pools there are. *)
ApiCreatedUnchecked ==
  /\ Dhcp!Running
  /\ api # <<>>
  /\ api[1][2] # LastIp
  /\ pools' = Append(pools, EmptyPool(api[1][1], api[1][2], api[1][1] .. api[1][2]))
  /\ api' = <<>>
  /\ dhcp_core' = Append(dhcp_core, [cmd |-> "dhcp.pool.create", status |-> TRUE])
  /\ UNCHANGED <<queue, xids, pc, packet, reply, offers, cliVars, waiting, cli_core,
                 core_cli, core_dhcp, core_queue, dhcp_queue>>

ApiCreated ==
  /\ Dhcp!add_address_pool
  /\ dhcp_core' = Append(dhcp_core, [cmd |-> "dhcp.pool.create",
                                     status |-> pools' # pools])
  /\ UNCHANGED <<cliVars, waiting, cli_core, core_cli, core_dhcp, core_queue, dhcp_queue>>

(* A faulty server, which sends the request back in place of the reply. *)
ApiListEchoes ==
  /\ ApiTake("dhcp.pool.list")
  /\ dhcp_core' = Append(dhcp_core, Head(dhcp_queue))
  /\ UNCHANGED dhcpVars

(* A faulty server, which lists the pools without sending the reply. *)
ApiListSilent ==
  /\ ApiTake("dhcp.pool.list")
  /\ UNCHANGED <<dhcpVars, dhcp_core>>

(* dhcp_pool_list puts no status into its reply. *)
ApiList ==
  /\ ApiTake("dhcp.pool.list")
  /\ dhcp_core' = Append(dhcp_core, [cmd |-> "dhcp.pool.list", status |-> FALSE])
  /\ UNCHANGED dhcpVars

(* api_handlers has no entry "ip.address": at() throws, catch (...) prints *)
(* a line, and no reply is sent.                                           *)
ApiUnknown ==
  /\ ApiTake("ip.address")
  /\ UNCHANGED <<dhcpVars, dhcp_core>>

(* The other two threads of the dhcp process. *)
DhcpServes ==
  /\ Dhcp!Udp \/ Dhcp!MainLoop
  /\ UNCHANGED <<cliVars, waiting, cli_core, core_cli, core_dhcp, dhcp_core,
                 core_queue, dhcp_queue>>

-----------------------------------------------------------------------------

Core == CoreForward \/ CoreReply \/ CoreReplyFails

ApiThread == ApiCreate \/ ApiCreated \/ ApiList \/ ApiUnknown

Next == \/ \E c \in Commands : CliSend(c)
        \/ CliReceive
        \/ CoreListen
        \/ Core
        \/ DhcpListen
        \/ ApiThread
        \/ DhcpServes

Spec == Init /\ [][Next]_vars

(* Every thread that can run does; the operator need not type, and nothing *)
(* is assumed of main_loop or of the network.                              *)
FairSpec == /\ Spec
            /\ WF_vars(CliReceive)
            /\ WF_vars(CoreListen)
            /\ WF_vars(Core)
            /\ WF_vars(DhcpListen)
            /\ WF_vars(ApiThread)

-----------------------------------------------------------------------------
(* Properties *)

TypeOK == /\ Dhcp!TypeOK
          /\ command \in {<<>>} \cup { <<c>> : c \in Message }
          /\ shown \in {<<>>} \cup { <<s>> : s \in [request : Message, answer : Reply] }
          /\ waiting \in BOOLEAN
          /\ \A q \in {cli_core, core_dhcp, core_queue, dhcp_queue} : q \in Seq(Message)
          /\ \A q \in {core_cli, dhcp_core} : q \in Seq(Reply)

(* One request or reply is under way between the three processes, and only *)
(* while the CLI waits: no recv can return two messages run together, and  *)
(* no reply can be taken for the answer to another request.                *)
OneUnderWay ==
  Len(cli_core) + Len(core_queue) + Len(core_dhcp) + Len(dhcp_queue)
    + Len(api) + Len(dhcp_core) + Len(core_cli) <= Len(command)

(* An answer is about its request, and tells the truth about the server:   *)
(* OK when a pool over the range is there, ERROR when the server has a     *)
(* pool that the range runs into.                                          *)
Truthful(request, answer) ==
  /\ answer.cmd = request.cmd
  /\ request.cmd = "dhcp.pool.create" =>
       IF answer.status
       THEN \E i \in DOMAIN pools : /\ pools[i].start = request.range[1]
                                    /\ pools[i].end = request.range[2]
       ELSE \E i \in DOMAIN pools :
              Dhcp!Intersects(pools[i], request.range[1], request.range[2])

(* What the CLI printed last is the truth, and stays it while the server   *)
(* goes on: a pool reported as created is never lost again.                *)
AnswerTruthful ==
  shown # <<>> => Truthful(shown[1].request, shown[1].answer)

(* What no reply is ever sent for: a command without a handler, and a pool *)
(* whose constructor does not return.                                      *)
Unanswerable(c) == \/ c.cmd = "ip.address"
                   \/ c.cmd = "dhcp.pool.create" /\ c.range[2] = LastIp

(* The CLI gets its answer, except for a command the server has no handler *)
(* for, a pool that ends with the last address, and a server that died.    *)
AnsweredUnless ==
  command # <<>> ~> \/ command = <<>>
                    \/ Unanswerable(command[1])
                    \/ ~Dhcp!Running

(* The three processes keep the promise of PoolService.tla: a command is   *)
(* carried out by the server at most once, in one piece although main_loop *)
(* and the API thread share the pools, and what the CLI prints is the      *)
(* outcome of that very command, whatever listeners, queues and            *)
(* connections it goes through.  The command is pending until the handler  *)
(* is done with it, and its outcome is the reply on its way back.          *)
Service == INSTANCE PoolService WITH
             Command <- Message,
             call    <- command,
             pending <- \/ cli_core # <<>> \/ core_queue # <<>> \/ core_dhcp # <<>>
                        \/ dhcp_queue # <<>> \/ api # <<>>,
             outcome <- dhcp_core \o core_cli,
             told    <- shown,
             ranges  <- { <<pools[i].start, pools[i].end>> : i \in DOMAIN pools }

ImplementsPoolService == Service!Spec

-----------------------------------------------------------------------------
(* ApiConnector.hpp:14 says of send_and_whait_reply "blocking request and  *)
(* receiving response": the CLI that sends a request receives a response.  *)
CommandAnswered == command # <<>> ~> command = <<>>

=============================================================================
