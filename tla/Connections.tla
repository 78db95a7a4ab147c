----------------------------- MODULE Connections -----------------------------
(***************************************************************************)
(* How the three processes find each other and lose each other: the CLI    *)
(* connects to the core and the core to the dhcp process, each by an       *)
(* ApiConnector on one side and an ApiListener on the other                *)
(* (common/src), in the order core/src/main.cpp and                        *)
(* dhcp/src/ApiServer.cpp construct them.  Processes are started in any    *)
(* order, are killed, and are started again.  The kernel's side of a TCP   *)
(* connection is modelled as far as the code sees it.                      *)
(*                                                                         *)
(* A request is told by the incarnation of the process that sent it, and   *)
(* every command is one the dhcp process answers.                          *)
(***************************************************************************)
EXTENDS Naturals, Sequences

CONSTANTS
  MaxStarts,   \* how often a process may be started
  MaxFds       \* the limit on a process's descriptors

ASSUME BoundsAssumption == MaxStarts \in Nat /\ MaxFds \in Nat

Connectors == {"cli", "core"}
Listeners  == {"core", "dhcp"}
Process    == Connectors \cup Listeners

Server == [cli |-> "core", core |-> "dhcp"]

(* listen(server_socket, 1): Linux lets one connection more than that wait. *)
Backlog == 2

VARIABLES
  pc,         \* where a process's main thread is
  gen,        \* how often it has been started
  thread,     \* whether the thread of its ApiListener runs
  backlog,    \* the incarnations whose connections wait to be accepted
  accepted,   \* the one whose connection is _client_socket, 0 before accept
  queue,      \* the requests in its ApiListener's queue, by their incarnation
  conn,       \* its ApiConnector's connection: open, finished or reset by its peer
  fds,        \* the descriptors its ApiConnector has opened
  sent,       \* the incarnations whose request lies unread in their connection
  replied     \* whether a reply lies unread in its connection

vars == <<pc, gen, thread, backlog, accepted, queue, conn, fds, sent, replied>>

listenerVars  == <<thread, backlog, accepted, queue>>
connectorVars == <<conn, fds, sent, replied>>

Init == /\ pc = [p \in Process |-> "down"]
        /\ gen = [p \in Process |-> 0]
        /\ thread = [s \in Listeners |-> FALSE]
        /\ backlog = [s \in Listeners |-> <<>>]
        /\ accepted = [s \in Listeners |-> 0]
        /\ queue = [s \in Listeners |-> <<>>]
        /\ conn = [c \in Connectors |-> "none"]
        /\ fds = [c \in Connectors |-> 0]
        /\ sent = [c \in Connectors |-> {}]
        /\ replied = [c \in Connectors |-> FALSE]

(* The process goes on at l. *)
Goto(p, l) == pc' = [pc EXCEPT ![p] = l]

-----------------------------------------------------------------------------
(* Starting and dying *)

(* The CLI begins with its connector, the others with their listener, whose *)
(* thread is the first member to be initialised.                           *)
Start(p) ==
  /\ pc[p] = "down"
  /\ gen[p] < MaxStarts
  /\ gen' = [gen EXCEPT ![p] = @ + 1]
  /\ Goto(p, IF p \in Listeners THEN "construct" ELSE "connect")
  /\ thread' = [s \in Listeners |-> thread[s] \/ s = p]
  /\ UNCHANGED <<backlog, accepted, queue, connectorVars>>

(* The kernel closes the descriptors of a process that ends.  Its clients  *)
(* see the end of the stream, or a reset if it had not read all they sent. *)
Die(p) ==
  \E how \in {"finished", "reset"} :
    /\ Goto(p, "down")
    /\ thread' = [s \in Listeners |-> thread[s] /\ s # p]
    /\ backlog' = [s \in Listeners |-> IF s = p THEN <<>> ELSE backlog[s]]
    /\ accepted' = [s \in Listeners |-> IF s = p THEN 0 ELSE accepted[s]]
    /\ queue' = [s \in Listeners |-> IF s = p THEN <<>> ELSE queue[s]]
    /\ conn' = [c \in Connectors |->
                  IF c = p THEN "none"
                  ELSE IF Server[c] = p /\ conn[c] = "open" THEN how ELSE conn[c]]
    /\ fds' = [c \in Connectors |-> IF c = p THEN 0 ELSE fds[c]]
    /\ sent' = [c \in Connectors |-> IF Server[c] = p THEN {} ELSE sent[c]]
    /\ replied' = [c \in Connectors |->
                     replied[c] /\ c # p /\ ~(Server[c] = p /\ how = "reset")]
    /\ UNCHANGED gen

Kill(p) == pc[p] # "down" /\ Die(p)

-----------------------------------------------------------------------------
(* ApiListener::ApiListener *)

(* The thread reads _stop_flag before it is initialised, and may find true *)
(* there: it leaves for ever.  What recv returns for an uninitialised or   *)
(* closed _client_socket is -1, and the loop goes on.                      *)
SeesGarbage(s) ==
  /\ pc[s] = "construct"
  /\ thread[s]
  /\ thread' = [thread EXCEPT ![s] = FALSE]
  /\ UNCHANGED <<pc, gen, backlog, accepted, queue, connectorVars>>

(* The other members are initialised. *)
Initialize(s) ==
  /\ pc[s] = "construct"
  /\ Goto(s, "listen")
  /\ UNCHANGED <<gen, listenerVars, connectorVars>>

(* socket, bind, listen and accept may fail.  What they throw is caught by *)
(* nobody and ends the process, which Kill stands for.                     *)
_create_socket_and_listen(s) ==
  /\ pc[s] = "listen"
  /\ Goto(s, "accept")
  /\ UNCHANGED <<gen, listenerVars, connectorVars>>

Listening(s) == pc[s] \notin {"down", "construct", "listen"}

(* accept is called once.  Who waits longest is taken, if it lives or not. *)
Accept(s) ==
  /\ pc[s] = "accept"
  /\ backlog[s] # <<>>
  /\ accepted' = [accepted EXCEPT ![s] = Head(backlog[s])]
  /\ backlog' = [backlog EXCEPT ![s] = Tail(@)]
  /\ Goto(s, IF s \in Connectors THEN "connect" ELSE "run")
  /\ UNCHANGED <<gen, thread, queue, connectorVars>>

-----------------------------------------------------------------------------
(* ApiConnector::ApiConnector *)

CanConnect(c) == Listening(Server[c]) /\ Len(backlog[Server[c]]) < Backlog

(* A faulty connector, which waits for nobody. *)
ConnectAnyway(c) ==
  /\ pc[c] = "connect"
  /\ fds[c] < MaxFds
  /\ fds' = [fds EXCEPT ![c] = @ + 1]
  /\ Goto(c, "run")
  /\ conn' = [conn EXCEPT ![c] = "finished"]
  /\ UNCHANGED <<gen, listenerVars, sent, replied>>

(* Without a descriptor left, socket fails, and is called again for ever.  *)
Connect(c) ==
  /\ pc[c] = "connect"
  /\ fds[c] < MaxFds
  /\ CanConnect(c)
  /\ fds' = [fds EXCEPT ![c] = @ + 1]
  /\ backlog' = [backlog EXCEPT ![Server[c]] = Append(@, gen[c])]
  /\ conn' = [conn EXCEPT ![c] = "open"]
  /\ Goto(c, "run")
  /\ UNCHANGED <<gen, thread, accepted, queue, sent, replied>>

(* Nobody listens, or connect has waited for room in the backlog until it  *)
(* timed out: the loop begins anew, and the socket stays open.             *)
ConnectFails(c) ==
  /\ pc[c] = "connect"
  /\ fds[c] < MaxFds
  /\ ~CanConnect(c)
  /\ fds' = [fds EXCEPT ![c] = @ + 1]
  /\ UNCHANGED <<pc, gen, listenerVars, conn, sent, replied>>

-----------------------------------------------------------------------------
(* send_and_whait_reply, by the CLI and by the core *)

Send(c) == /\ sent' = [sent EXCEPT ![c] = @ \cup {gen[c]}]
           /\ Goto(c, "wait")

(* The operator enters a command.  On a connection its peer has left, send *)
(* raises SIGPIPE or recv returns no bytes, which do not parse: nothing    *)
(* catches either.                                                         *)
CliSend ==
  /\ pc["cli"] = "run"
  /\ conn["cli"] = "open"
  /\ Send("cli")
  /\ UNCHANGED <<gen, listenerVars, conn, fds, replied>>

CliSendFails ==
  /\ pc["cli"] = "run"
  /\ conn["cli"] # "open"
  /\ Die("cli")

(* The reply is read.  It may be there although its sender is not. *)
Reads(c) == /\ pc[c] = "wait"
            /\ replied[c]
            /\ Goto(c, "run")

CliReceive ==
  /\ Reads("cli")
  /\ replied' = [replied EXCEPT !["cli"] = FALSE]
  /\ UNCHANGED <<gen, listenerVars, conn, fds, sent>>

RecvFails(c) == pc[c] = "wait" /\ ~replied[c] /\ conn[c] # "open"

CliReceiveFails == RecvFails("cli") /\ Die("cli")

-----------------------------------------------------------------------------
(* The thread of an ApiListener: the bytes of the accepted connection.     *)
(* Those of a client that has ended can still be read.                     *)
Client == [core |-> "cli", dhcp |-> "core"]

(* A faulty thread, which queues what it has without a look at bytes_read. *)
ReceiveUnchecked(s) ==
  /\ thread[s]
  /\ Len(queue[s]) < 2
  /\ sent' = [sent EXCEPT ![Client[s]] = @ \ {accepted[s]}]
  /\ queue' = [queue EXCEPT ![s] = Append(@, accepted[s])]
  /\ UNCHANGED <<pc, gen, thread, backlog, accepted, conn, fds, replied>>

Receive(s) ==
  /\ thread[s]
  /\ accepted[s] \in sent[Client[s]]
  /\ sent' = [sent EXCEPT ![Client[s]] = @ \ {accepted[s]}]
  /\ queue' = [queue EXCEPT ![s] = Append(@, accepted[s])]
  /\ UNCHANGED <<pc, gen, thread, backlog, accepted, conn, fds, replied>>

(* send_reply, to whoever was accepted: nobody reads it if that one ended. *)
SendReply(s, answered) ==
  LET c == Client[s]
  IN  replied' = [answered EXCEPT
                    ![c] = @ \/ (conn[c] = "open" /\ gen[c] = accepted[s])]

-----------------------------------------------------------------------------
(* core/src/main.cpp *)

HasRequest(s) == pc[s] = "run" /\ queue[s] # <<>>

PopRequest(s) == queue' = [queue EXCEPT ![s] = Tail(@)]

(* A faulty core, which leaves the request in the queue. *)
CoreSendKeeps ==
  /\ HasRequest("core")
  /\ conn["core"] = "open"
  /\ Send("core")
  /\ UNCHANGED <<gen, listenerVars, conn, fds, replied>>

CoreSend ==
  /\ HasRequest("core")
  /\ conn["core"] = "open"
  /\ PopRequest("core")
  /\ Send("core")
  /\ UNCHANGED <<gen, thread, backlog, accepted, conn, fds, replied>>

(* The dhcp process has closed the connection.  The first send is answered *)
(* by a reset, and recv returns no bytes: the exception is caught and the  *)
(* request forgotten.                                                      *)
CoreSendFails ==
  /\ HasRequest("core")
  /\ conn["core"] = "finished"
  /\ PopRequest("core")
  /\ conn' = [conn EXCEPT !["core"] = "reset"]
  /\ UNCHANGED <<pc, gen, thread, backlog, accepted, fds, sent, replied>>

(* The send after that raises SIGPIPE. *)
CoreSendKills ==
  /\ HasRequest("core")
  /\ conn["core"] = "reset"
  /\ Die("core")

CoreReceive ==
  /\ Reads("core")
  /\ SendReply("core", [replied EXCEPT !["core"] = FALSE])
  /\ UNCHANGED <<gen, listenerVars, conn, fds, sent>>

(* A faulty core, which gives up waiting while the answer may still come.  *)
CoreReceiveGivesUp ==
  /\ pc["core"] = "wait"
  /\ ~replied["core"]
  /\ Goto("core", "run")
  /\ UNCHANGED <<gen, listenerVars, connectorVars>>

(* The exception is caught, and no reply is sent. *)
CoreReceiveFails ==
  /\ RecvFails("core")
  /\ Goto("core", "run")
  /\ UNCHANGED <<gen, listenerVars, connectorVars>>

(* A faulty API thread, which takes a request and does not answer it. *)
DhcpForgets ==
  /\ HasRequest("dhcp")
  /\ PopRequest("dhcp")
  /\ UNCHANGED <<pc, gen, thread, backlog, accepted, connectorVars>>

(* dhcp/src/ApiServer.cpp: the handlers are in ControlPlane.tla. *)
DhcpReply ==
  /\ HasRequest("dhcp")
  /\ PopRequest("dhcp")
  /\ SendReply("dhcp", replied)
  /\ UNCHANGED <<pc, gen, thread, backlog, accepted, conn, fds, sent>>

-----------------------------------------------------------------------------

Constructor(p) ==
  \/ p \in Listeners /\ (Initialize(p) \/ _create_socket_and_listen(p) \/ Accept(p))
  \/ p \in Connectors /\ (Connect(p) \/ ConnectFails(p))

Cli  == CliReceive \/ CliReceiveFails
Core == CoreSend \/ CoreSendFails \/ CoreSendKills \/ CoreReceive \/ CoreReceiveFails

Next == \/ \E p \in Process : Start(p) \/ Kill(p) \/ Constructor(p)
        \/ \E s \in Listeners : SeesGarbage(s) \/ Receive(s)
        \/ CliSend \/ CliSendFails \/ Cli \/ Core \/ DhcpReply

Spec == Init /\ [][Next]_vars

(* A process that has been started is scheduled.  Nobody has to start,     *)
(* restart or kill one, or to enter a command.                             *)
FairSpec == /\ Spec
            /\ \A p \in Process : WF_vars(Constructor(p))
            /\ \A s \in Listeners : WF_vars(Receive(s))
            /\ WF_vars(Cli) /\ WF_vars(Core) /\ WF_vars(DhcpReply)

-----------------------------------------------------------------------------
(* Properties *)

TypeOK ==
  /\ pc \in [Process -> {"down", "construct", "listen", "accept", "connect", "run", "wait"}]
  /\ gen \in [Process -> 0 .. MaxStarts]
  /\ thread \in [Listeners -> BOOLEAN]
  /\ backlog \in [Listeners -> Seq(1 .. MaxStarts)]
  /\ accepted \in [Listeners -> 0 .. MaxStarts]
  /\ queue \in [Listeners -> Seq(1 .. MaxStarts)]
  /\ conn \in [Connectors -> {"none", "open", "finished", "reset"}]
  /\ fds \in [Connectors -> 0 .. MaxFds]
  /\ sent \in [Connectors -> SUBSET (1 .. MaxStarts)]
  /\ replied \in [Connectors -> BOOLEAN]

(* Messages carry no number that ties a reply to its request: a reply left *)
(* unread would be taken for the answer to the next request, and so on.    *)
(* Whoever does not wait has none to read, whatever processes die between. *)
NoStaleReply == \A c \in Connectors : pc[c] # "wait" => ~replied[c]

(* A request is in one place: unread, in the queue of its listener, or     *)
(* answered and unread.                                                    *)
OnePlace ==
  \A c \in Connectors :
    LET s == Server[c]
    IN  /\ Len(queue[s]) <= 1
        /\ gen[c] \in sent[c] => pc[c] \in {"wait", "down"} /\ ~replied[c]
        /\ conn[c] = "open" /\ queue[s] = <<gen[c]>> => pc[c] = "wait" /\ ~replied[c]

(* The three processes are connected, each with the present incarnation of *)
(* the other, and both listeners read.                                     *)
Connected ==
  /\ \A c \in Connectors : conn[c] = "open" /\ accepted[Server[c]] = gen[c]
  /\ \A s \in Listeners : thread[s]
  /\ pc["core"] \in {"run", "wait"} /\ pc["dhcp"] = "run"

(* While they stay connected, every command is answered, whatever happened *)
(* before.                                                                 *)
ConnectedIsServed == <>[]Connected => []<>(pc["cli"] # "wait")

Exhausted(c) == pc[c] = "connect" /\ fds[c] = MaxFds
Deaf(s)      == pc[s] \notin {"down", "construct"} /\ ~thread[s]

FirstRun == \A p \in Process : gen[p] = 1 /\ pc[p] # "down"

(* Three processes that are started, in whatever order, and live, get      *)
(* connected, but for two causes: a connector has tried too often before   *)
(* its listener was there, or a listener's thread has left.                *)
StartsInAnyOrder ==
  FirstRun ~> \/ Connected
              \/ ~FirstRun
              \/ \E c \in Connectors : Exhausted(c)
              \/ \E s \in Listeners : Deaf(s)

=============================================================================
