-------------------------- MODULE ConnectionsProofs -------------------------
(***************************************************************************)
(* No reply of Connections answers another request than the one its        *)
(* reader waits for, and a request is in one place, however often the      *)
(* processes die and are started again.                                    *)
(***************************************************************************)
EXTENDS Connections, SequenceTheorems, TLAPS

(* A process that runs has been started, and whatever is left of a         *)
(* connector is of an incarnation there was.                               *)
Known == 
  /\ \A p \in Process : pc[p] # "down" => gen[p] >= 1
  /\ \A c \in Connectors :
       /\ \A g \in sent[c] : g >= 1 /\ g <= gen[c]
       /\ accepted[Server[c]] <= gen[c]
       /\ \A i \in DOMAIN backlog[Server[c]] : backlog[Server[c]][i] <= gen[c]

(* Before it has connected, an incarnation is unknown to its listener. *)
Unconnected ==
  \A c \in Connectors : pc[c] \notin {"down", "run", "wait"} =>
    /\ accepted[Server[c]] # gen[c]
    /\ \A i \in DOMAIN backlog[Server[c]] : backlog[Server[c]][i] # gen[c]

(* Before accept there is nobody to read from. *)
Unaccepted ==
  \A s \in Listeners : pc[s] \in {"down", "construct", "listen", "accept"} =>
    accepted[s] = 0 /\ queue[s] = <<>>

(* The core waits for the answer to a request it took from its queue. *)
Working(s) == s = "core" /\ pc["core"] = "wait"

(* A listener holds one request at most, of the connection it accepted:    *)
(* while it does, no other lies there unread.                              *)
OneRequest ==
  \A s \in Listeners :
    /\ queue[s] \in {<<>>, <<accepted[s]>>}
    /\ Working(s) \/ accepted[s] \in sent[Client[s]] => queue[s] = <<>>
    /\ accepted[s] \in sent[Client[s]] => ~Working(s)

(* An open connection has an owner, who waits while its request is on the  *)
(* way: unread, or with the listener.                                      *)
OwnerWaits ==
  \A c \in Connectors :
    /\ conn[c] = "open" => pc[c] \in {"run", "wait"}
    /\ gen[c] \in sent[c] =>
         pc[c] = "down" \/ (pc[c] = "wait" /\ conn[c] = "open" /\ ~replied[c])
    /\ /\ conn[c] = "open"
       /\ accepted[Server[c]] = gen[c]
       /\ queue[Server[c]] # <<>> \/ Working(Server[c])
       => pc[c] = "wait" /\ ~replied[c]

(* The steps that neither start nor kill a process. *)
Running == \/ \E s \in Listeners : SeesGarbage(s) \/ Receive(s)
           \/ CliSend \/ CliSendFails \/ Cli \/ Core \/ DhcpReply

IInv == TypeOK /\ Known /\ Unconnected /\ Unaccepted /\ OneRequest /\ OwnerWaits
          /\ NoStaleReply

-----------------------------------------------------------------------------
(* Types *)

USE DEF Process, Connectors, Listeners, Server, Client

(* Nothing runs, and nothing is connected. *)
LEMMA InitTypeOK == Init => TypeOK
BY BoundsAssumption, EmptySeq DEF Init, TypeOK

LEMMA DieTypeOK ==
  ASSUME TypeOK, NEW p \in Process, Die(p)
  PROVE  TypeOK'
<1> PICK how \in {"finished", "reset"} : Die(p)!(how)
  BY DEF Die
<1>1. /\ pc' \in [Process -> {"down", "construct", "listen", "accept", "connect",
                              "run", "wait"}]
      /\ gen' \in [Process -> 0 .. MaxStarts]
  BY DEF TypeOK, Goto
<1>2. /\ thread' \in [Listeners -> BOOLEAN]
      /\ replied' \in [Connectors -> BOOLEAN]
  OBVIOUS
<1>3. /\ backlog' \in [Listeners -> Seq(1 .. MaxStarts)]
      /\ queue' \in [Listeners -> Seq(1 .. MaxStarts)]
  BY EmptySeq DEF TypeOK
<1>4. /\ accepted' \in [Listeners -> 0 .. MaxStarts]
      /\ fds' \in [Connectors -> 0 .. MaxFds]
  BY BoundsAssumption DEF TypeOK
<1>5. conn' \in [Connectors -> {"none", "open", "finished", "reset"}]
  BY DEF TypeOK
<1>6. sent' \in [Connectors -> SUBSET (1 .. MaxStarts)]
  BY DEF TypeOK
<1> QED
  BY <1>1, <1>2, <1>3, <1>4, <1>5, <1>6 DEF TypeOK

(* The start of a process and its constructors. *)
LEMMA StartTypeOK ==
  ASSUME TypeOK, Known, NEW p \in Process, Start(p) \/ Constructor(p)
  PROVE  TypeOK'
<1> USE BoundsAssumption
<1>1. CASE Start(p)
  <2>1. /\ pc' \in [Process -> {"down", "construct", "listen", "accept", "connect",
                                "run", "wait"}]
        /\ thread' \in [Listeners -> BOOLEAN]
    BY <1>1 DEF TypeOK, Start, Goto
  <2>2. gen' \in [Process -> 0 .. MaxStarts]
    BY <1>1, SMTT(30) DEF TypeOK, Start
  <2> QED
    BY <2>1, <2>2, <1>1 DEF TypeOK, Start, connectorVars
<1>2. CASE p \in Listeners /\ Initialize(p)
  BY <1>2 DEF TypeOK, Initialize, Goto, listenerVars, connectorVars
<1>3. CASE p \in Listeners /\ _create_socket_and_listen(p)
  BY <1>3 DEF TypeOK, _create_socket_and_listen, Goto, listenerVars, connectorVars
<1>4. CASE p \in Listeners /\ Accept(p)
  <2>1. Head(backlog[p]) \in 1 .. MaxStarts /\ Tail(backlog[p]) \in Seq(1 .. MaxStarts)
    BY <1>4, HeadTailProperties DEF TypeOK, Accept
  <2> DEFINE h == Head(backlog[p])
  <2>a. h \in 0 .. MaxStarts
    BY <2>1
  <2>2. accepted' \in [Listeners -> 0 .. MaxStarts]
    <3>1. /\ accepted \in [Listeners -> 0 .. MaxStarts]
          /\ accepted' = [accepted EXCEPT ![p] = h]
      BY <1>4 DEF TypeOK, Accept
    <3> HIDE DEF h
    <3> QED
      BY <2>a, <3>1
  <2>3. backlog' \in [Listeners -> Seq(1 .. MaxStarts)]
    <3>1. /\ backlog \in [Listeners -> Seq(1 .. MaxStarts)]
          /\ backlog' = [backlog EXCEPT ![p] = Tail(backlog[p])]
      BY <1>4 DEF TypeOK, Accept
    <3> QED
      BY <2>1, <3>1
  <2> QED
    BY <2>2, <2>3, <1>4 DEF TypeOK, Accept, Goto, connectorVars
<1>5. CASE p \in Connectors /\ Connect(p)
  <2>1. gen[p] \in 1 .. MaxStarts
    BY <1>5 DEF TypeOK, Known, Connect
  <2>2. Append(backlog[Server[p]], gen[p]) \in Seq(1 .. MaxStarts)
    BY <2>1, <1>5, AppendProperties DEF TypeOK
  <2>3. backlog' \in [Listeners -> Seq(1 .. MaxStarts)]
    <3>1. /\ backlog \in [Listeners -> Seq(1 .. MaxStarts)]
          /\ backlog' = [backlog EXCEPT ![Server[p]] = Append(backlog[Server[p]], gen[p])]
      BY <1>5 DEF TypeOK, Connect
    <3> QED
      BY <2>2, <3>1
  <2>4. pc' \in [Process -> {"down", "construct", "listen", "accept", "connect",
                             "run", "wait"}]
    BY <1>5 DEF TypeOK, Connect, Goto
  <2>5. conn' \in [Connectors -> {"none", "open", "finished", "reset"}]
    BY <1>5 DEF TypeOK, Connect
  <2>6. fds' \in [Connectors -> 0 .. MaxFds]
    BY <1>5, SMTT(30) DEF TypeOK, Connect
  <2> QED
    BY <2>3, <2>4, <2>5, <2>6, <1>5 DEF TypeOK, Connect
<1>6. CASE p \in Connectors /\ ConnectFails(p)
  BY <1>6, SMTT(30) DEF TypeOK, ConnectFails, listenerVars
<1> QED
  BY <1>1, <1>2, <1>3, <1>4, <1>5, <1>6 DEF Constructor

(* The threads and the loops. *)
LEMMA RunTypeOK ==
  ASSUME TypeOK, Known, Running
  PROVE  TypeOK'
<1> USE BoundsAssumption
<1>1. ASSUME NEW s \in Listeners, SeesGarbage(s)
      PROVE  TypeOK'
  BY <1>1 DEF TypeOK, SeesGarbage, connectorVars
<1>2. ASSUME NEW s \in Listeners, Receive(s)
      PROVE  TypeOK'
  <2>1. accepted[s] \in 1 .. MaxStarts
    BY <1>2 DEF TypeOK, Receive
  <2>2. Append(queue[s], accepted[s]) \in Seq(1 .. MaxStarts)
    BY <2>1, AppendProperties DEF TypeOK
  <2>3. queue' \in [Listeners -> Seq(1 .. MaxStarts)]
    <3>1. /\ queue \in [Listeners -> Seq(1 .. MaxStarts)]
          /\ queue' = [queue EXCEPT ![s] = Append(queue[s], accepted[s])]
      BY <1>2 DEF TypeOK, Receive
    <3> QED
      BY <2>2, <3>1
  <2>4. sent' \in [Connectors -> SUBSET (1 .. MaxStarts)]
    BY <1>2 DEF TypeOK, Receive
  <2> QED
    BY <2>3, <2>4, <1>2 DEF TypeOK, Receive
<1>3. ASSUME NEW s \in Listeners, HasRequest(s), PopRequest(s)
      PROVE  queue' \in [Listeners -> Seq(1 .. MaxStarts)]
  <2>1. Tail(queue[s]) \in Seq(1 .. MaxStarts)
    BY <1>3, HeadTailProperties DEF TypeOK, HasRequest
  <2>2. /\ queue \in [Listeners -> Seq(1 .. MaxStarts)]
        /\ queue' = [queue EXCEPT ![s] = Tail(queue[s])]
    BY <1>3 DEF TypeOK, PopRequest
  <2> QED
    BY <2>1, <2>2
<1>4. ASSUME NEW c \in Connectors, Send(c), pc[c] = "run"
      PROVE  /\ sent' \in [Connectors -> SUBSET (1 .. MaxStarts)]
             /\ pc' \in [Process -> {"down", "construct", "listen", "accept", "connect",
                                     "run", "wait"}]
  <2>1. gen[c] \in 1 .. MaxStarts
    BY <1>4 DEF TypeOK, Known
  <2>2. sent' \in [Connectors -> SUBSET (1 .. MaxStarts)]
    BY <2>1, <1>4 DEF TypeOK, Send
  <2> QED
    BY <2>2, <1>4 DEF TypeOK, Send, Goto
<1>5. ASSUME NEW s \in Listeners, NEW answered \in [Connectors -> BOOLEAN],
             SendReply(s, answered)
      PROVE  replied' \in [Connectors -> BOOLEAN]
  <2>1. replied' = [answered EXCEPT ![Client[s]] =
                      @ \/ (conn[Client[s]] = "open" /\ gen[Client[s]] = accepted[s])]
    BY <1>5 DEF SendReply
  <2> QED
    BY <2>1
<1>6. CASE CliSend
  BY <1>4, <1>6 DEF TypeOK, CliSend, listenerVars
<1>7. CASE CliSendFails \/ CliReceiveFails \/ CoreSendKills
  BY <1>7, DieTypeOK DEF CliSendFails, CliReceiveFails, CoreSendKills
<1>8. CASE CliReceive
  BY <1>8 DEF TypeOK, CliReceive, Reads, Goto, listenerVars
<1>9. CASE CoreSend
  BY <1>3, <1>4, <1>9 DEF TypeOK, CoreSend, HasRequest
<1>10. CASE CoreSendFails
  BY <1>3, <1>10 DEF TypeOK, CoreSendFails, HasRequest
<1>11. CASE CoreReceive
  <2>1. [replied EXCEPT !["core"] = FALSE] \in [Connectors -> BOOLEAN]
    BY DEF TypeOK
  <2>2. replied' \in [Connectors -> BOOLEAN]
    BY <2>1, <1>5, <1>11 DEF CoreReceive
  <2> QED
    BY <2>2, <1>11 DEF TypeOK, CoreReceive, Reads, Goto, listenerVars
<1>12. CASE CoreReceiveFails
  BY <1>12 DEF TypeOK, CoreReceiveFails, RecvFails, Goto, listenerVars, connectorVars
<1>13. CASE DhcpReply
  <2>1. replied' \in [Connectors -> BOOLEAN]
    BY <1>5, <1>13 DEF DhcpReply, TypeOK
  <2> QED
    BY <2>1, <1>3, <1>13 DEF TypeOK, DhcpReply
<1> QED
  BY <1>1, <1>2, <1>6, <1>7, <1>8, <1>9, <1>10, <1>11, <1>12, <1>13
     DEF Running, Cli, Core

-----------------------------------------------------------------------------
(* The rest of the invariant, action by action *)

(* What pop takes off a queue was all there was. *)
LEMMA Popped ==
  ASSUME IInv, NEW s \in Listeners, HasRequest(s), PopRequest(s)
  PROVE  /\ queue[s] = <<accepted[s]>>
         /\ queue'[s] = <<>>
         /\ \A t \in Listeners : t # s => queue'[t] = queue[t]
<1>1. queue[s] = <<accepted[s]>>
  BY DEF IInv, OneRequest, HasRequest
<1>2. Tail(<<accepted[s]>>) = <<>>
  OBVIOUS
<1>3. queue' = [queue EXCEPT ![s] = Tail(queue[s])] /\ queue \in [Listeners -> Seq(1 .. MaxStarts)]
  BY DEF IInv, TypeOK, PopRequest
<1>4. queue'[s] = Tail(queue[s]) /\ \A t \in Listeners : t # s => queue'[t] = queue[t]
  BY <1>3
<1> QED
  BY <1>1, <1>2, <1>4

(* Members are initialised, a thread leaves, a connect fails. *)
LEMMA Constructing ==
  ASSUME IInv,
         \/ \E s \in Listeners :
              SeesGarbage(s) \/ Initialize(s) \/ _create_socket_and_listen(s)
         \/ \E c \in Connectors : ConnectFails(c)
  PROVE  IInv'
<1>1. TypeOK'
  BY StartTypeOK, RunTypeOK DEF IInv, Constructor, Running
<1> USE DEF IInv, TypeOK, SeesGarbage, Initialize, _create_socket_and_listen,
            ConnectFails, Goto, listenerVars, connectorVars
<1>2. Known'
  BY DEF Known
<1>3. Unconnected'
  BY DEF Unconnected
<1>4. Unaccepted'
  BY DEF Unaccepted
<1>5. OneRequest'
  BY DEF OneRequest, Working
<1>6. OwnerWaits'
  BY SMTT(30) DEF OwnerWaits, Working
<1>7. NoStaleReply'
  BY DEF NoStaleReply
<1> QED
  BY <1>1, <1>2, <1>3, <1>4, <1>5, <1>6, <1>7 DEF IInv

(* What a new incarnation finds left of the old ones does not name it. *)
LEMMA Starting ==
  ASSUME IInv, NEW p \in Process, Start(p)
  PROVE  IInv'
<1>1. TypeOK'
  BY StartTypeOK DEF IInv
<1> USE DEF IInv, TypeOK, Start, Goto, connectorVars
<1>2. Known'
  <2>1. \A q \in Process : gen[q] <= gen'[q]
    OBVIOUS
  <2>2. \A q \in Process : pc'[q] # "down" => gen'[q] >= 1
    BY DEF Known
  <2>3. \A c \in Connectors : \A g \in sent'[c] : g >= 1 /\ g <= gen'[c]
    BY <2>1 DEF Known
  <2>4. \A c \in Connectors : accepted'[Server[c]] <= gen'[c]
    BY <2>1 DEF Known
  <2>5. \A c \in Connectors : \A n \in DOMAIN backlog'[Server[c]] :
          backlog'[Server[c]][n] <= gen'[c]
    <3> SUFFICES ASSUME NEW c \in Connectors, NEW n \in DOMAIN backlog[Server[c]]
                 PROVE  backlog[Server[c]][n] <= gen'[c]
      OBVIOUS
    <3>1. backlog[Server[c]][n] <= gen[c]
      BY DEF Known
    <3>2. backlog[Server[c]] \in Seq(1 .. MaxStarts)
      OBVIOUS
    <3>3. backlog[Server[c]][n] \in 1 .. MaxStarts
      <4> DEFINE b == backlog[Server[c]]
      <4>1. b \in Seq(1 .. MaxStarts) /\ n \in DOMAIN b
        BY <3>2
      <4> HIDE DEF b
      <4>2. DOMAIN b = 1 .. Len(b)
        BY <4>1, LenProperties
      <4>3. b[n] \in 1 .. MaxStarts
        BY <4>1, <4>2, ElementOfSeq
      <4> QED
        BY <4>3 DEF b
    <3> QED
      BY <2>1, <3>1, <3>3, BoundsAssumption
  <2> QED
    BY <2>2, <2>3, <2>4, <2>5 DEF Known
<1>3. Unconnected'
  BY DEF Unconnected, Known
<1>4. Unaccepted'
  BY DEF Unaccepted
<1>5. OneRequest'
  BY DEF OneRequest, Working
<1>6. OwnerWaits'
  BY DEF OwnerWaits, Known, Working
<1>7. NoStaleReply'
  BY DEF NoStaleReply
<1> HIDE DEF TypeOK
<1> QED
  BY <1>1, <1>2, <1>3, <1>4, <1>5, <1>6, <1>7 DEF IInv

(* With a process goes what it sent or was sent, but not its request. *)
LEMMA Dying ==
  ASSUME IInv, NEW p \in Process, Die(p)
  PROVE  IInv'
<1>1. TypeOK'
  BY DieTypeOK DEF IInv
<1> USE DEF IInv, TypeOK, Die, Goto
<1>2. Known'
  BY DEF Known
<1>3. Unconnected'
  BY DEF Unconnected, Known
<1>4. Unaccepted'
  BY DEF Unaccepted
<1>5. OneRequest'
  BY DEF OneRequest, Working
<1>6. OwnerWaits'
  BY DEF OwnerWaits, Working
<1>7. NoStaleReply'
  <2> PICK how \in {"finished", "reset"} : Die(p)!(how)
    OBVIOUS
  <2> SUFFICES ASSUME NEW c \in Connectors, pc'[c] # "wait"
               PROVE  ~replied'[c]
    BY DEF NoStaleReply
  <2>1. ~replied'[c] \/ (replied[c] /\ c # p)
    OBVIOUS
  <2>2. c # p => pc'[c] = pc[c]
    OBVIOUS
  <2> QED
    BY <2>1, <2>2 DEF NoStaleReply
<1> HIDE DEF TypeOK
<1> QED
  BY <1>1, <1>2, <1>3, <1>4, <1>5, <1>6, <1>7 DEF IInv

LEMMA Accepting ==
  ASSUME IInv, NEW p \in Listeners, Accept(p)
  PROVE  IInv'
<1>1. TypeOK'
  BY StartTypeOK DEF IInv, Constructor
<1> USE DEF IInv, TypeOK, Accept, Goto, connectorVars
<1>2. Known'
  <2>1. Head(backlog[p]) = backlog[p][1] /\ 1 \in DOMAIN backlog[p]
    BY HeadTailProperties, LenProperties
  <2>2. \A n \in DOMAIN Tail(backlog[p]) :
          n + 1 \in DOMAIN backlog[p] /\ Tail(backlog[p])[n] = backlog[p][n + 1]
    BY HeadTailProperties, LenProperties, SMTT(30)
  <2>3. \A t \in Listeners : t # p => backlog'[t] = backlog[t] /\ accepted'[t] = accepted[t]
    OBVIOUS
  <2>4. accepted'[p] = backlog[p][1] /\ backlog'[p] = Tail(backlog[p])
    BY <2>1
  <2>5. \A q \in Process : pc'[q] # "down" => gen'[q] >= 1
    BY DEF Known
  <2> QED
    BY <2>1, <2>2, <2>3, <2>4, <2>5 DEF Known
<1>3. Unconnected'
  <2>1. Head(backlog[p]) = backlog[p][1] /\ 1 \in DOMAIN backlog[p]
    BY HeadTailProperties, LenProperties
  <2>2. \A n \in DOMAIN Tail(backlog[p]) :
          n + 1 \in DOMAIN backlog[p] /\ Tail(backlog[p])[n] = backlog[p][n + 1]
    BY HeadTailProperties, LenProperties, SMTT(30)
  <2>3. \A t \in Listeners : t # p => backlog'[t] = backlog[t] /\ accepted'[t] = accepted[t]
    OBVIOUS
  <2>4. accepted'[p] = backlog[p][1] /\ backlog'[p] = Tail(backlog[p])
    BY <2>1
  <2> QED
    BY <2>1, <2>2, <2>3, <2>4, SMTT(30) DEF Unconnected
<1>4. Unaccepted'
  BY DEF Unaccepted
<1>5. OneRequest'
  BY DEF OneRequest, Unaccepted, Working
<1>6. OwnerWaits'
  BY SMTT(30) DEF OwnerWaits, Unaccepted, Working
<1>7. NoStaleReply'
  BY DEF NoStaleReply
<1> HIDE DEF TypeOK
<1> QED
  BY <1>1, <1>2, <1>3, <1>4, <1>5, <1>6, <1>7 DEF IInv

LEMMA Connecting ==
  ASSUME IInv, NEW p \in Connectors, Connect(p)
  PROVE  IInv'
<1>1. TypeOK'
  BY StartTypeOK DEF IInv, Constructor
<1> USE DEF IInv, TypeOK, Connect, Goto
<1>2. Known'
  <2> DEFINE b == backlog[Server[p]]
  <2>1. b \in Seq(1 .. MaxStarts) /\ gen[p] \in 0 .. MaxStarts
    OBVIOUS
  <2>2. backlog'[Server[p]] = Append(b, gen[p])
    OBVIOUS
  <2>3. \A n \in DOMAIN Append(b, gen[p]) :
          \/ n \in DOMAIN b /\ Append(b, gen[p])[n] = b[n]
          \/ Append(b, gen[p])[n] = gen[p]
    BY <2>1, AppendProperties, LenProperties, SMTT(30)
  <2>4. \A t \in Listeners : t # Server[p] => backlog'[t] = backlog[t]
    OBVIOUS
  <2>5. \A c \in Connectors : Server[c] = Server[p] => c = p
    OBVIOUS
  <2>6. ASSUME NEW c \in Connectors, NEW n \in DOMAIN backlog'[Server[c]]
        PROVE  backlog'[Server[c]][n] <= gen'[c]
    <3>1. CASE c = p
      <4>1. n \in DOMAIN Append(b, gen[p])
        BY <2>2, <3>1
      <4>2. backlog'[Server[c]][n] = Append(b, gen[p])[n]
        BY <2>2, <3>1
      <4>3. CASE n \in DOMAIN b /\ Append(b, gen[p])[n] = b[n]
        BY <4>2, <4>3, <3>1 DEF Known
      <4>4. CASE Append(b, gen[p])[n] = gen[p]
        BY <2>1, <4>2, <4>4, <3>1, SMTT(30)
      <4> QED
        BY <2>3, <4>1, <4>3, <4>4
    <3>2. CASE c # p
      BY <2>4, <2>5, <3>2 DEF Known
    <3> QED
      BY <3>1, <3>2
  <2>7. \A q \in Process : pc'[q] # "down" => gen'[q] >= 1
    BY DEF Known
  <2> QED
    BY <2>6, <2>7 DEF Known
<1>3. Unconnected'
  BY DEF Unconnected
<1>4. Unaccepted'
  BY DEF Unaccepted
<1>5. OneRequest'
  BY DEF OneRequest, Working
<1>6. OwnerWaits'
  BY DEF OwnerWaits, Unconnected, Working
<1>7. NoStaleReply'
  BY DEF NoStaleReply
<1> HIDE DEF TypeOK
<1> QED
  BY <1>1, <1>2, <1>3, <1>4, <1>5, <1>6, <1>7 DEF IInv

LEMMA Receiving ==
  ASSUME IInv, NEW s \in Listeners, Receive(s)
  PROVE  IInv'
<1>1. TypeOK'
  BY RunTypeOK DEF IInv, Running
<1> USE DEF IInv, TypeOK, Receive
<1>2. Known'
  BY DEF Known
<1>3. Unconnected'
  BY DEF Unconnected
<1>4. Unaccepted'
  BY DEF Unaccepted
<1>5. OneRequest'
  <2>1. queue[s] = <<>> /\ ~Working(s)
    BY DEF OneRequest
  <2>2. queue'[s] = <<accepted[s]>>
    <3>1. Append(<<>>, accepted[s]) = <<accepted[s]>>
      OBVIOUS
    <3>2. queue'[s] = Append(queue[s], accepted[s])
      OBVIOUS
    <3> QED
      BY <2>1, <3>1, <3>2
  <2>3. accepted'[s] \notin sent'[Client[s]]
    OBVIOUS
  <2>4. \A t \in Listeners : t # s => queue'[t] = queue[t] /\ sent'[Client[t]] = sent[Client[t]]
    OBVIOUS
  <2> QED
    BY <2>1, <2>2, <2>3, <2>4 DEF OneRequest, Working
<1>6. OwnerWaits'
  BY SMTT(30) DEF OwnerWaits, Working
<1>7. NoStaleReply'
  BY DEF NoStaleReply
<1> HIDE DEF TypeOK
<1> QED
  BY <1>1, <1>2, <1>3, <1>4, <1>5, <1>6, <1>7 DEF IInv

LEMMA CliSending ==
  ASSUME IInv, CliSend
  PROVE  IInv'
<1>1. TypeOK'
  BY RunTypeOK DEF IInv, Running
<1> USE DEF IInv, TypeOK, CliSend, Send, Goto, listenerVars
<1>2. Known'
  BY DEF Known
<1>3. Unconnected'
  BY DEF Unconnected
<1>4. Unaccepted'
  BY DEF Unaccepted
<1>5. OneRequest'
  BY DEF OneRequest, OwnerWaits, Working
<1>6. OwnerWaits'
  BY DEF OwnerWaits, NoStaleReply, Working
<1>7. NoStaleReply'
  BY DEF NoStaleReply
<1> HIDE DEF TypeOK
<1> QED
  BY <1>1, <1>2, <1>3, <1>4, <1>5, <1>6, <1>7 DEF IInv

LEMMA CliReceiving ==
  ASSUME IInv, CliReceive
  PROVE  IInv'
<1>1. TypeOK'
  BY RunTypeOK DEF IInv, Running, Cli
<1> USE DEF IInv, TypeOK, CliReceive, Reads, Goto, listenerVars
<1>2. Known'
  BY DEF Known
<1>3. Unconnected'
  BY DEF Unconnected
<1>4. Unaccepted'
  BY DEF Unaccepted
<1>5. OneRequest'
  BY DEF OneRequest, Working
<1>6. OwnerWaits'
  BY DEF OwnerWaits, Working
<1>7. NoStaleReply'
  BY DEF NoStaleReply
<1> HIDE DEF TypeOK
<1> QED
  BY <1>1, <1>2, <1>3, <1>4, <1>5, <1>6, <1>7 DEF IInv

(* The request goes from the core's queue to its own connection. *)
LEMMA CoreSending ==
  ASSUME IInv, CoreSend
  PROVE  IInv'
<1>1. TypeOK'
  BY RunTypeOK DEF IInv, Running, Core
<1> USE DEF IInv, TypeOK, CoreSend, HasRequest, PopRequest, Send, Goto
<1>2. Known'
  BY DEF Known
<1>3. Unconnected'
  BY DEF Unconnected
<1>4. Unaccepted'
  BY DEF Unaccepted
<1>5. OneRequest'
  <2>1. /\ queue'["core"] = <<>>
        /\ queue'["dhcp"] = queue["dhcp"]
        /\ queue["core"] = <<accepted["core"]>>
    BY Popped
  <2> HIDE DEF PopRequest
  <2>2. accepted["dhcp"] = gen["core"] => queue["dhcp"] = <<>>
    BY DEF OwnerWaits, OneRequest
  <2>3. accepted["core"] \notin sent["cli"]
    BY DEF OneRequest
  <2>4. /\ sent'["cli"] = sent["cli"]
        /\ sent'["core"] = sent["core"] \cup {gen["core"]}
        /\ accepted' = accepted
    OBVIOUS
  <2>5. accepted["dhcp"] \in sent'["core"] => queue'["dhcp"] = <<>>
    BY <2>1, <2>2, <2>4 DEF OneRequest
  <2>6. queue'["dhcp"] \in {<<>>, <<accepted["dhcp"]>>}
    BY <2>1 DEF OneRequest
  <2> QED
    BY <2>1, <2>3, <2>4, <2>5, <2>6 DEF OneRequest, Working
<1>6. OwnerWaits'
  BY DEF OwnerWaits, NoStaleReply, Working
<1>7. NoStaleReply'
  BY DEF NoStaleReply
<1> HIDE DEF TypeOK
<1> QED
  BY <1>1, <1>2, <1>3, <1>4, <1>5, <1>6, <1>7 DEF IInv

LEMMA CoreSendFailing ==
  ASSUME IInv, CoreSendFails
  PROVE  IInv'
<1>1. TypeOK'
  BY RunTypeOK DEF IInv, Running, Core
<1> USE DEF IInv, TypeOK, CoreSendFails, HasRequest, PopRequest
<1>2. Known'
  BY DEF Known
<1>3. Unconnected'
  BY DEF Unconnected
<1>4. Unaccepted'
  BY DEF Unaccepted
<1>5. OneRequest'
  <2>1. /\ queue'["core"] = <<>>
        /\ queue'["dhcp"] = queue["dhcp"]
    BY Popped
  <2> HIDE DEF PopRequest
  <2> QED
    BY <2>1 DEF OneRequest, Working
<1>6. OwnerWaits'
  BY DEF OwnerWaits, Working
<1>7. NoStaleReply'
  BY DEF NoStaleReply
<1> HIDE DEF TypeOK
<1> QED
  BY <1>1, <1>2, <1>3, <1>4, <1>5, <1>6, <1>7 DEF IInv

(* The reply is passed on only to the CLI that waits for it. *)
LEMMA CoreReceiving ==
  ASSUME IInv, CoreReceive
  PROVE  IInv'
<1>1. TypeOK'
  BY RunTypeOK DEF IInv, Running, Core
<1> USE DEF IInv, TypeOK, CoreReceive, Reads, SendReply, Goto, listenerVars
<1>2. Known'
  BY DEF Known
<1>3. Unconnected'
  BY DEF Unconnected
<1>4. Unaccepted'
  BY DEF Unaccepted
<1>5. OneRequest'
  BY DEF OneRequest, Working
<1>6. OwnerWaits'
  BY DEF OwnerWaits, OneRequest, Working
<1>7. NoStaleReply'
  BY DEF NoStaleReply, OwnerWaits, Working
<1> HIDE DEF TypeOK
<1> QED
  BY <1>1, <1>2, <1>3, <1>4, <1>5, <1>6, <1>7 DEF IInv

LEMMA CoreReceiveFailing ==
  ASSUME IInv, CoreReceiveFails
  PROVE  IInv'
<1>1. TypeOK'
  BY RunTypeOK DEF IInv, Running, Core
<1> USE DEF IInv, TypeOK, CoreReceiveFails, RecvFails, Goto, listenerVars, connectorVars
<1>2. Known'
  BY DEF Known
<1>3. Unconnected'
  BY DEF Unconnected
<1>4. Unaccepted'
  BY DEF Unaccepted
<1>5. OneRequest'
  BY DEF OneRequest, Working
<1>6. OwnerWaits'
  BY DEF OwnerWaits, Working
<1>7. NoStaleReply'
  BY DEF NoStaleReply
<1> HIDE DEF TypeOK
<1> QED
  BY <1>1, <1>2, <1>3, <1>4, <1>5, <1>6, <1>7 DEF IInv

LEMMA Replying ==
  ASSUME IInv, DhcpReply
  PROVE  IInv'
<1>1. TypeOK'
  BY RunTypeOK DEF IInv, Running
<1> USE DEF IInv, TypeOK, DhcpReply, HasRequest, PopRequest, SendReply
<1>2. Known'
  BY DEF Known
<1>3. Unconnected'
  BY DEF Unconnected
<1>4. Unaccepted'
  BY DEF Unaccepted
<1>5. OneRequest'
  <2>1. /\ queue'["dhcp"] = <<>>
        /\ queue'["core"] = queue["core"]
    BY Popped
  <2> HIDE DEF PopRequest
  <2> QED
    BY <2>1 DEF OneRequest, Working
<1>6. OwnerWaits'
  <2>1. /\ queue'["dhcp"] = <<>>
        /\ queue'["core"] = queue["core"]
        /\ queue["dhcp"] = <<accepted["dhcp"]>>
    BY Popped
  <2> HIDE DEF PopRequest
  <2>2. accepted["dhcp"] \notin sent["core"]
    BY <2>1 DEF OneRequest
  <2>3. /\ replied'["cli"] = replied["cli"]
        /\ replied'["core"] => replied["core"] \/ gen["core"] = accepted["dhcp"]
    OBVIOUS
  <2> QED
    BY <2>1, <2>2, <2>3 DEF OwnerWaits, Working
<1>7. NoStaleReply'
  BY DEF NoStaleReply, OwnerWaits, Working
<1> HIDE DEF TypeOK
<1> QED
  BY <1>1, <1>2, <1>3, <1>4, <1>5, <1>6, <1>7 DEF IInv

-----------------------------------------------------------------------------
(* Theorems *)

LEMMA InitInvariant == Init => IInv
BY InitTypeOK DEF Init, IInv, Known, Unconnected, Unaccepted, OneRequest, Working,
                  OwnerWaits, NoStaleReply

LEMMA StepInvariant == IInv /\ [Next]_vars => IInv'
<1> SUFFICES ASSUME IInv, [Next]_vars
             PROVE  IInv'
  OBVIOUS
<1>1. ASSUME NEW p \in Process, Start(p) \/ Kill(p)
      PROVE  IInv'
  BY <1>1, Starting, Dying DEF Kill
<1>2. ASSUME NEW p \in Process, Constructor(p)
      PROVE  IInv'
  BY <1>2, Constructing, Accepting, Connecting DEF Constructor
<1>3. ASSUME NEW s \in Listeners, SeesGarbage(s) \/ Receive(s)
      PROVE  IInv'
  BY <1>3, Constructing, Receiving
<1>4. CASE CliSend \/ CliSendFails \/ Cli
  BY <1>4, CliSending, CliReceiving, Dying DEF CliSendFails, Cli, CliReceiveFails
<1>5. CASE Core \/ DhcpReply
  BY <1>5, CoreSending, CoreSendFailing, CoreReceiving, CoreReceiveFailing, Replying, Dying
     DEF Core, CoreSendKills
<1>6. CASE UNCHANGED vars
  BY <1>6 DEF vars, IInv, TypeOK, Known, Unconnected, Unaccepted, OneRequest, Working,
              OwnerWaits, NoStaleReply
<1> QED
  BY <1>1, <1>2, <1>3, <1>4, <1>5, <1>6 DEF Next

(* Every variable keeps its type, whatever processes die and are started   *)
(* again (the constructors and loops of common, core and dhcp).            *)
THEOREM ConnectionsTypeCorrect == Spec => []TypeOK
<1>1. IInv => TypeOK
  BY DEF IInv
<1> QED
  BY <1>1, InitInvariant, StepInvariant, PTL DEF Spec

(* Whoever does not wait has no reply to read: none is ever taken for the  *)
(* answer to a later request (send_and_whait_reply, ApiConnector.cpp:56).  *)
THEOREM NoReplyIsStale == Spec => []NoStaleReply
<1>1. IInv => NoStaleReply
  BY DEF IInv
<1> QED
  BY <1>1, InitInvariant, StepInvariant, PTL DEF Spec

(* A request is unread, in the queue of its listener or answered, and in   *)
(* one of these places only (ApiListener::_thread_func and the loops that  *)
(* empty its queue).                                                       *)
THEOREM RequestsInOnePlace == Spec => []OnePlace
<1>1. IInv => OnePlace
  <2> SUFFICES ASSUME IInv, NEW c \in Connectors
               PROVE  LET s == Server[c]
                      IN  /\ Len(queue[s]) <= 1
                          /\ gen[c] \in sent[c] => pc[c] \in {"wait", "down"} /\ ~replied[c]
                          /\ conn[c] = "open" /\ queue[s] = <<gen[c]>>
                               => pc[c] = "wait" /\ ~replied[c]
    BY DEF OnePlace
  <2>1. queue[Server[c]] \in {<<>>, <<accepted[Server[c]]>>}
    BY DEF IInv, OneRequest
  <2>2. Len(queue[Server[c]]) <= 1
    <3>1. Len(<<>>) <= 1 /\ Len(<<accepted[Server[c]]>>) <= 1
      OBVIOUS
    <3> QED
      BY <2>1, <3>1, Zenon
  <2>3. gen[c] \in sent[c] => pc[c] \in {"wait", "down"} /\ ~replied[c]
    BY DEF IInv, OwnerWaits, NoStaleReply
  <2>4. queue[Server[c]] = <<gen[c]>> => accepted[Server[c]] = gen[c]
    BY <2>1
  <2>5. conn[c] = "open" /\ queue[Server[c]] = <<gen[c]>> => pc[c] = "wait" /\ ~replied[c]
    BY <2>4 DEF IInv, OwnerWaits
  <2> QED
    BY <2>2, <2>3, <2>5
<1> QED
  BY <1>1, InitInvariant, StepInvariant, PTL DEF Spec

=============================================================================
