--------------------------- MODULE EndpointsProofs ---------------------------
(***************************************************************************)
(* The types of Endpoints, that endpoints that face only each other never  *)
(* stand, and that the messages of a client stay in order in a queue many  *)
(* threads share, for any number of endpoints, visitors and messages.      *)
(***************************************************************************)
EXTENDS Endpoints, SequenceTheorems, TLAPS

(* An endpoint that has not got past its connector has no listener: this   *)
(* is what its peers wait for.                                             *)
NoListenerYet == \A e \in Endpoint : pc[e] = "connect" => acceptor[e] = "none"

IInv == TypeOK /\ NoListenerYet /\ FacingNeverStand

-----------------------------------------------------------------------------
(* Types.  One lemma for the owners of the clients, one for the threads.   *)

LEMMA InitTypeOK == Init => TypeOK
BY EmptySeq DEF Init, TypeOK, Client

(* What an owner does keeps the types. *)
LEMMA OwnerTypeOK ==
  ASSUME TypeOK,
         NEW c \in Client,
         \/ Connect(c) \/ Sender(c)
         \/ c \in Endpoint /\ (get_next_packet(c) \/ Stop(c) \/ Destroyed(c))
         \/ c \in Visitor /\ Leave(c)
  PROVE  TypeOK'
<1>1. CASE Connect(c)
  BY <1>1 DEF Connect, Starts, TypeOK
<1>2. CASE Sender(c)
  <2>1. CASE Send(c)
    BY <2>1 DEF Send, TypeOK
  <2>2. CASE SendFails(c)
    BY <2>2 DEF SendFails, TypeOK
  <2>3. CASE SendKills(c)
    BY <2>3, EmptySeq DEF SendKills, TypeOK
  <2> QED
    BY <1>2, <2>1, <2>2, <2>3 DEF Sender
<1>3. CASE c \in Endpoint /\ get_next_packet(c)
  <2>1. queue[c] \in Seq(Packet) /\ queue[c] # <<>>
    BY <1>3 DEF TypeOK, get_next_packet
  <2>2. Head(queue[c]) \in Packet /\ Tail(queue[c]) \in Seq(Packet)
    BY <2>1, HeadTailProperties
  <2>3. queue' \in [Endpoint -> Seq(Packet)]
    BY <2>2, <1>3 DEF TypeOK, get_next_packet
  <2>4. taken' \in [Client -> Nat]
    BY <2>2, <1>3 DEF TypeOK, get_next_packet, Packet
  <2> QED
    BY <2>3, <2>4, <1>3 DEF TypeOK, get_next_packet
<1>4. CASE c \in Endpoint /\ Stop(c)
  BY <1>4 DEF Stop, TypeOK
<1>5. CASE c \in Endpoint /\ Destroyed(c)
  BY <1>5, EmptySeq DEF Destroyed, TypeOK
<1>6. CASE c \in Visitor /\ Leave(c)
  BY <1>6 DEF Leave, TypeOK
<1> QED
  BY <1>1, <1>2, <1>3, <1>4, <1>5, <1>6

(* What a listener's thread or a connection's thread does keeps them, too. *)
LEMMA ThreadTypeOK ==
  ASSUME TypeOK,
         \/ \E e \in Endpoint : Thread(e)
         \/ \E c \in Client : Handler(c)
  PROVE  TypeOK'
<1>1. ASSUME NEW e \in Endpoint, _create_socket_and_listen(e)
      PROVE  TypeOK'
  BY <1>1 DEF _create_socket_and_listen, TypeOK
<1>2. ASSUME NEW e \in Endpoint, Accept(e)
      PROVE  TypeOK'
  BY <1>2 DEF Accept, TypeOK
<1>3. ASSUME NEW e \in Endpoint, JoinHandlers(e)
      PROVE  TypeOK'
  BY <1>3 DEF JoinHandlers, TypeOK
<1>4. ASSUME NEW c \in Client, Begin(c)
      PROVE  TypeOK'
  BY <1>4 DEF Begin, Goes, TypeOK
<1>5. ASSUME NEW c \in Client, Read(c)
      PROVE  TypeOK'
  <2>1. PICK n \in got[c] + 1 .. sent[c] :
          /\ queue' = [queue EXCEPT ![remote[c]] =
                         Append(@, [from |-> c, first |-> got[c] + 1, last |-> n])]
          /\ got' = [got EXCEPT ![c] = n]
    BY <1>5 DEF Read
  <2>2. /\ remote[c] \in Endpoint
        /\ n \in Nat
        /\ got[c] + 1 \in Nat
    BY <1>5 DEF Read, Served, TypeOK
  <2>3. [from |-> c, first |-> got[c] + 1, last |-> n] \in Packet
    BY <2>2 DEF Packet
  <2>4. queue[remote[c]] \in Seq(Packet)
    BY <2>2 DEF TypeOK
  <2>5. Append(queue[remote[c]], [from |-> c, first |-> got[c] + 1, last |-> n]) \in Seq(Packet)
    BY <2>3, <2>4, AppendProperties
  <2>6. queue' \in [Endpoint -> Seq(Packet)]
    BY <2>1, <2>2, <2>5 DEF TypeOK
  <2>7. got' \in [Client -> Nat]
    BY <2>1, <2>2 DEF TypeOK
  <2>8. conn' \in [Client -> {"none", "pending", "new", "reading", "left", "reset", "broken"}]
    BY <1>5 DEF Read, Goes, TypeOK
  <2> QED
    BY <1>5, <2>6, <2>7, <2>8 DEF Read, TypeOK
<1>6. ASSUME NEW c \in Client, ReadEnd(c)
      PROVE  TypeOK'
  BY <1>6 DEF ReadEnd, Goes, TypeOK
<1>7. ASSUME NEW c \in Client, ReadFails(c)
      PROVE  TypeOK'
  BY <1>7 DEF ReadFails, TypeOK
<1> QED
  BY <1>1, <1>2, <1>3, <1>4, <1>5, <1>6, <1>7 DEF Thread, Handler

-----------------------------------------------------------------------------
(* A set that faces only itself stays in its connectors: the first of them *)
(* to leave would need the listener of another one.                        *)
LEMMA ConnectInv ==
  ASSUME IInv, NEW c \in Client, Connect(c)
  PROVE  NoListenerYet' /\ FacingNeverStand'
<1>1. NoListenerYet'
  BY NamesAssumption DEF IInv, NoListenerYet, TypeOK, Connect, Starts, Client
<1>2. ASSUME NEW S \in SUBSET Endpoint, Facing(S)'
      PROVE  \A e \in S : pc'[e] = "connect"
  <2>1. Facing(S)
    BY <1>2 DEF Facing, Connect
  <2>2. \A e \in S : pc[e] = "connect"
    BY <2>1 DEF IInv, FacingNeverStand
  <2>3. c \notin S
    <3> SUFFICES ASSUME c \in S PROVE FALSE
      OBVIOUS
    <3>1. remote[c] \in S /\ remote[c] \in Endpoint
      BY <2>1 DEF Facing
    <3>2. acceptor[remote[c]] = "none"
      BY <3>1, <2>2 DEF IInv, NoListenerYet
    <3> QED
      BY <3>1, <3>2 DEF Connect, Listening
  <2> QED
    BY <2>2, <2>3 DEF Connect, IInv, TypeOK
<1> QED
  BY <1>1, <1>2 DEF FacingNeverStand

(* No other step lets a client out of its connector, or makes a listener.  *)
LEMMA OtherInv ==
  ASSUME IInv,
         UNCHANGED remote,
         \A c \in Client : pc[c] = "connect" => pc'[c] = "connect",
         \A e \in Endpoint : pc'[e] = "connect" => pc[e] = "connect",
         \A e \in Endpoint :
           pc[e] = "connect" /\ acceptor[e] = "none" => acceptor'[e] = "none"
  PROVE  NoListenerYet' /\ FacingNeverStand'
<1>1. NoListenerYet'
  BY DEF IInv, NoListenerYet
<1>2. FacingNeverStand'
  BY DEF IInv, FacingNeverStand, Facing, Client
<1> QED
  BY <1>1, <1>2

LEMMA InitInv == Init => IInv
<1> SUFFICES ASSUME Init PROVE IInv
  OBVIOUS
<1>1. TypeOK
  BY InitTypeOK
<1>2. NoListenerYet /\ FacingNeverStand
  BY DEF Init, NoListenerYet, FacingNeverStand, Client
<1> QED
  BY <1>1, <1>2 DEF IInv

LEMMA NextInv == IInv /\ [Next]_vars => IInv'
<1> SUFFICES ASSUME IInv, [Next]_vars PROVE IInv'
  OBVIOUS
<1> USE DEF IInv
<1>1. ASSUME NEW c \in Client, Connect(c)
      PROVE  IInv'
  BY <1>1, OwnerTypeOK, ConnectInv
<1>2. ASSUME NEW c \in Client, Sender(c)
      PROVE  IInv'
  <2>1. UNCHANGED remote
    BY <1>2 DEF Sender, Send, SendFails, SendKills
  <2>2. \A d \in Client : (pc[d] = "connect") <=> (pc'[d] = "connect")
    BY <1>2 DEF Sender, Send, SendFails, SendKills, TypeOK
  <2>3. \A e \in Endpoint :
          pc[e] = "connect" /\ acceptor[e] = "none" => acceptor'[e] = "none"
    BY <1>2 DEF Sender, Send, SendFails, SendKills
  <2> QED
    BY <1>2, <2>1, <2>2, <2>3, OwnerTypeOK, OtherInv DEF Client
<1>3. ASSUME NEW c \in Client, Handler(c)
      PROVE  IInv'
  BY <1>3, ThreadTypeOK, OtherInv DEF Handler, Begin, Read, ReadEnd, ReadFails
<1>4. ASSUME NEW e \in Endpoint, Thread(e)
      PROVE  IInv'
  <2>1. UNCHANGED <<remote, pc>>
    BY <1>4 DEF Thread, _create_socket_and_listen, Accept, JoinHandlers
  <2>2. \A f \in Endpoint : acceptor[f] = "none" => acceptor'[f] = "none"
    BY <1>4 DEF Thread, _create_socket_and_listen, Accept, JoinHandlers, TypeOK
  <2> QED
    BY <1>4, <2>1, <2>2, ThreadTypeOK, OtherInv
<1>5. ASSUME NEW e \in Endpoint, get_next_packet(e) \/ Stop(e) \/ Destroyed(e)
      PROVE  IInv'
  <2>1. e \in Client
    BY DEF Client
  <2>2. UNCHANGED <<remote, acceptor>>
    BY <1>5 DEF get_next_packet, Stop, Destroyed
  <2>3. \A c \in Client : (pc[c] = "connect") <=> (pc'[c] = "connect")
    BY <1>5, <2>1 DEF get_next_packet, Stop, Destroyed, TypeOK
  <2> QED
    BY <1>5, <2>1, <2>2, <2>3, OwnerTypeOK, OtherInv DEF Client
<1>6. ASSUME NEW v \in Visitor, Leave(v)
      PROVE  IInv'
  <2>1. v \in Client
    BY DEF Client
  <2>2. \A c \in Client : (pc[c] = "connect") <=> (pc'[c] = "connect")
    BY <1>6, <2>1 DEF Leave, TypeOK
  <2> QED
    BY <1>6, <2>1, <2>2, OwnerTypeOK, OtherInv DEF Leave, Client
<1>7. CASE UNCHANGED vars
  BY <1>7 DEF vars, TypeOK, NoListenerYet, FacingNeverStand, Facing
<1> QED
  BY <1>1, <1>2, <1>3, <1>4, <1>5, <1>6, <1>7 DEF Next

-----------------------------------------------------------------------------
(* The packets of one client, as its thread appends them and as they are   *)
(* taken.                                                                  *)

LEMMA CarriesNothing ==
  ASSUME NEW c, NEW n \in Nat PROVE Carries(<<>>, c, n, n)
BY DEF Carries

(* The thread of the client appends what follows. *)
LEMMA CarriesAppend ==
  ASSUME NEW q \in Seq(Packet), NEW c, NEW m \in Nat, NEW n \in Nat,
         NEW p \in Packet, p.from = c, p.first = n + 1, Carries(q, c, m, n)
  PROVE  Carries(Append(q, p), c, m, p.last)
<1> DEFINE mine == { i \in DOMAIN q : q[i].from = c }
           EndOf(i)  == IF i = 0 THEN m ELSE q[i].last
           StartOf(j) == IF j > Len(q) THEN n + 1 ELSE q[j].first
<1>1. PICK r : r = Append(q, p)
  OBVIOUS
<1>2. /\ Len(q) \in Nat /\ DOMAIN q = 1 .. Len(q)
      /\ Len(r) = Len(q) + 1 /\ DOMAIN r = 1 .. Len(q) + 1
      /\ \A i \in 1 .. Len(q) : r[i] = q[i]
      /\ r[Len(q) + 1] = p
  <2>1. /\ r \in Seq(Packet) /\ Len(r) = Len(q) + 1 /\ r[Len(q) + 1] = p
        /\ \A i \in 1 .. Len(q) : r[i] = q[i]
    BY <1>1, AppendProperties
  <2>2. QED
    BY <2>1
<1> DEFINE mine2 == { i \in DOMAIN r : r[i].from = c }
           EndOf2(i)  == IF i = 0 THEN m ELSE r[i].last
           StartOf2(j) == IF j > Len(r) THEN p.last + 1 ELSE r[j].first
<1>3. mine2 = mine \cup {Len(q) + 1}
  BY <1>2
<1>4. \A i \in mine \cup {0}, j \in mine \cup {Len(q) + 1} :
        i < j /\ (\A k \in mine : k <= i \/ j <= k) => StartOf(j) = EndOf(i) + 1
  BY DEF Carries
<1>5. mine \subseteq 1 .. Len(q)
  BY <1>2
<1>6. /\ \A i \in mine \cup {0} : EndOf2(i) = EndOf(i)
      /\ \A j \in mine \cup {Len(q) + 1} : StartOf2(j) = StartOf(j)
      /\ EndOf2(Len(q) + 1) = p.last
      /\ StartOf2(Len(q) + 2) = p.last + 1
  BY <1>2, <1>5
<1> HIDE DEF mine, EndOf, StartOf, mine2, EndOf2, StartOf2
<1>7. ASSUME NEW i \in mine2 \cup {0}, NEW j \in mine2 \cup {Len(r) + 1}, i < j,
             \A k \in mine2 : k <= i \/ j <= k
      PROVE  StartOf2(j) = EndOf2(i) + 1
  <2>1. CASE j = Len(q) + 2
    <3>1. i = Len(q) + 1
      BY <1>2, <1>3, <1>5, <1>7, <2>1
    <3>2. QED
      BY <3>1, <2>1, <1>6
  <2>2. CASE j # Len(q) + 2
    <3>1. j \in mine \cup {Len(q) + 1} /\ i \in mine \cup {0}
      BY <1>2, <1>3, <1>5, <1>7, <2>2
    <3>2. QED
      BY <3>1, <1>3, <1>4, <1>6, <1>7
  <2>3. QED
    BY <2>1, <2>2
<1>8. QED
  BY <1>1, <1>7 DEF Carries, mine2, EndOf2, StartOf2

(* The thread of another client appends a packet. *)
LEMMA CarriesAppendOther ==
  ASSUME NEW q \in Seq(Packet), NEW c, NEW m \in Nat, NEW n \in Nat,
         NEW p \in Packet, p.from # c, Carries(q, c, m, n)
  PROVE  Carries(Append(q, p), c, m, n)
<1> DEFINE mine == { i \in DOMAIN q : q[i].from = c }
           EndOf(i)  == IF i = 0 THEN m ELSE q[i].last
           StartOf(j) == IF j > Len(q) THEN n + 1 ELSE q[j].first
<1>1. PICK r : r = Append(q, p)
  OBVIOUS
<1>2. /\ Len(q) \in Nat /\ DOMAIN q = 1 .. Len(q)
      /\ Len(r) = Len(q) + 1 /\ DOMAIN r = 1 .. Len(q) + 1
      /\ \A i \in 1 .. Len(q) : r[i] = q[i]
      /\ r[Len(q) + 1] = p
  <2>1. /\ r \in Seq(Packet) /\ Len(r) = Len(q) + 1 /\ r[Len(q) + 1] = p
        /\ \A i \in 1 .. Len(q) : r[i] = q[i]
    BY <1>1, AppendProperties
  <2>2. QED
    BY <2>1
<1> DEFINE mine2 == { i \in DOMAIN r : r[i].from = c }
           EndOf2(i)  == IF i = 0 THEN m ELSE r[i].last
           StartOf2(j) == IF j > Len(r) THEN n + 1 ELSE r[j].first
<1>3. mine2 = mine
  BY <1>2
<1>4. \A i \in mine \cup {0}, j \in mine \cup {Len(q) + 1} :
        i < j /\ (\A k \in mine : k <= i \/ j <= k) => StartOf(j) = EndOf(i) + 1
  BY DEF Carries
<1>5. mine \subseteq 1 .. Len(q)
  BY <1>2
<1>6. /\ \A i \in mine \cup {0} : EndOf2(i) = EndOf(i)
      /\ \A j \in mine : StartOf2(j) = StartOf(j)
      /\ StartOf2(Len(q) + 2) = StartOf(Len(q) + 1)
  BY <1>2, <1>5
<1> HIDE DEF mine, EndOf, StartOf, mine2, EndOf2, StartOf2
<1>7. ASSUME NEW i \in mine2 \cup {0}, NEW j \in mine2 \cup {Len(r) + 1}, i < j,
             \A k \in mine2 : k <= i \/ j <= k
      PROVE  StartOf2(j) = EndOf2(i) + 1
  <2>1. CASE j = Len(q) + 2
    <3>1. \A k \in mine : k <= i \/ Len(q) + 1 <= k
      BY <1>2, <1>3, <1>5, <1>7, <2>1
    <3>2. i < Len(q) + 1 /\ i \in mine \cup {0}
      BY <1>2, <1>3, <1>5, <1>7
    <3>3. StartOf(Len(q) + 1) = EndOf(i) + 1
      BY <3>1, <3>2, <1>4
    <3>4. QED
      BY <3>2, <3>3, <2>1, <1>6
  <2>2. CASE j # Len(q) + 2
    <3>1. j \in mine /\ i \in mine \cup {0}
      BY <1>2, <1>3, <1>7, <2>2
    <3>2. QED
      BY <3>1, <1>3, <1>4, <1>6, <1>7
  <2>3. QED
    BY <2>1, <2>2
<1>8. QED
  BY <1>1, <1>7 DEF Carries, mine2, EndOf2, StartOf2

(* The first packet is taken. *)
LEMMA CarriesTail ==
  ASSUME NEW q \in Seq(Packet), q # <<>>, NEW c, NEW m \in Nat, NEW n \in Nat,
         Carries(q, c, m, n)
  PROVE  Carries(Tail(q), c, IF Head(q).from = c THEN Head(q).last ELSE m, n)
<1> DEFINE m2 == IF q[1].from = c THEN q[1].last ELSE m
           mine == { i \in DOMAIN q : q[i].from = c }
           EndOf(i)  == IF i = 0 THEN m ELSE q[i].last
           StartOf(j) == IF j > Len(q) THEN n + 1 ELSE q[j].first
<1>1. PICK r : r = Tail(q)
  OBVIOUS
<1>2. /\ Len(q) \in Nat \ {0} /\ DOMAIN q = 1 .. Len(q)
      /\ Head(q) = q[1] /\ q[1] \in Packet
      /\ Len(r) = Len(q) - 1 /\ DOMAIN r = 1 .. Len(q) - 1
      /\ \A i \in 1 .. Len(q) - 1 : r[i] = q[i + 1]
  <2>1. Len(q) \in Nat \ {0} /\ DOMAIN q = 1 .. Len(q) /\ Head(q) = q[1] /\ q[1] \in Packet
    BY EmptySeq, LenProperties
  <2>2. /\ r \in Seq(Packet) /\ Len(r) = Len(q) - 1
        /\ \A i \in 1 .. Len(q) - 1 : r[i] = q[i + 1]
    BY <1>1, HeadTailProperties
  <2>3. QED
    BY <2>1, <2>2
<1> DEFINE mine2 == { i \in DOMAIN r : r[i].from = c }
           EndOf2(i)  == IF i = 0 THEN m2 ELSE r[i].last
           StartOf2(j) == IF j > Len(r) THEN n + 1 ELSE r[j].first
<1>3. /\ \A i \in Int : i \in mine2 => i >= 1 /\ i + 1 \in mine
      /\ \A i \in mine : i > 1 => i - 1 \in mine2
      /\ mine2 \subseteq 1 .. Len(q) - 1 /\ mine \subseteq 1 .. Len(q)
      /\ 1 \in mine <=> q[1].from = c
  BY <1>2
<1>4. \A i \in mine \cup {0}, j \in mine \cup {Len(q) + 1} :
        i < j /\ (\A k \in mine : k <= i \/ j <= k) => StartOf(j) = EndOf(i) + 1
  BY DEF Carries
<1>5. /\ \A i \in mine2 : EndOf2(i) = EndOf(i + 1)
      /\ \A j \in mine2 \cup {Len(q)} : StartOf2(j) = StartOf(j + 1)
      /\ 1 \in mine => EndOf2(0) = EndOf(1)
      /\ 1 \notin mine => EndOf2(0) = EndOf(0)
  BY <1>2, <1>3
<1> HIDE DEF mine, EndOf, StartOf, mine2, EndOf2, StartOf2
<1>6. ASSUME NEW i \in mine2 \cup {0}, NEW j \in mine2 \cup {Len(r) + 1}, i < j,
             \A k \in mine2 : k <= i \/ j <= k
      PROVE  StartOf2(j) = EndOf2(i) + 1
  <2>1. i \in Int /\ j \in Int /\ j \in mine2 \cup {Len(q)}
    <3>1. Len(r) + 1 = Len(q)
      BY <1>2
    <3>2. j \in mine2 \cup {Len(q)}
      BY <3>1, <1>6
    <3>3. Len(q) \in Int
      BY <1>2
    <3>4. mine2 \subseteq 1 .. Len(q) - 1
      BY <1>3, Zenon
    <3>5. \A k \in mine2 : k \in Int
      BY <3>3, <3>4
    <3>6. i \in Int
      BY <3>5
    <3>7. QED
      BY <3>2, <3>3, <3>5, <3>6
  <2>2. j + 1 \in mine \cup {Len(q) + 1}
    BY <2>1, <1>3
  <2>3. \A k \in mine : k > 1 => k <= i + 1 \/ j + 1 <= k
    <3> SUFFICES ASSUME NEW k \in mine, k > 1 PROVE k <= i + 1 \/ j + 1 <= k
      OBVIOUS
    <3>1. k \in Int /\ (k - 1 <= i \/ j <= k - 1)
      BY <1>3, <1>6
    <3>2. QED
      BY <3>1, <2>1
  <2>4. CASE i # 0
    <3>1. i \in mine2 /\ i + 1 \in mine /\ i + 1 < j + 1 /\ i >= 1
      BY <2>1, <2>4, <1>3, <1>6
    <3>2. \A k \in mine : k <= i + 1 \/ j + 1 <= k
      BY <2>1, <2>3, <3>1, <1>3
    <3>3. StartOf(j + 1) = EndOf(i + 1) + 1
      BY <2>2, <3>1, <3>2, <1>4
    <3>4. QED
      BY <3>1, <3>3, <2>1, <1>5
  <2>5. CASE i = 0 /\ 1 \in mine
    <3>1. \A k \in mine : k <= 1 \/ j + 1 <= k
      BY <2>3, <2>5, <1>3
    <3>2. 1 < j + 1
      BY <2>1, <2>5, <1>6
    <3>3. StartOf(j + 1) = EndOf(1) + 1
      BY <2>2, <2>5, <3>1, <3>2, <1>4
    <3>4. QED
      BY <3>3, <2>1, <2>5, <1>5
  <2>6. CASE i = 0 /\ 1 \notin mine
    <3>1. \A k \in mine : k <= 0 \/ j + 1 <= k
      BY <2>3, <2>6, <1>3
    <3>2. 0 < j + 1
      BY <2>1, <2>6, <1>6
    <3>3. StartOf(j + 1) = EndOf(0) + 1
      BY <2>2, <3>1, <3>2, <1>4
    <3>4. QED
      BY <3>3, <2>1, <2>6, <1>5
  <2>7. QED
    BY <2>4, <2>5, <2>6
<1>7. Carries(r, c, m2, n)
  BY <1>6 DEF Carries, mine2, EndOf2, StartOf2
<1>8. QED
  BY <1>1, <1>2, <1>7

-----------------------------------------------------------------------------
(* A packet waits at the listener its client connected to. *)
QueuedAtRemote ==
  \A e \in Endpoint : \A i \in DOMAIN queue[e] : remote[queue[e][i].from] = e

OrderInv == QueuedAtRemote /\ MessagesInOrder

LEMMA InitOrder == Init => OrderInv
<1> SUFFICES ASSUME Init PROVE OrderInv
  OBVIOUS
<1>1. QueuedAtRemote
  BY DEF Init, QueuedAtRemote
<1>2. ASSUME NEW c \in Client, remote[c] \in Endpoint
      PROVE  Carries(queue[remote[c]], c, taken[c], got[c])
  <2>1. queue[remote[c]] = <<>> /\ taken[c] = 0 /\ got[c] = 0
    BY <1>2 DEF Init
  <2>2. Carries(<<>>, c, 0, 0)
    BY CarriesNothing
  <2>3. QED
    BY <2>1, <2>2
<1>3. QED
  BY <1>1, <1>2 DEF OrderInv, MessagesInOrder

(* No step but Read and get_next_packet changes what the order is about,   *)
(* and an endpoint that is gone stays so.                                  *)
LEMMA OtherOrder ==
  ASSUME OrderInv, remote' = remote, got' = got, taken' = taken,
         \A e \in Endpoint : queue'[e] = queue[e] \/ (queue'[e] = <<>> /\ pc'[e] = "gone"),
         \A e \in Endpoint : (pc[e] = "gone") => (pc'[e] = "gone")
  PROVE  OrderInv'
<1>1. QueuedAtRemote'
  BY DEF OrderInv, QueuedAtRemote
<1>2. MessagesInOrder'
  <2> SUFFICES ASSUME NEW c \in Client, remote[c] \in Endpoint, pc'[remote[c]] # "gone"
               PROVE  Carries(queue'[remote[c]], c, taken[c], got[c])
    BY DEF MessagesInOrder
  <2>1. pc[remote[c]] # "gone" /\ queue'[remote[c]] = queue[remote[c]]
    OBVIOUS
  <2>2. QED
    BY <2>1 DEF OrderInv, MessagesInOrder
<1>3. QED
  BY <1>1, <1>2 DEF OrderInv

(* The thread of a connection queues what it read. *)
LEMMA ReadOrder ==
  ASSUME TypeOK, OrderInv, NEW c \in Client, Read(c)
  PROVE  OrderInv'
<1>1. PICK n \in got[c] + 1 .. sent[c] :
        /\ queue' = [queue EXCEPT ![remote[c]] =
                       Append(@, [from |-> c, first |-> got[c] + 1, last |-> n])]
        /\ got' = [got EXCEPT ![c] = n]
  BY DEF Read
<1>2. /\ UNCHANGED <<remote, pc, taken>>
      /\ remote[c] \in Endpoint
      /\ got[c] \in Nat /\ n \in Nat
  BY DEF Read, Served, TypeOK
<1>3. PICK p : p = [from |-> c, first |-> got[c] + 1, last |-> n]
  OBVIOUS
<1>4. p \in Packet /\ p.from = c /\ p.first = got[c] + 1 /\ p.last = n
  BY <1>2, <1>3 DEF Packet
<1>5. PICK e \in Endpoint : e = remote[c]
  BY <1>2
<1>6. /\ queue \in [Endpoint -> Seq(Packet)] /\ queue[e] \in Seq(Packet)
      /\ got \in [Client -> Nat] /\ taken \in [Client -> Nat]
  BY DEF TypeOK
<1>7. /\ queue'[e] = Append(queue[e], p)
      /\ \A f \in Endpoint : f # e => queue'[f] = queue[f]
  BY <1>1, <1>3, <1>5, <1>6
<1>8. got'[c] = n /\ \A d \in Client : d # c => got'[d] = got[d]
  BY <1>1, <1>6
<1>9. QueuedAtRemote'
  <2>1. ASSUME NEW f \in Endpoint, NEW i \in DOMAIN queue'[f]
        PROVE  remote[queue'[f][i].from] = f
    <3>1. CASE f # e
      BY <3>1, <1>7, <2>1 DEF OrderInv, QueuedAtRemote
    <3>2. CASE f = e
      <4>1. PICK q : q = queue[e]
        OBVIOUS
      <4>2. /\ q \in Seq(Packet) /\ i \in DOMAIN Append(q, p)
            /\ queue'[f][i] = Append(q, p)[i]
        BY <4>1, <3>2, <1>6, <1>7, <2>1
      <4>3. /\ DOMAIN q = 1 .. Len(q) /\ DOMAIN Append(q, p) = 1 .. Len(q) + 1
            /\ Len(q) \in Nat
            /\ Append(q, p)[Len(q) + 1] = p
            /\ \A k \in 1 .. Len(q) : Append(q, p)[k] = q[k]
        BY <4>2, <1>4, AppendProperties, LenProperties
      <4>4. CASE i = Len(q) + 1
        BY <4>2, <4>3, <4>4, <3>2, <1>4, <1>5
      <4>5. CASE i # Len(q) + 1
        <5>1. i \in DOMAIN q /\ Append(q, p)[i] = q[i]
          BY <4>2, <4>3, <4>5
        <5>2. remote[q[i].from] = e
          BY <5>1, <4>1 DEF OrderInv, QueuedAtRemote
        <5>3. QED
          BY <5>1, <5>2, <4>2, <3>2
      <4>6. QED
        BY <4>4, <4>5
    <3>3. QED
      BY <3>1, <3>2
  <2>2. QED
    BY <2>1, <1>2 DEF QueuedAtRemote
<1>10. ASSUME NEW d \in Client, remote[d] \in Endpoint, pc[remote[d]] # "gone"
       PROVE  Carries(queue'[remote[d]], d, taken[d], got'[d])
  <2>1. Carries(queue[remote[d]], d, taken[d], got[d]) /\ taken[d] \in Nat /\ got[d] \in Nat
    BY <1>6, <1>10 DEF OrderInv, MessagesInOrder
  <2>2. CASE remote[d] # e
    BY <2>1, <2>2, <1>5, <1>7, <1>8, <1>10
  <2>3. CASE remote[d] = e /\ d = c
    <3>1. Carries(Append(queue[e], p), c, taken[c], p.last)
      BY <2>1, <2>3, <1>4, <1>6, CarriesAppend
    <3>2. QED
      BY <3>1, <2>3, <1>4, <1>7, <1>8
  <2>4. CASE remote[d] = e /\ d # c
    <3>1. Carries(Append(queue[e], p), d, taken[d], got[d])
      BY <2>1, <2>4, <1>4, <1>6, CarriesAppendOther
    <3>2. QED
      BY <3>1, <2>4, <1>7, <1>8
  <2>5. QED
    BY <2>2, <2>3, <2>4
<1>11. QED
  BY <1>2, <1>9, <1>10 DEF OrderInv, MessagesInOrder

(* The owner of an endpoint takes the first packet. *)
LEMMA TakeOrder ==
  ASSUME TypeOK, OrderInv, NEW e \in Endpoint, get_next_packet(e)
  PROVE  OrderInv'
<1>1. PICK q : q = queue[e]
  OBVIOUS
<1>2. /\ queue \in [Endpoint -> Seq(Packet)] /\ q \in Seq(Packet) /\ q # <<>>
      /\ got \in [Client -> Nat] /\ taken \in [Client -> Nat]
  BY <1>1 DEF TypeOK, get_next_packet
<1>3. /\ UNCHANGED <<remote, pc, got>>
      /\ taken' = [taken EXCEPT ![Head(q).from] = Head(q).last]
      /\ queue'[e] = Tail(q)
      /\ \A f \in Endpoint : f # e => queue'[f] = queue[f]
  BY <1>1, <1>2 DEF get_next_packet
<1>4. /\ Len(q) \in Nat \ {0} /\ DOMAIN q = 1 .. Len(q)
      /\ Head(q) = q[1] /\ q[1] \in Packet
      /\ Tail(q) \in Seq(Packet) /\ DOMAIN Tail(q) = 1 .. Len(q) - 1
      /\ \A i \in 1 .. Len(q) - 1 : Tail(q)[i] = q[i + 1]
  <2>1. Len(q) \in Nat \ {0} /\ DOMAIN q = 1 .. Len(q) /\ Head(q) = q[1] /\ q[1] \in Packet
    BY <1>2, EmptySeq, LenProperties
  <2>2. /\ Tail(q) \in Seq(Packet) /\ Len(Tail(q)) = Len(q) - 1
        /\ \A i \in 1 .. Len(Tail(q)) : Tail(q)[i] = q[i + 1]
    BY <1>2, HeadTailProperties
  <2>3. QED
    BY <2>1, <2>2, LenProperties
<1>5. \A i \in DOMAIN q : remote[q[i].from] = e
  BY <1>1 DEF OrderInv, QueuedAtRemote
<1>6. QueuedAtRemote'
  <2>1. ASSUME NEW f \in Endpoint, NEW i \in DOMAIN queue'[f]
        PROVE  remote[queue'[f][i].from] = f
    <3>1. CASE f # e
      BY <3>1, <1>3, <2>1 DEF OrderInv, QueuedAtRemote
    <3>2. CASE f = e
      <4>1. i \in 1 .. Len(q) - 1 /\ queue'[f][i] = q[i + 1]
        BY <3>2, <1>3, <1>4, <2>1
      <4>2. i + 1 \in DOMAIN q
        BY <4>1, <1>4
      <4>3. QED
        BY <4>1, <4>2, <1>5, <3>2
    <3>3. QED
      BY <3>1, <3>2
  <2>2. QED
    BY <2>1, <1>3 DEF QueuedAtRemote
<1>7. remote[Head(q).from] = e /\ Head(q).from \in Client
  BY <1>4, <1>5 DEF Packet
<1>8. ASSUME NEW d \in Client, remote[d] \in Endpoint, pc[remote[d]] # "gone"
      PROVE  Carries(queue'[remote[d]], d, taken'[d], got[d])
  <2>1. Carries(queue[remote[d]], d, taken[d], got[d]) /\ taken[d] \in Nat /\ got[d] \in Nat
    BY <1>2, <1>8 DEF OrderInv, MessagesInOrder
  <2>2. taken'[d] = IF Head(q).from = d THEN Head(q).last ELSE taken[d]
    BY <1>2, <1>3
  <2>3. CASE remote[d] # e
    <3>1. taken'[d] = taken[d]
      BY <2>2, <2>3, <1>7
    <3>2. QED
      BY <3>1, <2>1, <2>3, <1>3, <1>8
  <2>4. CASE remote[d] = e
    <3>1. Carries(Tail(q), d, IF Head(q).from = d THEN Head(q).last ELSE taken[d], got[d])
      BY <2>1, <2>4, <1>1, <1>2, CarriesTail
    <3>2. QED
      BY <3>1, <2>2, <2>4, <1>3
  <2>5. QED
    BY <2>3, <2>4
<1>9. QED
  BY <1>3, <1>6, <1>8 DEF OrderInv, MessagesInOrder

LEMMA NextOrder == TypeOK /\ OrderInv /\ [Next]_vars => OrderInv'
<1> SUFFICES ASSUME TypeOK, OrderInv, [Next]_vars PROVE OrderInv'
  OBVIOUS
<1>1. ASSUME NEW c \in Client,
             \/ Connect(c) \/ Send(c) \/ SendFails(c)
             \/ Begin(c) \/ ReadEnd(c) \/ ReadFails(c)
      PROVE  OrderInv'
  <2>1. UNCHANGED <<remote, got, taken, queue>>
    BY <1>1 DEF Connect, Send, SendFails, Begin, ReadEnd, ReadFails
  <2>2. \A e \in Endpoint : pc[e] = "gone" => pc'[e] = "gone"
    BY <1>1 DEF Connect, Send, SendFails, Begin, ReadEnd, ReadFails, TypeOK, Client
  <2>3. QED
    BY <2>1, <2>2, OtherOrder
<1>2. ASSUME NEW c \in Client, Read(c) PROVE OrderInv'
  BY <1>2, ReadOrder
<1>3. ASSUME NEW e \in Endpoint, Thread(e) PROVE OrderInv'
  <2>1. UNCHANGED <<remote, pc, got, taken, queue>>
    BY <1>3 DEF Thread, _create_socket_and_listen, Accept, JoinHandlers
  <2>2. QED
    BY <2>1, OtherOrder
<1>4. ASSUME NEW e \in Endpoint, get_next_packet(e) PROVE OrderInv'
  BY <1>4, TakeOrder
<1>5. ASSUME NEW c \in Client, Stop(c) \/ Leave(c) PROVE OrderInv'
  <2>1. UNCHANGED <<remote, got, taken, queue>>
    BY <1>5 DEF Stop, Leave
  <2>2. \A e \in Endpoint : pc[e] = "gone" => pc'[e] = "gone"
    BY <1>5 DEF Stop, Leave, TypeOK, Client
  <2>3. QED
    BY <2>1, <2>2, OtherOrder
<1>6. ASSUME NEW e \in Endpoint, Destroyed(e) PROVE OrderInv'
  <2>1. UNCHANGED <<remote, got, taken>> /\ e \in Client
    BY <1>6 DEF Destroyed, Client
  <2>2. \A f \in Endpoint : pc[f] = "gone" => pc'[f] = "gone"
    BY <1>6, <2>1 DEF Destroyed, TypeOK, Client
  <2>3. \A f \in Endpoint : queue'[f] = queue[f] \/ (queue'[f] = <<>> /\ pc'[f] = "gone")
    BY <1>6, <2>1 DEF Destroyed, TypeOK
  <2>4. QED
    BY <2>1, <2>2, <2>3, OtherOrder
<1>7. CASE UNCHANGED vars
  <2>1. UNCHANGED <<remote, pc, got, taken, queue>>
    BY <1>7 DEF vars
  <2>2. QED
    BY <2>1, OtherOrder
<1>8. ASSUME NEW c \in Client, SendKills(c) PROVE OrderInv'
  <2>1. UNCHANGED <<remote, got, taken>>
    BY <1>8 DEF SendKills
  <2>2. \A f \in Endpoint : pc[f] = "gone" => pc'[f] = "gone"
    BY <1>8 DEF SendKills, TypeOK, Client
  <2>3. \A f \in Endpoint : queue'[f] = queue[f] \/ (queue'[f] = <<>> /\ pc'[f] = "gone")
    BY <1>8 DEF SendKills, TypeOK, Client
  <2>4. QED
    BY <2>1, <2>2, <2>3, OtherOrder
<1>9. QED
  BY <1>1, <1>2, <1>3, <1>4, <1>5, <1>6, <1>7, <1>8 DEF Next, Sender, Handler, Client

-----------------------------------------------------------------------------
(* The variables of Endpoints keep their types, for any endpoints,         *)
(* visitors and wiring.                                                    *)
THEOREM EndpointsTypeCorrect == Spec => []TypeOK
<1>1. Init => IInv
  BY InitInv
<1>2. IInv /\ [Next]_vars => IInv'
  BY NextInv
<1>3. IInv => TypeOK
  BY DEF IInv
<1> QED
  BY <1>1, <1>2, <1>3, PTL DEF Spec

(* However many they are: endpoints whose connectors lead only to each     *)
(* other, in a circle or in a longer chain into one, are never constructed *)
(* (ApiEndpoint.hpp declares the connector before the listener).           *)
THEOREM FacingEndpointsDeadlock == Spec => []FacingNeverStand
<1>1. Init => IInv
  BY InitInv
<1>2. IInv /\ [Next]_vars => IInv'
  BY NextInv
<1>3. IInv => FacingNeverStand
  BY DEF IInv
<1> QED
  BY <1>1, <1>2, <1>3, PTL DEF Spec

(* For any number of clients whose threads push to one queue: no message   *)
(* that was read is lost, and none of a connection overtakes another       *)
(* (TcpListener.hpp's queue under its mutex, and get_next_packet).         *)
THEOREM MessagesStayInOrder == Spec => []MessagesInOrder
<1>1. Init => OrderInv
  BY InitOrder
<1>2. TypeOK /\ OrderInv /\ [Next]_vars => OrderInv'
  BY NextOrder
<1>3. OrderInv => MessagesInOrder
  BY DEF OrderInv
<1> QED
  BY <1>1, <1>2, <1>3, EndpointsTypeCorrect, PTL DEF Spec

=============================================================================
