----------------------------- MODULE DhcpMessage -----------------------------
(***************************************************************************)
(* What a datagram means on its way through the server: the parser of      *)
(* dhcp/src/DhcpMessage.cpp, option by option, the replies of              *)
(* DhcpServer.cpp built from what it read, their bytes                     *)
(* (DhcpMessage::to_network_data), and the client that parses them with    *)
(* the same parser.                                                        *)
(*                                                                         *)
(* A datagram is a sequence of bytes.  It is chosen as a record of its     *)
(* fields, its sequence of options, which Encode writes in the format of   *)
(* RFC 2131, and whatever follows where an option breaks off: the parser   *)
(* never sees the record, the properties do.                               *)
(***************************************************************************)
EXTENDS DhcpOption

CONSTANTS
  SnameLength, FileLength,   \* 64 and 128 in the code
  Sent,                      \* the messages clients send
  Addresses                  \* the addresses a client may be offered

ASSUME LengthsAssumption == SnameLength \in Nat /\ FileLength \in Nat

(* An entry of a message's options: a pad or the end, which are one byte,  *)
(* or a code with its payload.                                             *)
Entry(code, payload) == [code |-> code, payload |-> payload]

Encode(entry) ==
  IF entry.code \in {0, 255} THEN <<entry.code>>
  ELSE <<entry.code, Len(entry.payload)>> \o entry.payload

(* The whole ones: the length of a payload is one byte. *)
Entries ==
  { e \in [code : Byte, payload : Seq(Byte)] :
      /\ e.code \in {0, 255} => e.payload = <<>>
      /\ Len(e.payload) <= 255
      /\ HasWholeElements(e.code, e.payload) }

EncodeAll(entries) == FlattenSeq([ i \in DOMAIN entries |-> Encode(entries[i]) ])

MagicCookie == <<99, 130, 83, 99>>

DHCP_MESSAGE_MIN_LENGTH == 44 + SnameLength + FileLength

Zeros(n) == [ i \in 1 .. n |-> 0 ]

FourBytes == [1 .. 4 -> Byte]

(* The next option of a datagram, of which these bytes are left, breaks    *)
(* off: it has no length, its payload runs past the end of the datagram,   *)
(* or its last element past the end of the payload.                        *)
BreaksOff(bytes) ==
  /\ bytes[1] \notin {0, 255}
  /\ ~ /\ Len(bytes) >= 2
       /\ Len(bytes) >= 2 + bytes[2]
       /\ HasWholeElements(bytes[1], SubSeq(bytes, 3, 2 + bytes[2]))

(* A message has a client's hardware address, a cookie and entries, or     *)
(* ends before the first of them it does not have.  The entries are all    *)
(* its options, up to one that breaks off: the tail starts there.          *)
Messages ==
  { m \in [op : Byte, htype : Byte, hlen : Byte, hops : Byte, xid : FourBytes,
           ciaddr : FourBytes, chaddr : {<<>>} \cup [1 .. 6 -> Byte],
           cookie : {<<>>} \cup FourBytes, entries : Seq(Entries), tail : Seq(Byte)] :
      /\ m.chaddr = <<>> => m.cookie = <<>>
      /\ m.cookie = <<>> => m.entries = <<>> /\ m.tail = <<>>
      /\ m.tail # <<>> => BreaksOff(m.tail) }

ASSUME SentAssumption == Sent \subseteq Messages
ASSUME AddressesAssumption == Addresses \subseteq FourBytes

VARIABLES
  sent,      \* the message the client sent, which no action reads but the first
  side,      \* whose parser runs: the server's, then the client's
  data,      \* its datagram
  iter,      \* the parser's position in it
  message,   \* what it has read of it
  pc,        \* "header", "options", "done", "thrown", "dead" or "astray"
  given      \* the address the server put into its reply

vars == <<sent, side, data, iter, message, pc, given>>

(* The fields of a message as DhcpMessage() leaves them, for a client      *)
(* whose hardware address is not set yet.                                  *)
EmptyMessage ==
  [op |-> 1, htype |-> 1, hlen |-> 6, hops |-> 0, xid |-> Zeros(4), secs |-> Zeros(2),
   flags |-> Zeros(2), ciaddr |-> Zeros(4), yiaddr |-> Zeros(4), siaddr |-> Zeros(4),
   giaddr |-> Zeros(4), chaddr |-> <<>>, options |-> <<>>]

(* A message as its client writes it. *)
Datagram(m) ==
  <<m.op, m.htype, m.hlen, m.hops>> \o m.xid \o Zeros(4)
    \o m.ciaddr \o Zeros(12) \o m.chaddr \o Zeros(10)
    \o Zeros(SnameLength + FileLength)
    \o m.cookie \o EncodeAll(m.entries) \o m.tail

Init == /\ sent \in Sent
        /\ side = "server"
        /\ data = Datagram(sent)
        /\ iter = 0
        /\ message = EmptyMessage
        /\ pc = "header"
        /\ given = <<>>

-----------------------------------------------------------------------------
(* DhcpMessage(data) *)

(* The n bytes from position i, counted from 0 as in the code. *)
Bytes(i, n) == SubSeq(data, i + 1, i + n)

Throw == pc' = "thrown" /\ UNCHANGED <<sent, side, data, iter, message, given>>

HeaderThrows ==
  /\ pc = "header"
  /\ \/ Len(data) < DHCP_MESSAGE_MIN_LENGTH
     \/ Bytes(1, 1) # <<1>>
     \/ /\ Len(data) >= DHCP_MESSAGE_MIN_LENGTH + 4
        /\ Bytes(DHCP_MESSAGE_MIN_LENGTH, 4) # MagicCookie
  /\ Throw

(* The fields are read in their order; sname and file are kept by the code *)
(* and looked at by nobody.  A message too short for the magic cookie has  *)
(* no options.                                                             *)
ParseHeader ==
  /\ pc = "header"
  /\ Len(data) >= DHCP_MESSAGE_MIN_LENGTH
  /\ Bytes(1, 1) = <<1>>
  /\ message' = [EmptyMessage EXCEPT
       !.op = data[1], !.htype = data[2], !.hlen = data[3], !.hops = data[4],
       !.xid = Bytes(4, 4), !.secs = Bytes(8, 2), !.flags = Bytes(10, 2),
       !.ciaddr = Bytes(12, 4), !.yiaddr = Bytes(16, 4), !.siaddr = Bytes(20, 4),
       !.giaddr = Bytes(24, 4), !.chaddr = Bytes(28, 6)]
  /\ IF Len(data) < DHCP_MESSAGE_MIN_LENGTH + 4
     THEN pc' = "done" /\ iter' = DHCP_MESSAGE_MIN_LENGTH
     ELSE /\ Bytes(DHCP_MESSAGE_MIN_LENGTH, 4) = MagicCookie
          /\ pc' = "options"
          /\ iter' = DHCP_MESSAGE_MIN_LENGTH + 4
  /\ UNCHANGED <<sent, side, data, given>>

AtOption == pc = "options" /\ iter # Len(data)

(* A faulty loop: a pad is read without moving on. *)
PadStays ==
  /\ AtOption
  /\ data[iter + 1] = 0
  /\ UNCHANGED vars

Pad ==
  /\ AtOption
  /\ data[iter + 1] = 0
  /\ iter' = iter + 1
  /\ UNCHANGED <<sent, side, data, message, pc, given>>

(* Another one: the end option is passed over like a pad. *)
EndPassedOver ==
  /\ pc = "options"
  /\ iter # Len(data) => data[iter + 1] = 255
  /\ iter' = IF iter = Len(data) THEN iter ELSE iter + 1
  /\ pc' = IF iter = Len(data) THEN "done" ELSE pc
  /\ UNCHANGED <<sent, side, data, message, given>>

(* The end option, or the end of the datagram. *)
End ==
  /\ pc = "options"
  /\ iter # Len(data) => data[iter + 1] = 255
  /\ pc' = "done"
  /\ UNCHANGED <<sent, side, data, iter, message, given>>

Rest == SubSeq(data, iter + 1, Len(data))

(* The constructor throws before it touches the payload. *)
RefusedUnread(bytes) ==
  \/ bytes[1] \notin Known
  \/ /\ ~VariableLength(bytes[1])
     /\ Len(bytes) >= 2
     /\ bytes[2] # get_one_element_payload_length_in_bytes(PayloadType(bytes[1]))

(* No iterator is compared with data.end() while an option is read: the    *)
(* constructor runs past it, which is undefined.  What is found there may  *)
(* throw, the process may be ended by a signal, or the loop goes on in     *)
(* foreign memory, of which nothing is said.                               *)
Overrun ==
  /\ AtOption
  /\ BreaksOff(Rest)
  /\ pc' \in IF RefusedUnread(Rest) THEN {"thrown"} ELSE {"thrown", "dead", "astray"}
  /\ UNCHANGED <<sent, side, data, iter, message, given>>

Code == data[iter + 1]
Payload == Bytes(iter + 2, data[iter + 2])

(* Faulty loops: the payload is taken from the byte of its length on, and  *)
(* one byte too many is skipped after it.                                  *)
ParseOptionEarly ==
  /\ AtOption
  /\ Code \notin {0, 255}
  /\ ~BreaksOff(Rest)
  /\ Accepts(Code, Payload)
  /\ message' = [message EXCEPT !.options =
                    Append(@, Option(Code, Bytes(iter + 1, Len(Payload))))]
  /\ iter' = iter + 2 + Len(Payload)
  /\ UNCHANGED <<sent, side, data, pc, given>>

ParseOptionFar ==
  /\ AtOption
  /\ Code \notin {0, 255}
  /\ ~BreaksOff(Rest)
  /\ Accepts(Code, Payload)
  /\ message' = [message EXCEPT !.options = Append(@, Option(Code, Payload))]
  /\ iter' = iter + 3 + Len(Payload)
  /\ UNCHANGED <<sent, side, data, pc, given>>

ParseOption ==
  /\ AtOption
  /\ Code \notin {0, 255}
  /\ ~BreaksOff(Rest)
  /\ Accepts(Code, Payload)
  /\ message' = [message EXCEPT !.options = Append(@, Option(Code, Payload))]
  /\ iter' = iter + 2 + Len(Payload)
  /\ UNCHANGED <<sent, side, data, pc, given>>

OptionThrows ==
  /\ AtOption
  /\ Code \notin {0, 255}
  /\ ~BreaksOff(Rest)
  /\ ~Accepts(Code, Payload)
  /\ Throw

-----------------------------------------------------------------------------
(* make_offer and make_acknowledge, and their way to the client *)

DHCPDISCOVER == 1
DHCPOFFER    == 2
DHCPREQUEST  == 3
DHCPACK      == 5

LeaseTime == <<0, 1, 81, 128>>    \* 86400 in base 256

(* The options given to a reply of a type, in their order. *)
ReplyEntries(type) ==
  << Entry(53, <<type>>), Entry(1, <<255, 255, 255, 0>>), Entry(3, <<172, 18, 1, 1>>),
     Entry(51, LeaseTime) >>

(* A faulty reply: the transaction of the request is not copied. *)
MakeReplyForgetsXid(type, ip) ==
  [EmptyMessage EXCEPT
     !.op = 2, !.yiaddr = ip, !.siaddr = <<172, 18, 1, 1>>, !.chaddr = message.chaddr,
     !.options = [ i \in 1 .. 4 |->
                     Option(ReplyEntries(type)[i].code, ReplyEntries(type)[i].payload) ]]

make_reply(type, ip) ==
  [EmptyMessage EXCEPT
     !.op = 2, !.xid = message.xid,
     !.yiaddr = ip, !.siaddr = <<172, 18, 1, 1>>, !.chaddr = message.chaddr,
     !.options = [ i \in 1 .. 4 |->
                     Option(ReplyEntries(type)[i].code, ReplyEntries(type)[i].payload) ]]

(* sname and file are written as zeros, and so are the last ten bytes of   *)
(* the client's hardware address.                                          *)
to_network_data(m) ==
  <<m.op, m.htype, m.hlen, m.hops>> \o m.xid \o m.secs \o m.flags
    \o m.ciaddr \o m.yiaddr \o m.siaddr \o m.giaddr \o m.chaddr \o Zeros(10)
    \o Zeros(SnameLength + FileLength)
    \o IF m.options = <<>> THEN <<>>
       ELSE MagicCookie
              \o FlattenSeq([ i \in DOMAIN m.options |->
                                option_to_network_data(m.options[i]) ])
              \o <<255>>

(* The first option 53 of the message. *)
MessageType ==
  message.options[SelectInSeq(message.options, LAMBDA o : o.code = 53)].real_values[1].bytes[1]

(* main_loop answers a DHCPDISCOVER or a DHCPREQUEST; DhcpServer.tla has   *)
(* the choice of the address.  The client reads the answer from its first  *)
(* byte.                                                                   *)
Reply ==
  /\ pc = "done"
  /\ side = "server"
  /\ message.op = 1
  /\ \E i \in DOMAIN message.options : message.options[i].code = 53
  /\ MessageType \in {DHCPDISCOVER, DHCPREQUEST}
  /\ \E ip \in Addresses :
       /\ given' = ip
       /\ data' = to_network_data(make_reply(IF MessageType = DHCPDISCOVER
                                             THEN DHCPOFFER ELSE DHCPACK, ip))
  /\ side' = "client"
  /\ iter' = 0
  /\ message' = EmptyMessage
  /\ pc' = "header"
  /\ UNCHANGED sent

-----------------------------------------------------------------------------

Parse == \/ HeaderThrows
         \/ ParseHeader
         \/ Pad
         \/ End
         \/ ParseOption
         \/ OptionThrows
         \/ Overrun

Next == Parse \/ Reply

Spec == Init /\ [][Next]_vars

(* A sequential program keeps running. *)
FairSpec == Spec /\ WF_vars(Parse)

-----------------------------------------------------------------------------
(* Properties *)

TypeOK == /\ sent \in Sent
          /\ side \in {"server", "client"}
          /\ data \in Seq(Byte)
          /\ iter \in 0 .. Len(data)
          /\ pc \in {"header", "options", "done", "thrown", "dead", "astray"}
          /\ given \in {<<>>} \cup Addresses
          /\ \A i \in DOMAIN message.options :
               LET o == message.options[i]
               IN  /\ o.code \in Known
                   /\ \A v \in DOMAIN o.real_values : o.real_values[v].bytes \in Seq(Byte)

(* An option holds what an entry says. *)
IsOptionOf(option, entry) ==
  /\ option.code = entry.code
  /\ option.real_payload_length = Len(entry.payload)
  /\ PayloadType(option.code) # "FLAG" =>
       FlattenSeq([ v \in DOMAIN option.real_values |-> option.real_values[v].bytes ])
         = entry.payload

(* The options are those of the first n entries, without the pads. *)
AreOptionsOf(options, entries, n) ==
  \E of \in [DOMAIN options -> 1 .. n] :
    /\ \A j, k \in DOMAIN options : j < k => of[j] < of[k]
    /\ \A k \in DOMAIN options : IsOptionOf(options[k], entries[of[k]])
    /\ \A i \in 1 .. n : entries[i].code # 0 <=> \E k \in DOMAIN options : of[k] = i

NoEnd(entries, n) == \A i \in 1 .. n : entries[i].code # 255

(* At every step the parser has collected the options of some first        *)
(* entries as they were sent, and at last those of all entries up to the   *)
(* end option: what one option holds never leaks into the next.            *)
ReadsWhatWasSent ==
  pc \in {"options", "done"} /\ side = "server" =>
    \E n \in 0 .. Len(sent.entries) :
      /\ NoEnd(sent.entries, n)
      /\ AreOptionsOf(message.options, sent.entries, n)
      /\ pc = "done" => n = Len(sent.entries) \/ sent.entries[n + 1].code = 255

(* What the table allows: a known option of its length, or of at least its *)
(* minimum, whose numbers are allowed.                                     *)
Legal(e) ==
  /\ e.code \in Known \ {0, 255}
  /\ LET type == PayloadType(e.code)
         size == IF type \in Whole THEN 1 ELSE get_one_element_payload_length_in_bytes(type)
     IN  IF VariableLength(e.code)
         THEN Len(e.payload) >= min_len_in_elements(e.code) * size
         ELSE Len(e.payload) = size
  /\ e.code \in DOMAIN int_constraint => Number(e.payload) \in int_constraint[e.code]

(* An option below its minimum length that is accepted all the same: the   *)
(* constructor looks at the minimum for byte arrays alone, and not for an  *)
(* empty one, although DhcpOption.hpp:68 has it "for arrays and lists of   *)
(* fields" and the table gives one to each list and string.                *)
Short(e) ==
  /\ e.code \in Known
  /\ VariableLength(e.code)
  /\ e.payload = <<>> \/ PayloadType(e.code) # "BYTE_ARRAY"

BadFixedPart(m) ==
  \/ m.chaddr = <<>>
  \/ m.htype # 1
  \/ m.cookie \notin {<<>>, MagicCookie}

(* Nothing breaks off before the end option, or before the datagram's end. *)
IsWhole(m) == m.tail = <<>> \/ ~NoEnd(m.entries, Len(m.entries))

(* The entries a parser reaches that refuses none of them, but the pads. *)
Reached(m) == { i \in DOMAIN m.entries : NoEnd(m.entries, i) /\ m.entries[i].code # 0 }

(* Whatever is refused is illegal: the fixed part of the message, an option *)
(* before its end, or one that breaks off.  What an option after the end   *)
(* holds, pads and the order of the options do not matter, and the         *)
(* server's own replies are never refused.                                 *)
RefusesOnlyIllegal ==
  pc = "thrown" =>
    /\ side = "server"
    /\ \/ BadFixedPart(sent)
       \/ ~IsWhole(sent)
       \/ \E i \in Reached(sent) : ~Legal(sent.entries[i])

(* A message is read on only as long as it is legal, but for the minimum   *)
(* lengths: whatever order its options have, no illegal one before the end *)
(* is passed over by what becomes of the others.                           *)
AcceptsOnlyLegalOrShort ==
  pc \in {"done", "dead", "astray"} /\ side = "server" =>
    /\ ~BadFixedPart(sent)
    /\ \A i \in Reached(sent) : Legal(sent.entries[i]) \/ Short(sent.entries[i])

(* The loop of DhcpMessage.cpp:69 leaves the datagram only if an option    *)
(* breaks off that it reaches, never for lengths inside the datagram, and  *)
(* never in what the server itself has written.                            *)
StaysInside ==
  pc \in {"dead", "astray"} => side = "server" /\ ~IsWhole(sent)

(* The value of an option of the message. *)
Read(code) ==
  message.options[SelectInSeq(message.options, LAMBDA o : o.code = code)].real_values[1].bytes

(* The options of the answer to the message that was sent. *)
Answer ==
  LET first == SelectInSeq(sent.entries, LAMBDA e : e.code = 53)
  IN  ReplyEntries(IF sent.entries[first].payload = <<DHCPDISCOVER>>
                   THEN DHCPOFFER ELSE DHCPACK)

(* The client reads what the server meant: its own transaction and         *)
(* hardware address, the address it was given, the type of the answer, the *)
(* mask and the router, in a reply its parser accepts.                     *)
ReplyIsUnderstood ==
  side = "client" =>
    /\ pc # "thrown"
    /\ pc = "done" =>
         /\ message.op = 2
         /\ message.xid = sent.xid
         /\ message.chaddr = sent.chaddr
         /\ message.yiaddr = given
         /\ Read(53) = Answer[1].payload
         /\ Read(1) = Answer[2].payload
         /\ Read(3) = Answer[3].payload

(* Every option that was read can be written and read again.  All that     *)
(* changes is the order of the bytes of numbers, when the host stores them *)
(* the other way round than the network does.                              *)
SameButForByteOrder(v, w) ==
  /\ v.type = w.type
  /\ \/ v.bytes = w.bytes
     \/ v.type \in Multibyte /\ v.bytes = Reverse(w.bytes)

OptionsSurvive ==
  \A i \in DOMAIN message.options :
    LET option  == message.options[i]
        written == option_to_network_data(option)
        again   == real_values(written[1], SubSeq(written, 3, Len(written)))
    IN  ~UndefinedData(option) =>
          /\ written[1] = option.code
          /\ Len(written) = 2 + option.real_payload_length
          /\ Len(again) = Len(option.real_values)
          /\ \A v \in DOMAIN again : SameButForByteOrder(again[v], option.real_values[v])

(* Every datagram in which nothing breaks off before its end option is     *)
(* parsed to its end or refused, and so is the reply to it.                *)
ParseEnds == IsWhole(sent) => []<>(pc \in {"done", "thrown"})

-----------------------------------------------------------------------------
(* DhcpServer.cpp:67 builds the lease time in network byte order for a     *)
(* reply that is made into "network data": the client reads the 86400      *)
(* seconds the server means.                                               *)
LeaseTimeIsUnderstood ==
  side = "client" /\ pc = "done" => Read(51) = LeaseTime

=============================================================================
