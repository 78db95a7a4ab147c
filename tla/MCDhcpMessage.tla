---------------------------- MODULE MCDhcpMessage ----------------------------
(***************************************************************************)
(* Small instances of DhcpMessage.tla: messages with up to three entries,  *)
(* of every type of payload and at the edges of the lengths and values the *)
(* table allows.                                                           *)
(***************************************************************************)
EXTENDS DhcpMessage

Bytes4 == <<0, 1, 81, 128>>

(* Pads and ends, and one or more entries for each type of payload. *)
Plain == { Entry(0, <<>>), Entry(255, <<>>), Entry(53, <<1>>), Entry(53, <<3>>),
           Entry(55, <<1, 3>>), Entry(12, <<0, 255>>) }

Legals == { Entry(1, <<255, 255, 0, 0>>), Entry(2, Bytes4), Entry(3, Bytes4 \o Bytes4),
            Entry(50, Bytes4), Entry(13, <<1, 2>>), Entry(19, <<7>>), Entry(21, Bytes4 \o Bytes4),
            Entry(22, <<2, 64>>), Entry(23, <<255>>), Entry(25, <<2, 64, 0, 7>>),
            Entry(33, Bytes4 \o Bytes4), Entry(43, <<255, 0, 53>>), Entry(46, <<8>>),
            Entry(51, Bytes4), Entry(52, <<3>>), Entry(57, <<255, 255>>), Entry(61, <<1, 2>>),
            Entry(68, <<>>), Entry(26, <<0, 68>>), Entry(37, <<1>>), Entry(53, <<8>>) }

(* A length or a value next to one the table allows, an unknown option,    *)
(* and lengths below a minimum.                                            *)
Edges == { Entry(1, <<255, 255, 0>>), Entry(22, <<2, 63>>), Entry(23, <<0>>),
           Entry(26, <<0, 67>>), Entry(46, <<3>>), Entry(52, <<4>>), Entry(53, <<0>>),
           Entry(53, <<9>>), Entry(57, <<0, 255>>), Entry(200, <<1>>), Entry(53, <<>>),
           Entry(61, <<1>>), Entry(61, <<>>), Entry(3, <<>>), Entry(12, <<>>),
           Entry(25, <<2, 64>>), Entry(51, <<1, 2>>) }

Message(htype, cookie, entries) ==
  [op |-> 1, htype |-> htype, hlen |-> 6, hops |-> 0, xid |-> <<1, 2, 3, 4>>,
   ciaddr |-> <<10, 0, 0, 1>>, chaddr |-> <<2, 0, 0, 0, 0, 9>>,
   cookie |-> cookie, entries |-> entries, tail |-> <<>>]

(* Options that break off: no length, a payload that is not all there, and *)
(* lists whose last element is not, of each kind and with and without      *)
(* bytes that follow; and those the constructor refuses unread.            *)
Tails == { <<53>>, <<53, 1>>, <<12, 2, 65>>, <<55, 255, 1>>, <<3, 4, 10, 0, 0>>,
           <<3, 5, 10, 0, 0, 1, 7>>, <<25, 3, 2, 64, 0, 255>>, <<33, 4, 10, 0, 0, 1, 255>>,
           <<43, 1>>, <<200>>, <<200, 9, 1>>, <<1, 5, 255>>, <<1, 4, 255>> }

EntrySequences ==
  { s \o <<e>> : s \in SeqOf(Plain, 2), e \in Plain }
    \cup { <<a, e, b>> : a \in Plain, b \in {Entry(53, <<1>>), Entry(0, <<>>)},
                         e \in Legals \cup Edges }
    \cup { <<a, b>> : a \in Legals, b \in Legals }

(* What stands before them: nothing, a request, a refusal, or the end. *)
Broken == { [Message(1, MagicCookie, s) EXCEPT !.tail = t] :
              s \in { <<>>, <<Entry(53, <<1>>)>>, <<Entry(0, <<>>), Entry(53, <<9>>)>>,
                      <<Entry(53, <<3>>), Entry(255, <<>>)>>,
                      <<Entry(255, <<>>), Entry(53, <<9>>)>> },
              t \in Tails }

SomeMessages ==
  { Message(1, MagicCookie, s) : s \in EntrySequences }
    \cup Broken
    \cup { Message(6, MagicCookie, <<Entry(53, <<1>>)>>),
           Message(1, <<99, 130, 83, 98>>, <<Entry(53, <<1>>)>>),
           Message(1, <<>>, <<>>),
           [Message(1, <<>>, <<>>) EXCEPT !.chaddr = <<>>],
           [Message(6, MagicCookie, <<>>) EXCEPT !.tail = <<53>>],
           Message(1, MagicCookie, <<>>),
           [Message(1, MagicCookie, <<Entry(53, <<1>>), Entry(255, <<>>)>>) EXCEPT !.op = 2] }

SomeAddresses == { <<172, 18, 1, 2>>, <<0, 0, 0, 0>> }

=============================================================================
