--------------------------------- MODULE Cli ---------------------------------
(***************************************************************************)
(* The command line: the table of commands and its tree                    *)
(* (cli/src/Command.cpp), the line editor and the analysis of a line       *)
(* (cli/src/main.cpp), and the check each handler makes of the arguments   *)
(* it is given (cli/src/command_handlers.cpp).  What a handler then sends  *)
(* is in ControlPlane.tla.                                                 *)
(*                                                                         *)
(* A line is a sequence of characters.  A word of a command is one         *)
(* character here, named by the word, and so is an IPv4 address: two of    *)
(* them with no space between are a word of no command.                    *)
(***************************************************************************)
EXTENDS Integers, Sequences, FiniteSets

CONSTANTS
  Addresses,   \* characters that are an IPv4 address
  Characters,  \* the other characters, the words of the commands among them
  Strokes,     \* the byte sequences the terminal sends, one for each key or burst of keys
  Lines        \* the lines the model has room for

-----------------------------------------------------------------------------
(* Command.cpp *)

(* parse_fixed_word and parse_variable_element: the elements of a pattern. *)
FixedWord(word) == [type |-> "FIXED_WORD", fixed_value |-> word]
Variable(type)  == [type |-> type, fixed_value |-> ""]

IPv4Address == Variable("IP_V4_ADDRESS")

Command(elements, handler) == [elements |-> elements, handler |-> handler]

(* A faulty table, in which one command begins another. *)
CommandsWithPrefix ==
  << Command(<<FixedWord("ip")>>, "blank"),
     Command(<<FixedWord("ip"), FixedWord("show")>>, "blank") >>

all_commands ==
  << Command(<<FixedWord("version")>>, "cmd_version"),
     Command(<<FixedWord("ip"), FixedWord("show")>>, "blank"),
     Command(<<FixedWord("ip"), FixedWord("address"), FixedWord("show")>>, "blank"),
     Command(<<FixedWord("ip"), FixedWord("address"), IPv4Address>>, "cmd_ip_address_ipv4"),
     Command(<<FixedWord("dhcp"), FixedWord("pool"), FixedWord("create"),
               IPv4Address, IPv4Address>>, "cmd_dhcp_pool_create"),
     Command(<<FixedWord("dhcp"), FixedWord("pool"), FixedWord("list")>>,
             "cmd_dhcp_pool_list") >>

(* create_command_tree: a node is the sequence of elements that leads to   *)
(* it.  Its children are the elements some command continues it with, and  *)
(* one handler for each command that ends there.                           *)
childs(node) ==
  { all_commands[i].elements[Len(node) + 1] :
      i \in { j \in DOMAIN all_commands :
                /\ Len(node) < Len(all_commands[j].elements)
                /\ SubSeq(all_commands[j].elements, 1, Len(node)) = node } }

handlers(node) == { i \in DOMAIN all_commands : all_commands[i].elements = node }

check_command_element(part, element) ==
  \/ element.type = "FIXED_WORD" /\ part = <<element.fixed_value>>
  \/ element.type = "IP_V4_ADDRESS" /\ \E a \in Addresses : part = <<a>>

-----------------------------------------------------------------------------
(* The bytes of keys that are not characters of the line.  The bytes that  *)
(* follow ESC are characters when they are read by themselves.             *)
Bytes == Characters \cup Addresses \cup {"TAB", "ENTER", "BACKSPACE", "ESC"}

ASSUME CharactersAssumption ==
  /\ {"SPACE", "[", "C", "D"} \subseteq Characters
  /\ {"version", "ip", "show", "address", "dhcp", "pool", "create", "list"}
       \subseteq Characters
  /\ Characters \cap Addresses = {}
  /\ (Characters \cup Addresses) \cap {"TAB", "ENTER", "BACKSPACE", "ESC"} = {}

ASSUME StrokesAssumption == Strokes \subseteq Seq(Bytes)

VARIABLES
  input,     \* bytes sent by the terminal and not read yet
  line,      \* current_command_input
  cursor,    \* current_command_input_cursor_pos
  pc,        \* "key", "TAB" or "ENTER" while a line is analysed, or "dead"
  at,        \* the analysis: where the next part of the line begins,
  node,      \*   the node reached (current),
  stack,     \*   and the values of its elements, the top last
  ran        \* the last line entered, with the command it ran and its arguments

vars == <<input, line, cursor, pc, at, node, stack, ran>>

analysis == <<pc, at, node, stack>>

Init == /\ input = <<>>
        /\ line = <<>> /\ cursor = 0
        /\ pc = "key" /\ at = 1 /\ node = <<>> /\ stack = <<>>
        /\ ran = <<>>

-----------------------------------------------------------------------------
(* The line editor *)

(* A key is pressed when what was sent before has been read. *)
Press(stroke) ==
  /\ input = <<>>
  /\ input' = stroke
  /\ UNCHANGED <<line, cursor, analysis, ran>>

(* getkey has returned a byte of this kind. *)
Key(bytes) == /\ pc = "key"
              /\ input # <<>>
              /\ Head(input) \in bytes

(* The key leaves this line and cursor. *)
Edit(l, c) == /\ line' = l
              /\ cursor' = c
              /\ ran' = <<>>
              /\ UNCHANGED analysis

(* SPACE and the default: the character goes to the end of the line,       *)
(* wherever the cursor is.                                                 *)
Type ==
  /\ Key(Characters \cup Addresses)
  /\ Append(line, Head(input)) \in Lines
  /\ input' = Tail(input)
  /\ Edit(Append(line, Head(input)), cursor + 1)

(* std::string::erase throws when it is given a position past the end. *)
Backspace ==
  /\ Key({"BACKSPACE"})
  /\ input' = Tail(input)
  /\ IF cursor - 1 > Len(line)
     THEN pc' = "dead" /\ UNCHANGED <<line, cursor, at, node, stack, ran>>
     ELSE IF cursor # 0
          THEN Edit(SubSeq(line, 1, cursor - 1) \o SubSeq(line, cursor + 1, Len(line)),
                    cursor - 1)
          ELSE Edit(line, cursor)

(* A faulty arrow, which moves past the end of the line. *)
MovedFar(ch_1, ch_2) ==
  IF ch_1 # "[" THEN cursor
  ELSE IF ch_2 = "D" /\ cursor # 0 THEN cursor - 1
       ELSE IF ch_2 = "C" THEN cursor + 1 ELSE cursor

Moved(ch_1, ch_2) ==
  IF ch_1 # "[" THEN cursor
  ELSE IF ch_2 = "D" /\ cursor # 0 THEN cursor - 1
       ELSE IF ch_2 = "C" /\ cursor < Len(line) THEN cursor + 1 ELSE cursor

(* Two more bytes are read, neither of which getkey waits for: each is     *)
(* there or comes too late, and is then a character to the loop.           *)
Escape ==
  /\ Key({"ESC"})
  /\ LET rest == Tail(input) IN
     \/ /\ Len(rest) >= 2
        /\ input' = SubSeq(rest, 3, Len(rest))
        /\ Edit(line, Moved(rest[1], rest[2]))
     \/ /\ Len(rest) >= 1
        /\ input' = Tail(rest)
        /\ Edit(line, cursor)
     \/ /\ input' = rest
        /\ Edit(line, cursor)

-----------------------------------------------------------------------------
(* analyze_command, which TAB and ENTER both call *)

Analyze ==
  /\ Key({"TAB", "ENTER"})
  /\ input' = Tail(input)
  /\ pc' = Head(input)
  /\ at' = 1 /\ node' = <<>> /\ stack' = <<>>
  /\ ran' = <<>>
  /\ UNCHANGED <<line, cursor>>

(* A part of the line ends before e, at a space or the end of the line.    *)
(* Spaces in a row are one separator to split: here there is an empty part *)
(* between them, which matches no element and is passed over.              *)
PartEnds(e) == /\ at <= Len(line)
               /\ e <= Len(line) => line[e] = "SPACE"
               /\ \A k \in at .. e - 1 : line[k] # "SPACE"

Part(e) == SubSeq(line, at, e - 1)

(* The value pushed for a part: an address, or a string. *)
RealValue(part, element) ==
  [type |-> IF element.type = "IP_V4_ADDRESS" THEN "IPv4Address" ELSE "string",
   value |-> part[1]]

(* A faulty analysis: only the arguments are pushed. *)
TakeWithoutWords(e) ==
  /\ pc \in {"TAB", "ENTER"}
  /\ PartEnds(e)
  /\ \E child \in childs(node) :
       /\ check_command_element(Part(e), child)
       /\ node' = Append(node, child)
       /\ stack' = IF child.type = "FIXED_WORD" THEN stack
                   ELSE Append(stack, RealValue(Part(e), child))
  /\ at' = e + 1
  /\ UNCHANGED <<input, line, cursor, pc, ran>>

(* The part is a child of the node. *)
Take(e) ==
  /\ pc \in {"TAB", "ENTER"}
  /\ PartEnds(e)
  /\ \E child \in childs(node) :
       /\ check_command_element(Part(e), child)
       /\ node' = Append(node, child)
       /\ stack' = Append(stack, RealValue(Part(e), child))
  /\ at' = e + 1
  /\ UNCHANGED <<input, line, cursor, pc, ran>>

(* It is not: it is passed over, and the analysis goes on. *)
Skip(e) ==
  /\ pc \in {"TAB", "ENTER"}
  /\ PartEnds(e)
  /\ \A child \in childs(node) : ~check_command_element(Part(e), child)
  /\ at' = e + 1
  /\ UNCHANGED <<input, line, cursor, pc, node, stack, ran>>

Analyzed(key) == pc = key /\ at > Len(line)

(* The result is overwritten before it is read again. *)
BackToKeys == pc' = "key" /\ at' = 1 /\ node' = <<>> /\ stack' = <<>>

(* TAB shows what may follow; prev is never ENTER. *)
Tab ==
  /\ Analyzed("TAB")
  /\ BackToKeys
  /\ UNCHANGED <<input, line, cursor, ran>>

IsAddress(i) == i \in DOMAIN stack /\ stack[i].type = "IPv4Address"

(* check_args_size and std::get do not throw. *)
ArgumentsFit(handler) ==
  /\ handler = "cmd_ip_address_ipv4" => Len(stack) = 3 /\ IsAddress(3)
  /\ handler = "cmd_dhcp_pool_create" => Len(stack) = 5 /\ IsAddress(5) /\ IsAddress(4)

(* A faulty handler, which takes the top of the stack for the first        *)
(* address.                                                                *)
ArgumentsReversed(handler) ==
  CASE handler = "cmd_ip_address_ipv4"  -> << stack[3].value >>
    [] handler = "cmd_dhcp_pool_create" -> << stack[5].value, stack[4].value >>
    [] OTHER -> <<>>

(* The addresses a handler takes off the stack, in the order it sends them. *)
Arguments(handler) ==
  CASE handler = "cmd_ip_address_ipv4"  -> << stack[3].value >>
    [] handler = "cmd_dhcp_pool_create" -> << stack[4].value, stack[5].value >>
    [] OTHER -> <<>>

(* The only child of the node is a handler. *)
Runs(i) == handlers(node) = {i} /\ childs(node) = {}

(* An exception that a handler throws is not caught. *)
Enter ==
  /\ Analyzed("ENTER")
  /\ IF \A i \in handlers(node) : Runs(i) => ArgumentsFit(all_commands[i].handler)
     THEN /\ ran' = IF \E i \in handlers(node) : Runs(i)
                    THEN LET i == CHOOSE i \in handlers(node) : Runs(i)
                         IN  [line |-> line, command |-> i,
                              arguments |-> Arguments(all_commands[i].handler)]
                    ELSE [line |-> line, command |-> 0, arguments |-> <<>>]
          /\ line' = <<>> /\ cursor' = 0
          /\ BackToKeys
     ELSE pc' = "dead" /\ UNCHANGED <<line, cursor, at, node, stack, ran>>
  /\ UNCHANGED input

-----------------------------------------------------------------------------

Next == \/ \E s \in Strokes : Press(s)
        \/ Type
        \/ Backspace
        \/ Escape
        \/ Analyze
        \/ \E e \in at .. Len(line) + 1 : Take(e) \/ Skip(e)
        \/ Tab
        \/ Enter

Spec == Init /\ [][Next]_vars

-----------------------------------------------------------------------------
(* Properties *)

Elements == UNION { { all_commands[i].elements[k] : k \in DOMAIN all_commands[i].elements } :
                    i \in DOMAIN all_commands }

Values == [type : {"IPv4Address", "string"}, value : Characters \cup Addresses]

TypeOK == /\ input \in Seq(Bytes)
          /\ line \in Seq(Characters \cup Addresses)
          /\ cursor \in 0 .. Len(line)
          /\ pc \in {"key", "TAB", "ENTER", "dead"}
          /\ at \in 1 .. Len(line) + 2
          /\ node \in Seq(Elements)
          /\ stack \in Seq(Values)

(* No line that can be typed ends the CLI: the handler that runs finds on  *)
(* the stack the arguments it takes off it (command_handlers.cpp:25), and  *)
(* erase is given a position in the line.                                  *)
NeverDies == pc # "dead"

(* The character at position p of a line is a word of its own. *)
IsWord(l, p) == /\ p = 1 \/ l[p - 1] = "SPACE"
                /\ p = Len(l) \/ l[p + 1] = "SPACE"

(* The words of the command are on the line in their order, words of no    *)
(* command between them passed over, and the arguments are the last ones.  *)
WasTyped(l, i, arguments) ==
  LET elements == all_commands[i].elements
  IN  \E found \in [DOMAIN elements -> DOMAIN l] :
        /\ \A j, k \in DOMAIN found : j < k => found[j] < found[k]
        /\ \A k \in DOMAIN found :
             /\ IsWord(l, found[k])
             /\ check_command_element(<< l[found[k]] >>, elements[k])
        /\ \A k \in DOMAIN arguments :
             arguments[k] = l[found[Len(elements) - Len(arguments) + k]]

(* A command that ran was on the line, and the addresses it is given are   *)
(* those of the line, the first one first.                                 *)
RunsWhatWasTyped ==
  ran # <<>> /\ ran.command # 0 => WasTyped(ran.line, ran.command, ran.arguments)

(* The line is the command: its words, one space apart. *)
IsCommand(l, i) ==
  LET elements == all_commands[i].elements
  IN  /\ Len(l) = 2 * Len(elements) - 1
      /\ \A k \in DOMAIN elements :
           /\ check_command_element(<< l[2 * k - 1] >>, elements[k])
           /\ k < Len(elements) => l[2 * k] = "SPACE"

(* The arguments are the addresses of the line, each in its place: a       *)
(* command's addresses are its last elements.                              *)
AddressesOf(arguments, l, i) ==
  LET elements == all_commands[i].elements
      before   == Len(elements) - Len(arguments)
  IN  \A k \in DOMAIN elements :
        /\ elements[k] = IPv4Address <=> k - before \in DOMAIN arguments
        /\ k - before \in DOMAIN arguments => arguments[k - before] = l[2 * k - 1]

(* A line that is a command and nothing else runs it with its addresses:   *)
(* no command of the table hides another.                                  *)
WholeCommandRuns ==
  ran # <<>> =>
    \A i \in DOMAIN all_commands :
      IsCommand(ran.line, i) =>
        ran.command = i /\ AddressesOf(ran.arguments, ran.line, i)

=============================================================================
