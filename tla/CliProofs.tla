------------------------------ MODULE CliProofs ------------------------------
(***************************************************************************)
(* The command line for every set of keys and lines: the cursor stays on   *)
(* the line, the handler that runs finds its arguments, what runs was      *)
(* typed, and a line that is a command runs that command.                  *)
(***************************************************************************)
EXTENDS Cli, SequenceTheorems, TLAPS

(* Each value on the stack was pushed for the element of the node at its   *)
(* place.                                                                  *)
StackMatches ==
  /\ Len(stack) = Len(node)
  /\ \A i \in DOMAIN node :
       node[i].type = "IP_V4_ADDRESS" => stack[i].type = "IPv4Address"

AnalysisType ==
  /\ pc \in {"key", "TAB", "ENTER", "dead"}
  /\ at \in Nat \ {0}
  /\ node \in Seq(Elements)
  /\ stack \in Seq(Values)

EditorType ==
  /\ input \in Seq(Bytes)
  /\ line \in Seq(Characters \cup Addresses)
  /\ cursor \in 0 .. Len(line)

(* What one key or one part of a line preserves. *)
IInv == EditorType /\ AnalysisType /\ at <= Len(line) + 2 /\ StackMatches /\ pc # "dead"
        /\ (pc = "key" => at = 1 /\ node = <<>> /\ stack = <<>>)

-----------------------------------------------------------------------------

(* A child of a node is an element of the table. *)
LEMMA ChildIsElement == ASSUME NEW n \in Seq(Elements), NEW e \in childs(n)
                        PROVE  e \in Elements
<1>1. PICK j \in DOMAIN all_commands :
        Len(n) < Len(all_commands[j].elements) /\ e = all_commands[j].elements[Len(n) + 1]
  BY DEF childs
<1>2. Len(all_commands[j].elements) \in Nat
      /\ DOMAIN all_commands[j].elements = 1 .. Len(all_commands[j].elements)
  BY DEF all_commands, Command
<1>3. Len(n) + 1 \in DOMAIN all_commands[j].elements
  BY <1>1, <1>2
<1>4. QED
  BY <1>1, <1>3 DEF Elements

(* The elements that lead to a handler end in the addresses it takes.      *)
LEMMA HandlerElements ==
  ASSUME NEW i \in DOMAIN all_commands
  PROVE  LET elements == all_commands[i].elements
             handler  == all_commands[i].handler
         IN  /\ handler = "cmd_ip_address_ipv4" =>
                  Len(elements) = 3 /\ elements[3].type = "IP_V4_ADDRESS"
             /\ handler = "cmd_dhcp_pool_create" =>
                  /\ Len(elements) = 5
                  /\ elements[4].type = "IP_V4_ADDRESS"
                  /\ elements[5].type = "IP_V4_ADDRESS"
<1>1. i \in 1 .. 6
  BY DEF all_commands
<1>2. CASE i = 1  BY <1>2 DEF all_commands, Command, FixedWord, IPv4Address, Variable
<1>3. CASE i = 2  BY <1>3 DEF all_commands, Command, FixedWord, IPv4Address, Variable
<1>4. CASE i = 3  BY <1>4 DEF all_commands, Command, FixedWord, IPv4Address, Variable
<1>5. CASE i = 4  BY <1>5 DEF all_commands, Command, FixedWord, IPv4Address, Variable
<1>6. CASE i = 5  BY <1>6 DEF all_commands, Command, FixedWord, IPv4Address, Variable
<1>7. CASE i = 6  BY <1>7 DEF all_commands, Command, FixedWord, IPv4Address, Variable
<1>8. QED
  BY <1>1, <1>2, <1>3, <1>4, <1>5, <1>6, <1>7

(* A handler that is reached finds its arguments on the stack. *)
LEMMA ReachedHandlerFits ==
  ASSUME StackMatches, node \in Seq(Elements), NEW i \in handlers(node)
  PROVE  ArgumentsFit(all_commands[i].handler)
<1>1. i \in DOMAIN all_commands /\ all_commands[i].elements = node
  BY DEF handlers
<1>2. DOMAIN node = 1 .. Len(node) /\ Len(stack) = Len(node)
  BY DEF StackMatches
<1>3. CASE all_commands[i].handler = "cmd_ip_address_ipv4"
  <2>1. Len(node) = 3 /\ node[3].type = "IP_V4_ADDRESS"
    BY <1>1, <1>3, HandlerElements
  <2>2. stack[3].type = "IPv4Address"
    BY <2>1, <1>2 DEF StackMatches
  <2>3. QED
    BY <1>3, <2>1, <2>2, <1>2 DEF ArgumentsFit, IsAddress
<1>4. CASE all_commands[i].handler = "cmd_dhcp_pool_create"
  <2>1. Len(node) = 5 /\ node[4].type = "IP_V4_ADDRESS" /\ node[5].type = "IP_V4_ADDRESS"
    BY <1>1, <1>4, HandlerElements
  <2>2. stack[4].type = "IPv4Address" /\ stack[5].type = "IPv4Address"
    BY <2>1, <1>2 DEF StackMatches
  <2>3. QED
    BY <1>4, <2>1, <2>2, <1>2 DEF ArgumentsFit, IsAddress
<1>5. QED
  BY <1>3, <1>4 DEF ArgumentsFit

-----------------------------------------------------------------------------
(* The steps of the editor. *)

(* Keys are sequences of bytes, of which getkey takes the first. *)
LEMMA InputStep ==
  ASSUME input \in Seq(Bytes), input # <<>>
  PROVE  /\ Tail(input) \in Seq(Bytes)
         /\ Head(input) \in Bytes
  BY HeadTailProperties

(* The key leaves a line and a cursor on it. *)
LEMMA EditPreserves ==
  ASSUME IInv, pc = "key", input' \in Seq(Bytes),
         NEW l \in Seq(Characters \cup Addresses), NEW c \in 0 .. Len(l), Edit(l, c)
  PROVE  IInv'
<1>1. at = 1 /\ node = <<>> /\ stack = <<>>
  BY DEF IInv
<1>2. pc' = "key" /\ at' = 1 /\ node' = <<>> /\ stack' = <<>> /\ line' = l /\ cursor' = c
  BY <1>1 DEF Edit, analysis
<1>3. EditorType'
  BY <1>2 DEF EditorType
<1>4. AnalysisType' /\ StackMatches'
  BY <1>1, <1>2 DEF IInv, AnalysisType, StackMatches
<1>5. at' <= Len(line') + 2
  <2>1. Len(l) \in Nat
    OBVIOUS
  <2>2. QED
    BY <2>1, <1>2
<1>6. QED
  BY <1>2, <1>3, <1>4, <1>5 DEF IInv

LEMMA TypePreserves == IInv /\ Type => IInv'
<1> SUFFICES ASSUME IInv, Type PROVE IInv'
  OBVIOUS
<1>1. pc = "key" /\ input # <<>> /\ Head(input) \in Characters \cup Addresses
  BY DEF Type, Key
<1>2. input' \in Seq(Bytes)
  BY <1>1, InputStep DEF Type, IInv, EditorType
<1>3. /\ Append(line, Head(input)) \in Seq(Characters \cup Addresses)
      /\ Len(Append(line, Head(input))) = Len(line) + 1
  BY <1>1 DEF IInv, EditorType
<1>4. cursor + 1 \in 0 .. Len(Append(line, Head(input)))
  BY <1>3 DEF IInv, EditorType
<1>5. Edit(Append(line, Head(input)), cursor + 1)
  BY DEF Type
<1>6. QED
  BY <1>1, <1>2, <1>3, <1>4, <1>5, EditPreserves

LEMMA BackspacePreserves == IInv /\ Backspace => IInv'
<1> SUFFICES ASSUME IInv, Backspace PROVE IInv'
  OBVIOUS
<1> DEFINE Erased == SubSeq(line, 1, cursor - 1) \o SubSeq(line, cursor + 1, Len(line))
<1>1. /\ pc = "key" /\ input # <<>>
      /\ line \in Seq(Characters \cup Addresses)
      /\ cursor \in 0 .. Len(line) /\ Len(line) \in Nat
  BY DEF Backspace, Key, IInv, EditorType
<1>2. input' \in Seq(Bytes)
  BY <1>1, InputStep DEF Backspace, IInv, EditorType
<1>3. ~(cursor - 1 > Len(line))
  BY <1>1
<1>4. CASE cursor = 0
  <2>1. Edit(line, cursor)
    BY <1>3, <1>4 DEF Backspace
  <2>2. QED
    BY <1>1, <1>2, <2>1, EditPreserves
<1>5. CASE cursor # 0
  <2>1. Edit(Erased, cursor - 1)
    BY <1>3, <1>5 DEF Backspace
  <2>2. /\ SubSeq(line, 1, cursor - 1) \in Seq(Characters \cup Addresses)
        /\ Len(SubSeq(line, 1, cursor - 1)) = cursor - 1
    BY <1>1, <1>5, SubSeqProperties
  <2>3. /\ SubSeq(line, cursor + 1, Len(line)) \in Seq(Characters \cup Addresses)
        /\ Len(SubSeq(line, cursor + 1, Len(line))) = Len(line) - cursor
    BY <1>1, <1>5, SubSeqProperties
  <2>4. /\ Erased \in Seq(Characters \cup Addresses)
        /\ Len(Erased) = Len(SubSeq(line, 1, cursor - 1))
                           + Len(SubSeq(line, cursor + 1, Len(line)))
    BY <2>2, <2>3, ConcatProperties
  <2> HIDE DEF Erased
  <2>5. Len(Erased) = (cursor - 1) + (Len(line) - cursor)
    BY <2>2, <2>3, <2>4, Zenon
  <2>6. cursor - 1 \in 0 .. Len(Erased)
    BY <1>1, <1>5, <2>5
  <2>7. QED
    BY <1>1, <1>2, <2>1, <2>4, <2>6, EditPreserves
<1>6. QED
  BY <1>4, <1>5

LEMMA EscapePreserves == IInv /\ Escape => IInv'
<1> SUFFICES ASSUME IInv, Escape PROVE IInv'
  OBVIOUS
<1>1. /\ pc = "key" /\ input # <<>> /\ input \in Seq(Bytes)
      /\ line \in Seq(Characters \cup Addresses)
      /\ cursor \in 0 .. Len(line) /\ Len(line) \in Nat
  BY DEF Escape, Key, IInv, EditorType
<1>2. PICK rest : rest = Tail(input)
  OBVIOUS
<1>3. rest \in Seq(Bytes)
  BY <1>1, <1>2, InputStep
<1>4. \A ch_1, ch_2 : Moved(ch_1, ch_2) \in 0 .. Len(line)
  BY <1>1 DEF Moved
<1>5. CASE /\ Len(rest) >= 2
           /\ input' = SubSeq(rest, 3, Len(rest))
           /\ Edit(line, Moved(rest[1], rest[2]))
  <2>1. input' \in Seq(Bytes)
    BY <1>3, <1>5, SubSeqProperties
  <2>2. QED
    BY <1>1, <1>4, <1>5, <2>1, EditPreserves
<1>6. CASE /\ Len(rest) >= 1
           /\ input' = Tail(rest)
           /\ Edit(line, cursor)
  <2>1. input' \in Seq(Bytes)
    BY <1>3, <1>6, HeadTailProperties
  <2>2. QED
    BY <1>1, <1>6, <2>1, EditPreserves
<1>7. CASE input' = rest /\ Edit(line, cursor)
  BY <1>1, <1>3, <1>7, EditPreserves
<1>8. QED
  BY <1>2, <1>5, <1>6, <1>7 DEF Escape

-----------------------------------------------------------------------------
(* The steps of the analysis. *)

LEMMA PressPreserves == ASSUME IInv, NEW s \in Strokes, Press(s) PROVE IInv'
<1>1. input' \in Seq(Bytes) /\ UNCHANGED <<line, cursor, pc, at, node, stack>>
  BY StrokesAssumption DEF Press, analysis
<1>2. QED
  BY <1>1 DEF IInv, EditorType, AnalysisType, StackMatches

LEMMA AnalyzePreserves == IInv /\ Analyze => IInv'
<1> SUFFICES ASSUME IInv, Analyze PROVE IInv'
  OBVIOUS
<1>1. /\ input # <<>> /\ Head(input) \in {"TAB", "ENTER"}
      /\ pc' = Head(input) /\ at' = 1 /\ node' = <<>> /\ stack' = <<>>
      /\ UNCHANGED <<line, cursor>>
  BY DEF Analyze, Key
<1>2. input' \in Seq(Bytes)
  BY <1>1, InputStep DEF Analyze, IInv, EditorType
<1>3. EditorType'
  BY <1>1, <1>2 DEF IInv, EditorType
<1>4. AnalysisType' /\ StackMatches' /\ pc' # "dead" /\ pc' # "key"
  BY <1>1 DEF AnalysisType, StackMatches
<1>5. at' <= Len(line') + 2
  <2>1. Len(line) \in Nat
    BY DEF IInv, EditorType
  <2>2. QED
    BY <1>1, <2>1
<1>6. QED
  BY <1>3, <1>4, <1>5 DEF IInv

LEMMA TakePreserves ==
  ASSUME IInv, NEW e \in at .. Len(line) + 1, Take(e) PROVE IInv'
<1>1. /\ pc \in {"TAB", "ENTER"} /\ at' = e + 1
      /\ UNCHANGED <<input, line, cursor, pc>>
  BY DEF Take
<1>2. PICK child \in childs(node) :
        /\ check_command_element(Part(e), child)
        /\ node' = Append(node, child)
        /\ stack' = Append(stack, RealValue(Part(e), child))
  BY DEF Take
<1>3. /\ node \in Seq(Elements) /\ stack \in Seq(Values) /\ Len(stack) = Len(node)
      /\ at \in Nat \ {0} /\ Len(line) \in Nat
  BY DEF IInv, AnalysisType, StackMatches, EditorType
<1>4. child \in Elements
  BY <1>2, <1>3, ChildIsElement
<1>5. PICK v : v = RealValue(Part(e), child)
  OBVIOUS
<1>6. v \in Values /\ (child.type = "IP_V4_ADDRESS" => v.type = "IPv4Address")
  <2>1. Part(e)[1] \in Characters \cup Addresses
    <3>1. CASE child.type = "IP_V4_ADDRESS"
      <4>1. child.type # "FIXED_WORD"
        BY <3>1
      <4>2. PICK a \in Addresses : Part(e) = <<a>>
        BY <1>2, <4>1 DEF check_command_element
      <4>3. QED
        BY <4>2
    <3>2. CASE child.type = "FIXED_WORD"
      <4>1. child.type # "IP_V4_ADDRESS"
        BY <3>2
      <4>2. Part(e) = << child.fixed_value >>
        BY <1>2, <4>1 DEF check_command_element
      <4>3. Part(e) = SubSeq(line, at, e - 1) /\ line \in Seq(Characters \cup Addresses)
        BY DEF Part, IInv, EditorType
      <4>4. Part(e) \in Seq(Characters \cup Addresses)
        <5>1. e - 1 \in at - 1 .. Len(line)
          BY <1>3
        <5>2. QED
          BY <4>3, <5>1, <1>3, SubSeqProperties
      <4>5. Len(Part(e)) = 1 /\ Part(e)[1] = child.fixed_value
        BY <4>2
      <4>6. PICK part : part = Part(e)
        OBVIOUS
      <4>7. part[1] \in Characters \cup Addresses
        BY <4>4, <4>5, <4>6
      <4>8. QED
        BY <4>6, <4>7
    <3>3. QED
      BY <1>2, <3>1, <3>2 DEF check_command_element
  <2>2. QED
    BY <2>1, <1>5 DEF RealValue, Values
<1>7. node' \in Seq(Elements) /\ stack' \in Seq(Values)
  BY <1>2, <1>3, <1>4, <1>5, <1>6
<1>8. StackMatches'
  <2>1. /\ Len(node') = Len(node) + 1 /\ Len(stack') = Len(stack) + 1
        /\ \A i \in 1 .. Len(node) : node'[i] = node[i] /\ stack'[i] = stack[i]
        /\ node'[Len(node) + 1] = child /\ stack'[Len(node) + 1] = v
    BY <1>2, <1>3, <1>4, <1>5, <1>6, AppendProperties
  <2>2. DOMAIN node' = 1 .. Len(node) + 1 /\ DOMAIN node = 1 .. Len(node)
    BY <1>3, <1>7, <2>1
  <2>3. \A i \in DOMAIN node :
          node[i].type = "IP_V4_ADDRESS" => stack[i].type = "IPv4Address"
    BY DEF IInv, StackMatches
  <2>4. ASSUME NEW i \in DOMAIN node', node'[i].type = "IP_V4_ADDRESS"
        PROVE  stack'[i].type = "IPv4Address"
    <3>1. Len(node) \in Nat
      BY <1>3
    <3>2. CASE i = Len(node) + 1
      BY <2>1, <2>4, <1>6, <3>2
    <3>3. CASE i \in 1 .. Len(node)
      BY <2>1, <2>2, <2>3, <2>4, <3>3
    <3>4. QED
      BY <2>2, <3>1, <3>2, <3>3
  <2>5. QED
    BY <2>1, <2>4, <1>3 DEF StackMatches
<1>9. EditorType' /\ AnalysisType'
  BY <1>1, <1>3, <1>7 DEF IInv, EditorType, AnalysisType
<1>10. at' <= Len(line') + 2
  BY <1>1, <1>3
<1>11. QED
  BY <1>1, <1>8, <1>9, <1>10 DEF IInv

LEMMA SkipPreserves ==
  ASSUME IInv, NEW e \in at .. Len(line) + 1, Skip(e) PROVE IInv'
<1>1. /\ pc \in {"TAB", "ENTER"} /\ at' = e + 1
      /\ UNCHANGED <<input, line, cursor, pc, node, stack>>
  BY DEF Skip
<1>2. at \in Nat \ {0} /\ Len(line) \in Nat
  BY DEF IInv, AnalysisType, EditorType
<1>3. at' \in Nat \ {0} /\ at' <= Len(line') + 2
  BY <1>1, <1>2
<1>4. EditorType' /\ AnalysisType' /\ StackMatches'
  BY <1>1, <1>3 DEF IInv, EditorType, AnalysisType, StackMatches
<1>5. QED
  BY <1>1, <1>3, <1>4 DEF IInv

(* The analysis is over: the handler, if there is one, does not throw. *)
LEMMA EndPreserves == IInv /\ (Tab \/ Enter) => IInv'
<1>1. ASSUME IInv, BackToKeys, UNCHANGED input,
             line' \in Seq(Characters \cup Addresses), cursor' \in 0 .. Len(line')
      PROVE  IInv'
  <2>1. pc' = "key" /\ at' = 1 /\ node' = <<>> /\ stack' = <<>>
    BY <1>1 DEF BackToKeys
  <2>2. EditorType'
    BY <1>1 DEF IInv, EditorType
  <2>3. AnalysisType' /\ StackMatches'
    BY <2>1 DEF AnalysisType, StackMatches
  <2>4. Len(line') \in Nat
    BY <1>1
  <2>5. QED
    BY <2>1, <2>2, <2>3, <2>4 DEF IInv
<1>2. ASSUME IInv, Tab PROVE IInv'
  BY <1>1, <1>2 DEF Tab, IInv, EditorType
<1>3. ASSUME IInv, Enter PROVE IInv'
  <2>1. \A i \in handlers(node) : ArgumentsFit(all_commands[i].handler)
    BY <1>3, ReachedHandlerFits DEF IInv, AnalysisType
  <2>2. BackToKeys /\ UNCHANGED input /\ line' = <<>> /\ cursor' = 0
    BY <1>3, <2>1 DEF Enter
  <2>3. line' \in Seq(Characters \cup Addresses) /\ cursor' \in 0 .. Len(line')
    BY <2>2
  <2>4. QED
    BY <1>1, <1>3, <2>2, <2>3
<1>4. QED
  BY <1>2, <1>3

-----------------------------------------------------------------------------

LEMMA StepPreserves == IInv /\ [Next]_vars => IInv'
<1> SUFFICES ASSUME IInv, [Next]_vars PROVE IInv'
  OBVIOUS
<1>1. ASSUME NEW s \in Strokes, Press(s) PROVE IInv'
  BY <1>1, PressPreserves
<1>2. CASE Type
  BY <1>2, TypePreserves
<1>3. CASE Backspace
  BY <1>3, BackspacePreserves
<1>4. CASE Escape
  BY <1>4, EscapePreserves
<1>5. CASE Analyze
  BY <1>5, AnalyzePreserves
<1>6. ASSUME NEW e \in at .. Len(line) + 1, Take(e) \/ Skip(e) PROVE IInv'
  BY <1>6, TakePreserves, SkipPreserves
<1>7. CASE Tab \/ Enter
  BY <1>7, EndPreserves
<1>8. CASE UNCHANGED vars
  BY <1>8 DEF vars, IInv, EditorType, AnalysisType, StackMatches
<1>9. QED
  BY <1>1, <1>2, <1>3, <1>4, <1>5, <1>6, <1>7, <1>8 DEF Next

(* The inductive invariant holds in every state. *)
LEMMA Invariant == Spec => []IInv
<1>1. Init => IInv
  BY DEF Init, IInv, EditorType, AnalysisType, StackMatches
<1>2. QED
  BY <1>1, StepPreserves, PTL DEF Spec

LEMMA InvariantType == IInv => TypeOK /\ NeverDies
<1> SUFFICES ASSUME IInv PROVE TypeOK /\ NeverDies
  OBVIOUS
<1>1. Len(line) \in Nat /\ at \in 1 .. Len(line) + 2
  BY DEF IInv, EditorType, AnalysisType
<1>2. QED
  BY <1>1 DEF IInv, EditorType, AnalysisType, TypeOK, NeverDies

(* The variables of the command line keep their types: the cursor is on    *)
(* the line, whatever is typed, erased or moved over, and the analysis     *)
(* never passes the end of the line by more than the separator that is not *)
(* there (main.cpp's loop over the parts of the line).                     *)
THEOREM CliTypeCorrect == Spec => []TypeOK
BY Invariant, InvariantType, PTL

(* Nothing that can be typed ends the CLI: erase is always given a         *)
(* position in the line, and every handler that runs finds the arguments   *)
(* it takes.                                                               *)
THEOREM CliNeverDies == Spec => []NeverDies
BY Invariant, InvariantType, PTL

-----------------------------------------------------------------------------
(* What an analysis has found in the line. *)

(* The elements of the node are words of the line before the next part, in *)
(* their order, and their values are on the stack.                         *)
FoundAt(found) ==
  /\ found \in [DOMAIN node -> DOMAIN line]
  /\ \A i, j \in DOMAIN node : i < j => found[i] < found[j]
  /\ \A i \in DOMAIN node :
       /\ found[i] < at
       /\ IsWord(line, found[i])
       /\ check_command_element(<< line[found[i]] >>, node[i])
       /\ stack[i].value = line[found[i]]

FoundInLine == \E found : FoundAt(found)

(* The next part begins the line, or follows a space, or there is none. *)
AtPart == at = 1 \/ at > Len(line) + 1 \/ line[at - 1] = "SPACE"

FoundInv == FoundInLine /\ AtPart /\ RunsWhatWasTyped

(* A part that matches an element is one character. *)
LEMMA PartMatches ==
  ASSUME IInv, NEW e \in at .. Len(line) + 1, PartEnds(e),
         NEW child, check_command_element(Part(e), child)
  PROVE  e = at + 1 /\ at \in DOMAIN line /\ Part(e) = << line[at] >>
<1>1. /\ line \in Seq(Characters \cup Addresses) /\ at \in Nat \ {0} /\ Len(line) \in Nat
      /\ DOMAIN line = 1 .. Len(line)
  BY LenProperties DEF IInv, EditorType, AnalysisType
<1>2. PICK x : Part(e) = <<x>>
  BY DEF check_command_element
<1>3. PICK part : part = SubSeq(line, at, e - 1)
  OBVIOUS
<1>4. part = <<x>> /\ Len(part) = 1 /\ part[1] = x
  <2>1. part = <<x>>
    BY <1>2, <1>3, Zenon DEF Part
  <2>2. QED
    BY <2>1
<1>5. /\ Len(part) = IF at <= e - 1 THEN (e - 1) - at + 1 ELSE 0
      /\ \A i \in 1 .. (e - 1) - at + 1 : part[i] = line[at + i - 1]
  BY <1>1, <1>3, SubSeqProperties
<1>6. e = at + 1
  BY <1>1, <1>4, <1>5
<1>7. part[1] = line[at]
  BY <1>1, <1>5, <1>6
<1>8. at \in DOMAIN line
  BY <1>1 DEF PartEnds
<1>9. QED
  BY <1>2, <1>4, <1>6, <1>7, <1>8

(* An empty node has been found anywhere. *)
LEMMA NothingFound ==
  ASSUME node' = <<>>, at' = 1 PROVE FoundInLine' /\ AtPart'
<1>1. FoundAt(<<>>)'
  BY DEF FoundAt
<1>2. QED
  BY <1>1 DEF FoundInLine, AtPart

LEMMA TakeFound ==
  ASSUME IInv, FoundInv, NEW e \in at .. Len(line) + 1, Take(e)
  PROVE  FoundInv'
<1>1. /\ pc \in {"TAB", "ENTER"} /\ at' = e + 1 /\ PartEnds(e)
      /\ line' = line /\ ran' = ran
  BY DEF Take
<1>2. PICK child \in childs(node) :
        /\ check_command_element(Part(e), child)
        /\ node' = Append(node, child)
        /\ stack' = Append(stack, RealValue(Part(e), child))
  BY DEF Take
<1>3. e = at + 1 /\ at \in DOMAIN line /\ Part(e) = << line[at] >>
  BY <1>1, <1>2, PartMatches
<1>4. /\ node \in Seq(Elements) /\ stack \in Seq(Values) /\ Len(stack) = Len(node)
      /\ at \in Nat \ {0} /\ Len(line) \in Nat /\ DOMAIN line = 1 .. Len(line)
      /\ Len(node) \in Nat /\ DOMAIN node = 1 .. Len(node)
  BY LenProperties DEF IInv, AnalysisType, StackMatches, EditorType
<1>5. child \in Elements /\ node' \in Seq(Elements) /\ stack' \in Seq(Values)
  <2>1. IInv'
    BY TakePreserves
  <2>2. QED
    BY <2>1, <1>2, <1>4, ChildIsElement DEF IInv, AnalysisType
<1>6. PICK v : v = RealValue(Part(e), child)
  OBVIOUS
<1>7. v.value = line[at]
  BY <1>3, <1>6 DEF RealValue
<1>8. /\ DOMAIN node' = 1 .. Len(node) + 1
      /\ \A i \in 1 .. Len(node) : node'[i] = node[i] /\ stack'[i] = stack[i]
      /\ node'[Len(node) + 1] = child /\ stack'[Len(node) + 1] = v
  <2>1. /\ \A i \in 1 .. Len(node) : node'[i] = node[i]
        /\ node'[Len(node) + 1] = child /\ Len(node') = Len(node) + 1
    BY <1>2, <1>4, <1>5, AppendProperties
  <2>2. /\ \A i \in 1 .. Len(node) : stack'[i] = stack[i]
        /\ stack'[Len(node) + 1] = v
    BY <1>2, <1>4, <1>5, <1>6
  <2>3. DOMAIN node' = 1 .. Len(node')
    BY <1>5, LenProperties
  <2>4. QED
    BY <2>1, <2>2, <2>3
<1>9. IsWord(line, at)
  <2>1. at = 1 \/ line[at - 1] = "SPACE"
    BY <1>3, <1>4 DEF FoundInv, AtPart
  <2>2. at = Len(line) \/ line[at + 1] = "SPACE"
    BY <1>1, <1>3, <1>4 DEF PartEnds
  <2>3. QED
    BY <2>1, <2>2 DEF IsWord
<1>10. check_command_element(<< line[at] >>, child)
  BY <1>2, <1>3
<1>11. PICK found : FoundAt(found)
  BY DEF FoundInv, FoundInLine
<1>12. /\ found \in [DOMAIN node -> DOMAIN line]
       /\ \A i, j \in DOMAIN node : i < j => found[i] < found[j]
       /\ \A i \in DOMAIN node :
            /\ found[i] < at
            /\ IsWord(line, found[i])
            /\ check_command_element(<< line[found[i]] >>, node[i])
            /\ stack[i].value = line[found[i]]
  BY <1>11 DEF FoundAt
<1>13. PICK next :
         next = [i \in 1 .. Len(node) + 1 |-> IF i <= Len(node) THEN found[i] ELSE at]
  OBVIOUS
<1>14. FoundAt(next)'
  <2>1. /\ \A i \in 1 .. Len(node) : next[i] = found[i] /\ found[i] \in DOMAIN line
        /\ next[Len(node) + 1] = at
        /\ next \in [1 .. Len(node) + 1 -> DOMAIN line]
    <3>1. \A i \in 1 .. Len(node) : found[i] \in DOMAIN line
      BY <1>4, <1>12
    <3>2. /\ \A i \in 1 .. Len(node) : next[i] = found[i]
          /\ next[Len(node) + 1] = at
      BY <1>4, <1>13
    <3>3. \A i \in 1 .. Len(node) + 1 :
            (IF i <= Len(node) THEN found[i] ELSE at) \in DOMAIN line
      BY <3>1, <1>3, <1>4
    <3>4. QED
      BY <3>1, <3>2, <3>3, <1>13, Zenon
  <2>2. next \in [DOMAIN node' -> DOMAIN line']
    BY <2>1, <1>1, <1>8
  <2>3. ASSUME NEW i \in 1 .. Len(node) + 1, NEW j \in 1 .. Len(node) + 1, i < j
        PROVE  next[i] < next[j]
    <3>1. i \in 1 .. Len(node)
      BY <2>3, <1>4
    <3>2. CASE j = Len(node) + 1
      BY <3>1, <3>2, <2>1, <1>4, <1>12
    <3>3. CASE j \in 1 .. Len(node)
      BY <3>1, <3>3, <2>1, <2>3, <1>4, <1>12
    <3>4. QED
      BY <3>2, <3>3, <1>4
  <2>4. ASSUME NEW i \in 1 .. Len(node) + 1
        PROVE  /\ next[i] < at'
               /\ IsWord(line', next[i])
               /\ check_command_element(<< line'[next[i]] >>, node'[i])
               /\ stack'[i].value = line'[next[i]]
    <3>1. CASE i = Len(node) + 1
      <4>1. next[i] = at /\ node'[i] = child /\ stack'[i] = v
        BY <3>1, <2>1, <1>8
      <4>2. at < at'
        BY <1>1, <1>3, <1>4
      <4>3. QED
        BY <4>1, <4>2, <1>1, <1>7, <1>9, <1>10
    <3>2. CASE i \in 1 .. Len(node)
      <4>1. /\ next[i] = found[i] /\ node'[i] = node[i] /\ stack'[i] = stack[i]
            /\ i \in DOMAIN node
        BY <3>2, <2>1, <1>4, <1>8
      <4>2. /\ found[i] \in DOMAIN line
            /\ found[i] < at
            /\ IsWord(line, found[i])
            /\ check_command_element(<< line[found[i]] >>, node[i])
            /\ stack[i].value = line[found[i]]
        BY <4>1, <1>12
      <4>3. found[i] < at'
        BY <4>2, <1>1, <1>3, <1>4
      <4>4. QED
        BY <4>1, <4>2, <4>3, <1>1
    <3>3. QED
      BY <3>1, <3>2, <1>4
  <2>5. /\ \A i, j \in DOMAIN node' : i < j => next[i] < next[j]
        /\ \A i \in DOMAIN node' :
             /\ next[i] < at'
             /\ IsWord(line', next[i])
             /\ check_command_element(<< line'[next[i]] >>, node'[i])
             /\ stack'[i].value = line'[next[i]]
    BY <2>3, <2>4, <1>8, Zenon
  <2>6. QED
    BY <2>2, <2>5 DEF FoundAt
<1>15. AtPart'
  BY <1>1, <1>3, <1>4 DEF AtPart, PartEnds
<1>16. RunsWhatWasTyped'
  BY <1>1 DEF FoundInv, RunsWhatWasTyped
<1>17. QED
  BY <1>14, <1>15, <1>16 DEF FoundInv, FoundInLine

LEMMA SkipFound ==
  ASSUME IInv, FoundInv, NEW e \in at .. Len(line) + 1, Skip(e)
  PROVE  FoundInv'
<1>1. /\ at' = e + 1 /\ PartEnds(e)
      /\ UNCHANGED <<line, node, stack, ran>>
  BY DEF Skip
<1>2. at \in Nat \ {0} /\ Len(line) \in Nat /\ DOMAIN line = 1 .. Len(line)
  BY LenProperties DEF IInv, AnalysisType, EditorType
<1>3. PICK found : FoundAt(found)
  BY DEF FoundInv, FoundInLine
<1>4. \A i \in DOMAIN node : found[i] \in DOMAIN line /\ found[i] < at
  BY <1>3 DEF FoundAt
<1>5. \A i \in DOMAIN node : found[i] < at'
  <2>1. at < at' /\ at' \in Int
    BY <1>1, <1>2
  <2>2. ASSUME NEW i \in DOMAIN node PROVE found[i] < at'
    <3>1. found[i] \in 1 .. Len(line) /\ found[i] < at
      BY <1>2, <1>4
    <3>2. QED
      BY <2>1, <3>1, <1>2
  <2>3. QED
    BY <2>2
<1>6. FoundAt(found)'
  BY <1>1, <1>3, <1>5 DEF FoundAt
<1>7. AtPart'
  BY <1>1, <1>2 DEF AtPart, PartEnds
<1>8. RunsWhatWasTyped'
  BY <1>1 DEF FoundInv, RunsWhatWasTyped
<1>9. QED
  BY <1>6, <1>7, <1>8 DEF FoundInv, FoundInLine

(* The command that runs is the node that was reached. *)
LEMMA EnterRuns ==
  ASSUME IInv, Enter
  PROVE  /\ node' = <<>> /\ at' = 1
         /\ ran'.line = line
         /\ \/ /\ ran'.command \in handlers(node) /\ Runs(ran'.command)
               /\ ran'.arguments = Arguments(all_commands[ran'.command].handler)
            \/ /\ ran'.command = 0
               /\ \A i \in handlers(node) : ~Runs(i)
<1>1. \A i \in handlers(node) : ArgumentsFit(all_commands[i].handler)
  BY ReachedHandlerFits DEF IInv, AnalysisType
<1>2. /\ ran' = IF \E i \in handlers(node) : Runs(i)
                THEN LET i == CHOOSE i \in handlers(node) : Runs(i)
                     IN  [line |-> line, command |-> i,
                          arguments |-> Arguments(all_commands[i].handler)]
                ELSE [line |-> line, command |-> 0, arguments |-> <<>>]
      /\ BackToKeys
  BY <1>1 DEF Enter
<1>3. node' = <<>> /\ at' = 1
  BY <1>2 DEF BackToKeys
<1>4. CASE \E i \in handlers(node) : Runs(i)
  <2>1. PICK i : i = CHOOSE j \in handlers(node) : Runs(j)
    OBVIOUS
  <2>2. i \in handlers(node) /\ Runs(i)
    BY <2>1, <1>4
  <2>3. ran' = [line |-> line, command |-> i,
                arguments |-> Arguments(all_commands[i].handler)]
    BY <2>1, <1>2, <1>4
  <2>4. ran'.line = line /\ ran'.command = i
        /\ ran'.arguments = Arguments(all_commands[i].handler)
    BY <2>3
  <2>5. QED
    BY <2>2, <2>4, <1>3
<1>5. CASE \A i \in handlers(node) : ~Runs(i)
  <2>1. ran' = [line |-> line, command |-> 0, arguments |-> <<>>]
    BY <1>2, <1>5
  <2>2. ran'.line = line /\ ran'.command = 0
    BY <2>1
  <2>3. QED
    BY <2>2, <1>3, <1>5
<1>6. QED
  BY <1>4, <1>5

(* The arguments are the last values of the stack. *)
LEMMA ArgumentsAreLast ==
  ASSUME NEW i \in DOMAIN all_commands
  PROVE  LET handler   == all_commands[i].handler
             arguments == Arguments(handler)
             n         == Len(all_commands[i].elements)
         IN  \A k \in DOMAIN arguments :
               /\ Len(arguments) \in Nat /\ n \in Nat
               /\ n - Len(arguments) + k \in 1 .. n
               /\ arguments[k] = stack[n - Len(arguments) + k].value
<1>1. CASE all_commands[i].handler = "cmd_ip_address_ipv4"
  <2>1. Arguments(all_commands[i].handler) = << stack[3].value >>
    BY <1>1 DEF Arguments
  <2>2. PICK a : a = << stack[3].value >>
    OBVIOUS
  <2>3. DOMAIN a = {1} /\ Len(a) = 1 /\ a[1] = stack[3].value
    BY <2>2
  <2>4. Len(all_commands[i].elements) = 3
    BY <1>1, HandlerElements
  <2>5. QED
    BY <2>1, <2>2, <2>3, <2>4
<1>2. CASE all_commands[i].handler = "cmd_dhcp_pool_create"
  <2>1. Arguments(all_commands[i].handler) = << stack[4].value, stack[5].value >>
    BY <1>2 DEF Arguments
  <2>2. PICK a : a = << stack[4].value, stack[5].value >>
    OBVIOUS
  <2>3. DOMAIN a = {1, 2} /\ Len(a) = 2 /\ a[1] = stack[4].value /\ a[2] = stack[5].value
    BY <2>2
  <2>4. Len(all_commands[i].elements) = 5
    BY <1>2, HandlerElements
  <2>5. QED
    BY <2>1, <2>2, <2>3, <2>4
<1>3. CASE all_commands[i].handler \notin {"cmd_ip_address_ipv4", "cmd_dhcp_pool_create"}
  <2>1. Arguments(all_commands[i].handler) = <<>>
    BY <1>3 DEF Arguments
  <2>2. QED
    BY <2>1
<1>4. QED
  BY <1>1, <1>2, <1>3

LEMMA EnterFound == ASSUME IInv, FoundInv, Enter PROVE FoundInv'
<1>1. FoundInLine' /\ AtPart'
  BY EnterRuns, NothingFound
<1>2. ASSUME ran'.command # 0 PROVE RunsWhatWasTyped'
  <2>1. PICK i : i = ran'.command
    OBVIOUS
  <2>2. /\ i \in handlers(node) /\ ran'.line = line
        /\ ran'.arguments = Arguments(all_commands[i].handler)
    BY <1>2, <2>1, EnterRuns
  <2>3. i \in DOMAIN all_commands /\ all_commands[i].elements = node
    BY <2>2 DEF handlers
  <2>4. PICK found : FoundAt(found)
    BY DEF FoundInv, FoundInLine
  <2>5. /\ found \in [DOMAIN node -> DOMAIN line]
        /\ DOMAIN found = DOMAIN node
        /\ \A k, j \in DOMAIN node : k < j => found[k] < found[j]
        /\ \A k \in DOMAIN node :
             /\ IsWord(line, found[k])
             /\ check_command_element(<< line[found[k]] >>, node[k])
             /\ stack[k].value = line[found[k]]
    BY <2>4 DEF FoundAt
  <2>6. DOMAIN node = 1 .. Len(node)
    BY LenProperties DEF IInv, AnalysisType
  <2> DEFINE arguments == Arguments(all_commands[i].handler)
  <2>7. \A k \in DOMAIN arguments :
          arguments[k] = line[found[Len(node) - Len(arguments) + k]]
    <3> SUFFICES ASSUME NEW k \in DOMAIN arguments
                 PROVE  arguments[k] = line[found[Len(node) - Len(arguments) + k]]
      OBVIOUS
    <3>1. /\ Len(node) - Len(arguments) + k \in 1 .. Len(node)
          /\ arguments[k] = stack[Len(node) - Len(arguments) + k].value
      BY <2>3, ArgumentsAreLast
    <3>2. QED
      BY <3>1, <2>5, <2>6
  <2> HIDE DEF arguments
  <2>8. /\ found \in [DOMAIN node -> DOMAIN line]
        /\ \A k, j \in DOMAIN found : k < j => found[k] < found[j]
        /\ \A k \in DOMAIN found :
             /\ IsWord(line, found[k])
             /\ check_command_element(<< line[found[k]] >>, node[k])
        /\ \A k \in DOMAIN arguments :
             arguments[k] = line[found[Len(node) - Len(arguments) + k]]
    BY <2>5, <2>7
  <2>9. WasTyped(line, i, arguments)
    BY <2>3, <2>8 DEF WasTyped
  <2>10. ran'.line = line /\ ran'.command = i /\ ran'.arguments = arguments
    BY <2>1, <2>2 DEF arguments
  <2>11. QED
    BY <2>9, <2>10 DEF RunsWhatWasTyped
<1>3. ASSUME ran'.command = 0 PROVE RunsWhatWasTyped'
  BY <1>3 DEF RunsWhatWasTyped
<1>4. QED
  BY <1>1, <1>2, <1>3 DEF FoundInv

LEMMA NextFound == IInv /\ FoundInv /\ [Next]_vars => FoundInv'
<1> SUFFICES ASSUME IInv, FoundInv, [Next]_vars PROVE FoundInv'
  OBVIOUS
<1>1. ASSUME ran' = <<>>, node' = <<>>, at' = 1 PROVE FoundInv'
  BY <1>1, NothingFound DEF FoundInv, RunsWhatWasTyped
<1>2. ASSUME UNCHANGED <<line, at, node, stack, ran>> PROVE FoundInv'
  <2>1. RunsWhatWasTyped' /\ AtPart'
    BY <1>2 DEF FoundInv, RunsWhatWasTyped, AtPart
  <2>2. FoundInLine'
    BY <1>2 DEF FoundInv, FoundInLine, FoundAt
  <2>3. QED
    BY <2>1, <2>2 DEF FoundInv
<1>3. ASSUME NEW s \in Strokes, Press(s) PROVE FoundInv'
  BY <1>2, <1>3 DEF Press, analysis
<1>4. ASSUME pc = "key", NEW l, NEW c, Edit(l, c) PROVE FoundInv'
  BY <1>1, <1>4 DEF Edit, analysis, IInv
<1>5. CASE Type
  BY <1>4, <1>5 DEF Type, Key
<1>6. CASE Backspace
  <2>1. ~(cursor - 1 > Len(line)) /\ pc = "key"
    BY <1>6 DEF Backspace, Key, IInv, EditorType
  <2>2. QED
    BY <2>1, <1>4, <1>6 DEF Backspace
<1>7. CASE Escape
  BY <1>4, <1>7 DEF Escape, Key
<1>8. CASE Analyze
  BY <1>1, <1>8 DEF Analyze
<1>9. ASSUME NEW e \in at .. Len(line) + 1, Take(e) \/ Skip(e) PROVE FoundInv'
  BY <1>9, TakeFound, SkipFound
<1>10. CASE Tab
  <2>1. node' = <<>> /\ at' = 1 /\ ran' = ran
    BY <1>10 DEF Tab, BackToKeys
  <2>2. QED
    BY <2>1, NothingFound DEF FoundInv, RunsWhatWasTyped
<1>11. CASE Enter
  BY <1>11, EnterFound
<1>12. CASE UNCHANGED vars
  BY <1>2, <1>12 DEF vars
<1>13. QED
  BY <1>3, <1>5, <1>6, <1>7, <1>8, <1>9, <1>10, <1>11, <1>12 DEF Next

(* However the line was typed and whatever stands between its words: the   *)
(* command that runs was on the line, and is given the addresses of the    *)
(* line in their order (analyze_command, and the handlers that take their  *)
(* arguments off the stack).                                               *)
THEOREM CliRunsWhatWasTyped == Spec => []RunsWhatWasTyped
<1>1. Init => FoundInv
  <2> SUFFICES ASSUME Init PROVE FoundInv
    OBVIOUS
  <2>1. FoundAt(<<>>)
    BY DEF Init, FoundAt
  <2>2. QED
    BY <2>1 DEF Init, FoundInv, FoundInLine, AtPart, RunsWhatWasTyped
<1>2. IInv /\ FoundInv /\ [Next]_vars => FoundInv'
  BY NextFound
<1>3. FoundInv => RunsWhatWasTyped
  BY DEF FoundInv
<1>4. QED
  BY <1>1, <1>2, <1>3, Invariant, PTL DEF Spec

-----------------------------------------------------------------------------
(* A line that is a command. *)

(* The words so far are those of the command, and the next part is its     *)
(* next word.                                                              *)
OnCommand ==
  \A i \in DOMAIN all_commands :
    pc \in {"TAB", "ENTER"} /\ IsCommand(line, i) =>
      /\ Len(node) <= Len(all_commands[i].elements)
      /\ at = 2 * Len(node) + 1
      /\ \A k \in DOMAIN node :
           /\ node[k] = all_commands[i].elements[k]
           /\ stack[k].value = line[2 * k - 1]

WholeInv == OnCommand /\ WholeCommandRuns

Words == {"version", "ip", "show", "address", "dhcp", "pool", "create", "list"}

(* The table, command by command. *)
LEMMA Table ==
  LET elements(i) == all_commands[i].elements
  IN  /\ DOMAIN all_commands = 1 .. 6
      /\ elements(1) = << FixedWord("version") >>
      /\ elements(2) = << FixedWord("ip"), FixedWord("show") >>
      /\ elements(3) = << FixedWord("ip"), FixedWord("address"), FixedWord("show") >>
      /\ elements(4) = << FixedWord("ip"), FixedWord("address"), IPv4Address >>
      /\ elements(5) = << FixedWord("dhcp"), FixedWord("pool"), FixedWord("create"),
                          IPv4Address, IPv4Address >>
      /\ elements(6) = << FixedWord("dhcp"), FixedWord("pool"), FixedWord("list") >>
BY DEF all_commands, Command

(* Elements are told apart by their type and word. *)
LEMMA ElementsDiffer ==
  /\ \A v, w : FixedWord(v) = FixedWord(w) => v = w
  /\ \A w : FixedWord(w).type = "FIXED_WORD" /\ FixedWord(w).fixed_value = w
  /\ IPv4Address.type = "IP_V4_ADDRESS"
  /\ \A w : FixedWord(w) # IPv4Address
<1>1. \A w : FixedWord(w).type = "FIXED_WORD" /\ FixedWord(w).fixed_value = w
  BY DEF FixedWord
<1>2. IPv4Address.type = "IP_V4_ADDRESS"
  BY DEF IPv4Address, Variable
<1>3. \A v, w : FixedWord(v) = FixedWord(w) => v = w
  BY <1>1
<1>4. \A w : FixedWord(w) # IPv4Address
  BY <1>1, <1>2
<1>5. QED
  BY <1>1, <1>2, <1>3, <1>4

(* An element is a word or an address. *)
LEMMA ElementKinds ==
  ASSUME NEW i \in DOMAIN all_commands
  PROVE  LET elements == all_commands[i].elements
         IN  /\ Len(elements) \in 1 .. 5 /\ DOMAIN elements = 1 .. Len(elements)
             /\ \A k \in DOMAIN elements :
                  (\E w \in Words : elements[k] = FixedWord(w)) \/ elements[k] = IPv4Address
<1>1. i \in 1 .. 6
  BY Table
<1>2. CASE i = 1  BY <1>2, Table DEF Words
<1>3. CASE i = 2  BY <1>3, Table DEF Words
<1>4. CASE i = 3  BY <1>4, Table DEF Words
<1>5. CASE i = 4  BY <1>5, Table DEF Words
<1>6. CASE i = 5  BY <1>6, Table DEF Words
<1>7. CASE i = 6  BY <1>7, Table DEF Words
<1>8. QED
  BY <1>1, <1>2, <1>3, <1>4, <1>5, <1>6, <1>7

LEMMA ElementKind ==
  ASSUME NEW e \in Elements
  PROVE  (\E w \in Words : e = FixedWord(w)) \/ e = IPv4Address
<1>1. PICK i \in DOMAIN all_commands : \E k \in DOMAIN all_commands[i].elements :
        e = all_commands[i].elements[k]
  BY DEF Elements
<1>2. QED
  BY <1>1, ElementKinds

(* A character matches one element of the table at most, and a space none. *)
LEMMA OneElement ==
  ASSUME NEW c, NEW d \in Elements, NEW e \in Elements,
         check_command_element(<<c>>, d), check_command_element(<<c>>, e)
  PROVE  d = e /\ c # "SPACE"
<1>1. ASSUME NEW f \in Elements, check_command_element(<<c>>, f)
      PROVE  \/ c \in Words /\ f = FixedWord(c)
             \/ c \in Addresses /\ f = IPv4Address
  <2>1. CASE \E w \in Words : f = FixedWord(w)
    <3>1. PICK w \in Words : f = FixedWord(w)
      BY <2>1
    <3>2. f.type = "FIXED_WORD" /\ f.fixed_value = w
      BY <3>1, ElementsDiffer
    <3>3. <<c>> = <<w>>
      BY <1>1, <3>2 DEF check_command_element
    <3>4. c = w
      BY <3>3
    <3>5. QED
      BY <3>1, <3>4
  <2>2. CASE f = IPv4Address
    <3>1. f.type # "FIXED_WORD"
      BY <2>2, ElementsDiffer
    <3>2. PICK a \in Addresses : <<c>> = <<a>>
      BY <1>1, <3>1 DEF check_command_element
    <3>3. c = a
      BY <3>2
    <3>4. QED
      BY <2>2, <3>3
  <2>3. QED
    BY <2>1, <2>2, ElementKind
<1>2. Words \cap Addresses = {} /\ "SPACE" \notin Addresses
  BY CharactersAssumption DEF Words
<1>3. "SPACE" \notin Words
  BY DEF Words
<1>4. QED
  BY <1>1, <1>2, <1>3

(* No command of the table begins another. *)
LEMMA NoPrefix ==
  ASSUME NEW i \in DOMAIN all_commands, NEW j \in DOMAIN all_commands,
         Len(all_commands[i].elements) <= Len(all_commands[j].elements),
         \A k \in DOMAIN all_commands[i].elements :
           all_commands[j].elements[k] = all_commands[i].elements[k]
  PROVE  i = j
<1>1. i \in 1 .. 6 /\ j \in 1 .. 6
  BY Table
<1>2. /\ FixedWord("version") # FixedWord("ip") /\ FixedWord("version") # FixedWord("dhcp")
      /\ FixedWord("ip") # FixedWord("dhcp") /\ FixedWord("show") # FixedWord("address")
      /\ FixedWord("show") # IPv4Address /\ FixedWord("create") # FixedWord("list")
  BY ElementsDiffer
<1>3. CASE i = 1  BY <1>1, <1>2, <1>3, Table
<1>4. CASE i = 2  BY <1>1, <1>2, <1>4, Table
<1>5. CASE i = 3  BY <1>1, <1>2, <1>5, Table
<1>6. CASE i = 4  BY <1>1, <1>2, <1>6, Table
<1>7. CASE i = 5  BY <1>1, <1>2, <1>7, Table
<1>8. CASE i = 6  BY <1>1, <1>2, <1>8, Table
<1>9. QED
  BY <1>1, <1>3, <1>4, <1>5, <1>6, <1>7, <1>8

(* The next part of the line is the next word of the command, a child of   *)
(* the node.                                                               *)
LEMMA NextWord ==
  ASSUME IInv, OnCommand, pc \in {"TAB", "ENTER"},
         NEW i \in DOMAIN all_commands, IsCommand(line, i),
         NEW e \in at .. Len(line) + 1, PartEnds(e)
  PROVE  LET next == all_commands[i].elements[Len(node) + 1]
         IN  /\ e = at + 1
             /\ Len(node) + 1 \in DOMAIN all_commands[i].elements
             /\ next \in childs(node)
             /\ check_command_element(Part(e), next)
<1> DEFINE elements == all_commands[i].elements
           n == Len(node)
<1>1. /\ n <= Len(elements) /\ at = 2 * n + 1
      /\ \A k \in DOMAIN node : node[k] = elements[k]
  BY DEF OnCommand
<1>2. /\ Len(line) = 2 * Len(elements) - 1
      /\ \A k \in DOMAIN elements :
           /\ check_command_element(<< line[2 * k - 1] >>, elements[k])
           /\ k < Len(elements) => line[2 * k] = "SPACE"
  BY DEF IsCommand
<1>3. /\ Len(elements) \in 1 .. 5 /\ DOMAIN elements = 1 .. Len(elements)
      /\ n \in Nat /\ DOMAIN node = 1 .. n /\ node \in Seq(Elements)
      /\ line \in Seq(Characters \cup Addresses)
  BY ElementKinds, LenProperties DEF IInv, AnalysisType, EditorType
<1>4. /\ at <= Len(line)
      /\ e <= Len(line) => line[e] = "SPACE"
      /\ \A k \in at .. e - 1 : line[k] # "SPACE"
  BY DEF PartEnds
<1>5. elements[n + 1] \in Elements
  BY <1>1, <1>2, <1>3, <1>4 DEF Elements
<1> HIDE DEF elements, n
<1>6. n + 1 \in 1 .. Len(elements)
  BY <1>1, <1>2, <1>3, <1>4
<1>7. check_command_element(<< line[at] >>, elements[n + 1])
  <2>1. 2 * (n + 1) - 1 = at
    BY <1>1, <1>3
  <2>2. check_command_element(<< line[2 * (n + 1) - 1] >>, elements[n + 1])
    BY <1>2, <1>3, <1>6
  <2>3. QED
    BY <2>1, <2>2
<1>8. line[at] # "SPACE"
  BY <1>5, <1>7, OneElement
<1>9. e = at + 1
  <2>1. e # at
    BY <1>4, <1>8
  <2>2. CASE n + 1 < Len(elements)
    <3>1. line[2 * (n + 1)] = "SPACE"
      BY <1>2, <1>3, <1>6, <2>2
    <3>2. 2 * (n + 1) = at + 1 /\ at \in Nat
      BY <1>1, <1>3
    <3>3. at + 1 \notin at .. e - 1
      BY <1>4, <3>1, <3>2
    <3>4. QED
      BY <2>1, <3>2, <3>3
  <2>3. CASE n + 1 = Len(elements)
    BY <2>1, <2>3, <1>1, <1>2, <1>3
  <2>4. n + 1 < Len(elements) \/ n + 1 = Len(elements)
    <3>1. Len(elements) \in Int /\ n \in Int
      BY <1>3
    <3>2. QED
      BY <3>1, <1>6
  <2>5. QED
    BY <2>2, <2>3, <2>4
<1>10. Part(e) = << line[at] >>
  <2>1. at \in Nat \ {0} /\ Len(line) \in Nat /\ e - 1 = at
    BY <1>1, <1>3, <1>9
  <2>2. PICK part : part = SubSeq(line, at, at)
    OBVIOUS
  <2>3. /\ part \in Seq(Characters \cup Addresses) /\ Len(part) = 1
        /\ part[1] = line[at]
    <3>1. line[at] \in Characters \cup Addresses
      BY <2>1, <1>3, <1>4
    <3>2. at \in Int /\ \A k \in at .. at : line[k] \in Characters \cup Addresses
      BY <2>1, <3>1
    <3>3. /\ part \in Seq(Characters \cup Addresses)
          /\ Len(part) = IF at <= at THEN at - at + 1 ELSE 0
          /\ \A k \in 1 .. at - at + 1 : part[k] = line[at + k - 1]
      BY <2>2, <3>2, SubSeqProperties
    <3>4. QED
      BY <3>2, <3>3
  <2>4. part = << line[at] >>
    BY <2>3
  <2>5. QED
    BY <2>1, <2>2, <2>4 DEF Part
<1>11. elements[n + 1] \in childs(node)
  <2>1. SubSeq(elements, 1, n) = node
    <3>1. PICK s : s = SubSeq(elements, 1, n)
      OBVIOUS
    <3>2. \A k \in 1 .. n : elements[k] \in Elements
      BY <1>1, <1>3
    <3>3. /\ s \in Seq(Elements)
          /\ Len(s) = IF 1 <= n THEN n - 1 + 1 ELSE 0
          /\ \A k \in 1 .. n - 1 + 1 : s[k] = elements[1 + k - 1]
      BY <3>1, <3>2, <1>3, SubSeqProperties
    <3>4. Len(s) = n /\ \A k \in 1 .. n : s[k] = node[k]
      <4>1. n \in Nat /\ n - 1 + 1 = n /\ (1 <= n \/ n = 0)
        BY <1>3
      <4>2. Len(s) = n
        BY <3>3, <4>1
      <4>3. ASSUME NEW k \in 1 .. n PROVE s[k] = node[k]
        <5>1. k \in 1 .. n - 1 + 1 /\ 1 + k - 1 = k
          BY <4>1
        <5>2. s[k] = elements[k]
          BY <3>3, <5>1
        <5>3. QED
          BY <5>2, <1>1, <1>3
      <4>4. QED
        BY <4>2, <4>3
    <3>5. s = node
      BY <3>3, <3>4, <1>3, SeqEqual DEF n
    <3>6. QED
      BY <3>1, <3>5
  <2>2. n < Len(elements)
    BY <1>3, <1>6
  <2>3. QED
    BY <2>1, <2>2 DEF childs, elements, n
<1>12. QED
  BY <1>3, <1>6, <1>7, <1>9, <1>10, <1>11 DEF elements, n

LEMMA TakeWhole ==
  ASSUME IInv, WholeInv, NEW e \in at .. Len(line) + 1, Take(e)
  PROVE  WholeInv'
<1>1. /\ pc \in {"TAB", "ENTER"} /\ at' = e + 1 /\ PartEnds(e)
      /\ line' = line /\ ran' = ran
  BY DEF Take
<1>2. PICK child \in childs(node) :
        /\ check_command_element(Part(e), child)
        /\ node' = Append(node, child)
        /\ stack' = Append(stack, RealValue(Part(e), child))
  BY DEF Take
<1>3. e = at + 1 /\ Part(e) = << line[at] >>
  BY <1>1, <1>2, PartMatches
<1>4. /\ node \in Seq(Elements) /\ stack \in Seq(Values) /\ Len(stack) = Len(node)
      /\ Len(node) \in Nat /\ DOMAIN node = 1 .. Len(node)
  BY LenProperties DEF IInv, AnalysisType, StackMatches
<1>5. child \in Elements /\ node' \in Seq(Elements) /\ stack' \in Seq(Values)
  <2>1. IInv'
    BY TakePreserves
  <2>2. QED
    BY <2>1, <1>2, <1>4, ChildIsElement DEF IInv, AnalysisType
<1>6. PICK v : v = RealValue(Part(e), child)
  OBVIOUS
<1>7. v.value = line[at]
  BY <1>3, <1>6 DEF RealValue
<1>8. /\ Len(node') = Len(node) + 1 /\ DOMAIN node' = 1 .. Len(node) + 1
      /\ \A k \in 1 .. Len(node) : node'[k] = node[k] /\ stack'[k] = stack[k]
      /\ node'[Len(node) + 1] = child /\ stack'[Len(node) + 1] = v
  <2>1. /\ \A k \in 1 .. Len(node) : node'[k] = node[k]
        /\ node'[Len(node) + 1] = child /\ Len(node') = Len(node) + 1
    BY <1>2, <1>4, <1>5, AppendProperties
  <2>2. /\ \A k \in 1 .. Len(node) : stack'[k] = stack[k]
        /\ stack'[Len(node) + 1] = v
    BY <1>2, <1>4, <1>5, <1>6
  <2>3. DOMAIN node' = 1 .. Len(node')
    BY <1>5, LenProperties
  <2>4. QED
    BY <2>1, <2>2, <2>3
<1>9. ASSUME NEW i \in DOMAIN all_commands, IsCommand(line, i)
      PROVE  /\ Len(node') <= Len(all_commands[i].elements)
             /\ at' = 2 * Len(node') + 1
             /\ \A k \in DOMAIN node' :
                  /\ node'[k] = all_commands[i].elements[k]
                  /\ stack'[k].value = line[2 * k - 1]
  <2> DEFINE elements == all_commands[i].elements
             next == elements[Len(node) + 1]
  <2>1. /\ Len(node) + 1 \in DOMAIN elements
        /\ next \in childs(node)
        /\ check_command_element(Part(e), next)
    BY <1>1, <1>9, NextWord DEF WholeInv
  <2>2. child = next
    <3>1. next \in Elements
      BY <2>1, <1>4, ChildIsElement
    <3>2. QED
      BY <2>1, <3>1, <1>2, <1>3, <1>5, OneElement
  <2>3. /\ at = 2 * Len(node) + 1
        /\ \A k \in DOMAIN node :
             node[k] = elements[k] /\ stack[k].value = line[2 * k - 1]
    BY <1>1, <1>9 DEF WholeInv, OnCommand
  <2>4. Len(elements) \in 1 .. 5 /\ DOMAIN elements = 1 .. Len(elements)
    BY ElementKinds
  <2>5. Len(node') <= Len(elements)
    BY <2>1, <2>4, <1>8
  <2>6. at' = 2 * Len(node') + 1
    BY <2>3, <1>1, <1>3, <1>4, <1>8
  <2>7. ASSUME NEW k \in DOMAIN node'
        PROVE  node'[k] = elements[k] /\ stack'[k].value = line[2 * k - 1]
    <3>1. CASE k = Len(node) + 1
      <4>1. 2 * k - 1 = at
        BY <3>1, <2>3, <1>4
      <4>2. node'[k] = next /\ stack'[k].value = line[at]
        BY <3>1, <2>2, <1>7, <1>8
      <4>3. QED
        BY <4>1, <4>2, <3>1
    <3>2. CASE k \in 1 .. Len(node)
      BY <3>2, <2>3, <1>4, <1>8
    <3>3. QED
      BY <3>1, <3>2, <1>4, <1>8
  <2>8. QED
    BY <2>5, <2>6, <2>7
<1>10. OnCommand'
  BY <1>1, <1>9 DEF OnCommand
<1>11. WholeCommandRuns'
  BY <1>1 DEF WholeInv, WholeCommandRuns
<1>12. QED
  BY <1>10, <1>11 DEF WholeInv

(* No part of a command is passed over. *)
LEMMA SkipWhole ==
  ASSUME IInv, WholeInv, NEW e \in at .. Len(line) + 1, Skip(e)
  PROVE  WholeInv'
<1>1. /\ pc \in {"TAB", "ENTER"} /\ PartEnds(e)
      /\ \A child \in childs(node) : ~check_command_element(Part(e), child)
      /\ line' = line /\ ran' = ran
  BY DEF Skip
<1>2. \A i \in DOMAIN all_commands : ~IsCommand(line, i)
  BY <1>1, NextWord DEF WholeInv
<1>3. OnCommand'
  BY <1>1, <1>2 DEF OnCommand
<1>4. WholeCommandRuns'
  BY <1>1 DEF WholeInv, WholeCommandRuns
<1>5. QED
  BY <1>3, <1>4 DEF WholeInv

LEMMA ElementsAreSeq ==
  ASSUME NEW i \in DOMAIN all_commands
  PROVE  all_commands[i].elements \in Seq(Elements)
<1>1. PICK elements : elements = all_commands[i].elements
  OBVIOUS
<1>2. \A k \in DOMAIN elements : elements[k] \in Elements
  BY <1>1 DEF Elements
<1>3. i \in 1 .. 6
  BY Table
<1>4. CASE i = 1  BY <1>1, <1>2, <1>4, Table
<1>5. CASE i = 2  BY <1>1, <1>2, <1>5, Table
<1>6. CASE i = 3  BY <1>1, <1>2, <1>6, Table
<1>7. CASE i = 4  BY <1>1, <1>2, <1>7, Table
<1>8. CASE i = 5  BY <1>1, <1>2, <1>8, Table
<1>9. CASE i = 6  BY <1>1, <1>2, <1>9, Table
<1>10. QED
  BY <1>3, <1>4, <1>5, <1>6, <1>7, <1>8, <1>9

(* The node of a command is its own, and it has no child but the handler. *)
LEMMA CommandEnds ==
  ASSUME NEW i \in DOMAIN all_commands PROVE
    LET elements == all_commands[i].elements
    IN  handlers(elements) = {i} /\ childs(elements) = {}
<1> DEFINE elements == all_commands[i].elements
<1>1. /\ Len(elements) \in Nat /\ DOMAIN elements = 1 .. Len(elements)
  BY ElementKinds
<1>2. ASSUME NEW j \in handlers(elements) PROVE j = i
  <2>1. j \in DOMAIN all_commands /\ all_commands[j].elements = elements
    BY <1>2 DEF handlers
  <2>2. QED
    BY <2>1, <1>1, NoPrefix
<1>3. i \in handlers(elements)
  BY DEF handlers
<1>4. ASSUME NEW j \in DOMAIN all_commands,
             Len(elements) < Len(all_commands[j].elements),
             SubSeq(all_commands[j].elements, 1, Len(elements)) = elements
      PROVE  FALSE
  <2>1. PICK t : t = all_commands[j].elements
    OBVIOUS
  <2>2. /\ t \in Seq(Elements) /\ Len(t) \in Nat /\ DOMAIN t = 1 .. Len(t)
        /\ Len(elements) < Len(t) /\ SubSeq(t, 1, Len(elements)) = elements
    BY <2>1, <1>4, ElementsAreSeq, LenProperties
  <2>3. \A k \in 1 .. Len(elements) : t[k] \in Elements
    BY <2>2, <1>1
  <2> HIDE DEF elements
  <2>4. \A k \in 1 .. Len(elements) - 1 + 1 :
          SubSeq(t, 1, Len(elements))[k] = t[1 + k - 1]
    BY <2>3, <1>1, SubSeqProperties
  <2>5. ASSUME NEW k \in 1 .. Len(elements) PROVE elements[k] = t[k]
    <3>1. k \in 1 .. Len(elements) - 1 + 1 /\ 1 + k - 1 = k
      BY <1>1
    <3>2. QED
      BY <3>1, <2>2, <2>4
  <2>6. i = j
    BY <2>1, <2>2, <2>5, <1>1, NoPrefix DEF elements
  <2>7. QED
    BY <2>1, <2>2, <2>6, <1>1 DEF elements
<1>5. childs(elements) = {}
  BY <1>4 DEF childs
<1>6. QED
  BY <1>2, <1>3, <1>5

(* What the handler of a command takes off a stack that holds its words. *)
LEMMA ArgumentsAreAddresses ==
  ASSUME NEW i \in DOMAIN all_commands,
         \A k \in DOMAIN all_commands[i].elements : stack[k].value = line[2 * k - 1]
  PROVE  AddressesOf(Arguments(all_commands[i].handler), line, i)
<1> DEFINE elements == all_commands[i].elements
<1>1. i \in 1 .. 6
  BY Table
<1>2. /\ FixedWord("version") # IPv4Address /\ FixedWord("ip") # IPv4Address
      /\ FixedWord("show") # IPv4Address /\ FixedWord("address") # IPv4Address
      /\ FixedWord("dhcp") # IPv4Address /\ FixedWord("pool") # IPv4Address
      /\ FixedWord("create") # IPv4Address /\ FixedWord("list") # IPv4Address
  BY ElementsDiffer
<1>3. ASSUME NEW k \in DOMAIN elements PROVE k \in 1 .. Len(elements)
  BY ElementKinds
<1>4. CASE i \in {1, 2, 3, 6}
  <2>1. all_commands[i].handler \notin {"cmd_ip_address_ipv4", "cmd_dhcp_pool_create"}
    BY <1>4 DEF all_commands, Command
  <2>2. Arguments(all_commands[i].handler) = <<>>
    BY <2>1 DEF Arguments
  <2>3. \A k \in DOMAIN elements : elements[k] # IPv4Address
    BY <1>2, <1>4, Table
  <2>4. QED
    BY <2>2, <2>3 DEF AddressesOf
<1>5. CASE i = 4
  <2>1. all_commands[i].handler = "cmd_ip_address_ipv4"
    BY <1>5 DEF all_commands, Command
  <2>2. PICK arguments : arguments = << stack[3].value >>
    OBVIOUS
  <2>3. /\ Arguments(all_commands[i].handler) = arguments
        /\ Len(arguments) = 1 /\ DOMAIN arguments = {1} /\ arguments[1] = stack[3].value
    BY <2>1, <2>2 DEF Arguments
  <2>4. /\ Len(elements) = 3 /\ DOMAIN elements = 1 .. 3
        /\ elements[1] # IPv4Address /\ elements[2] # IPv4Address
        /\ elements[3] = IPv4Address
    BY <1>2, <1>5, Table
  <2>5. stack[3].value = line[5]
    BY <2>4
  <2>6. QED
    BY <2>3, <2>4, <2>5 DEF AddressesOf
<1>6. CASE i = 5
  <2>1. all_commands[i].handler = "cmd_dhcp_pool_create"
    BY <1>6 DEF all_commands, Command
  <2>2. PICK arguments : arguments = << stack[4].value, stack[5].value >>
    OBVIOUS
  <2>3. /\ Arguments(all_commands[i].handler) = arguments
        /\ Len(arguments) = 2 /\ DOMAIN arguments = {1, 2}
        /\ arguments[1] = stack[4].value /\ arguments[2] = stack[5].value
    BY <2>1, <2>2 DEF Arguments
  <2>4. /\ Len(elements) = 5 /\ DOMAIN elements = 1 .. 5
        /\ elements[1] # IPv4Address /\ elements[2] # IPv4Address
        /\ elements[3] # IPv4Address
        /\ elements[4] = IPv4Address /\ elements[5] = IPv4Address
    BY <1>2, <1>6, Table
  <2>5. stack[4].value = line[7] /\ stack[5].value = line[9]
    BY <2>4
  <2>6. QED
    BY <2>3, <2>4, <2>5 DEF AddressesOf
<1>7. QED
  BY <1>1, <1>4, <1>5, <1>6

LEMMA EnterWhole == ASSUME IInv, WholeInv, Enter PROVE WholeInv'
<1>1. pc = "ENTER" /\ at > Len(line)
  BY DEF Enter, Analyzed
<1>2. pc' = "key"
  <2>1. \A i \in handlers(node) : ArgumentsFit(all_commands[i].handler)
    BY ReachedHandlerFits DEF IInv, AnalysisType
  <2>2. QED
    BY <2>1 DEF Enter, BackToKeys
<1>3. ASSUME NEW i \in DOMAIN all_commands, IsCommand(line, i)
      PROVE  ran'.command = i /\ AddressesOf(ran'.arguments, line, i)
  <2> DEFINE elements == all_commands[i].elements
  <2>1. /\ Len(node) <= Len(elements) /\ at = 2 * Len(node) + 1
        /\ \A k \in DOMAIN node :
             node[k] = elements[k] /\ stack[k].value = line[2 * k - 1]
    BY <1>1, <1>3 DEF WholeInv, OnCommand
  <2>2. /\ elements \in Seq(Elements) /\ node \in Seq(Elements)
        /\ Len(elements) \in Nat /\ Len(node) \in Nat
        /\ DOMAIN node = 1 .. Len(node)
    BY ElementsAreSeq, LenProperties DEF IInv, AnalysisType
  <2>3. Len(line) = 2 * Len(elements) - 1
    BY <1>3 DEF IsCommand
  <2> HIDE DEF elements
  <2>4. Len(node) = Len(elements)
    BY <2>1, <2>2, <2>3, <1>1
  <2>5. node = elements
    BY <2>1, <2>2, <2>4, SeqEqual
  <2>6. handlers(node) = {i} /\ childs(node) = {}
    BY <2>5, CommandEnds DEF elements
  <2>7. i \in handlers(node) /\ Runs(i)
    BY <2>6 DEF Runs
  <2>8. ran'.command = i /\ ran'.arguments = Arguments(all_commands[i].handler)
    BY <2>6, <2>7, EnterRuns
  <2>9. \A k \in DOMAIN elements : stack[k].value = line[2 * k - 1]
    BY <2>1, <2>5
  <2>10. AddressesOf(Arguments(all_commands[i].handler), line, i)
    BY <2>9, ArgumentsAreAddresses DEF elements
  <2>11. QED
    BY <2>8, <2>10
<1>4. ran'.line = line
  BY EnterRuns
<1>5. WholeCommandRuns'
  BY <1>3, <1>4 DEF WholeCommandRuns
<1>6. OnCommand'
  BY <1>2 DEF OnCommand
<1>7. QED
  BY <1>5, <1>6 DEF WholeInv

LEMMA NextWhole == IInv /\ WholeInv /\ [Next]_vars => WholeInv'
<1> SUFFICES ASSUME IInv, WholeInv, [Next]_vars PROVE WholeInv'
  OBVIOUS
<1>1. ASSUME ran' = <<>> \/ ran' = ran, pc' = "key" PROVE WholeInv'
  BY <1>1 DEF WholeInv, OnCommand, WholeCommandRuns
<1>2. ASSUME UNCHANGED <<line, pc, at, node, stack, ran>> PROVE WholeInv'
  BY <1>2 DEF WholeInv, OnCommand, WholeCommandRuns
<1>3. ASSUME NEW s \in Strokes, Press(s) PROVE WholeInv'
  BY <1>2, <1>3 DEF Press, analysis
<1>4. ASSUME pc = "key", NEW l, NEW c, Edit(l, c) PROVE WholeInv'
  BY <1>1, <1>4 DEF Edit, analysis
<1>5. CASE Type
  BY <1>4, <1>5 DEF Type, Key
<1>6. CASE Backspace
  <2>1. ~(cursor - 1 > Len(line)) /\ pc = "key"
    BY <1>6 DEF Backspace, Key, IInv, EditorType
  <2>2. QED
    BY <2>1, <1>4, <1>6 DEF Backspace
<1>7. CASE Escape
  BY <1>4, <1>7 DEF Escape, Key
<1>8. CASE Analyze
  <2>1. at' = 1 /\ node' = <<>> /\ ran' = <<>>
    BY <1>8 DEF Analyze
  <2>2. \A i \in DOMAIN all_commands : Len(all_commands[i].elements) \in 1 .. 5
    BY ElementKinds
  <2>3. QED
    BY <2>1, <2>2 DEF WholeInv, OnCommand, WholeCommandRuns
<1>9. ASSUME NEW e \in at .. Len(line) + 1, Take(e) \/ Skip(e) PROVE WholeInv'
  BY <1>9, TakeWhole, SkipWhole
<1>10. CASE Tab
  BY <1>1, <1>10 DEF Tab, BackToKeys
<1>11. CASE Enter
  BY <1>11, EnterWhole
<1>12. CASE UNCHANGED vars
  BY <1>2, <1>12 DEF vars
<1>13. QED
  BY <1>3, <1>5, <1>6, <1>7, <1>8, <1>9, <1>10, <1>11, <1>12 DEF Next

(* No command of the table hides another: a line that is a command, its    *)
(* words one space apart, runs that command with the addresses typed       *)
(* (create_command_tree, analyze_command and ENTER in main.cpp).           *)
THEOREM CliWholeCommandRuns == Spec => []WholeCommandRuns
<1>1. Init => WholeInv
  BY DEF Init, WholeInv, OnCommand, WholeCommandRuns
<1>2. IInv /\ WholeInv /\ [Next]_vars => WholeInv'
  BY NextWhole
<1>3. WholeInv => WholeCommandRuns
  BY DEF WholeInv
<1>4. QED
  BY <1>1, <1>2, <1>3, Invariant, PTL DEF Spec

=============================================================================
