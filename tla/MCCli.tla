-------------------------------- MODULE MCCli --------------------------------
(***************************************************************************)
(* Small instances of Cli.tla: every line of up to four characters over    *)
(* the words of the ip commands, every line of up to three with the bytes  *)
(* of an arrow key, and every way to leave words or spaces out of the      *)
(* longer commands.                                                        *)
(***************************************************************************)
EXTENDS Cli, SequencesExt

SomeAddresses == {"10.0.0.1", "10.0.0.2"}

SomeCharacters == {"SPACE", "[", "C", "D", "version", "ip", "address", "show",
                   "dhcp", "pool", "create", "list"}

(* A key, an arrow key, or ESC and two keys in a burst. *)
SomeStrokes ==
  { <<b>> : b \in (SomeCharacters \ {"[", "C", "D"}) \cup SomeAddresses
                   \cup {"TAB", "ENTER", "BACKSPACE"} }
    \cup { <<"ESC", "[", "C">>, <<"ESC", "[", "D">>, <<"ESC", "ip", "BACKSPACE">> }

Subsequences(s) ==
  FoldLeft(LAMBDA found, c : found \cup { Append(f, c) : f \in found }, {<<>>}, s)

SomeLines ==
  SeqOf({"ip", "address", "10.0.0.1", "SPACE"}, 4)
    \cup SeqOf({"ip", "[", "D", "SPACE"}, 3)
    \cup Subsequences(<<"ip", "SPACE", "address", "SPACE", "show">>)
    \cup Subsequences(<<"ip", "SPACE", "version", "SPACE", "address", "SPACE", "10.0.0.1">>)
    \cup Subsequences(<<"dhcp", "SPACE", "pool", "SPACE", "create", "SPACE",
                        "10.0.0.1", "SPACE", "10.0.0.2">>)
    \cup Subsequences(<<"dhcp", "SPACE", "pool", "SPACE", "list">>)

=============================================================================
