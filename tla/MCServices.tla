------------------------------ MODULE MCServices ------------------------------
(***************************************************************************)
(* The services over one device, one mount and one file, one object per  *)
(* GUI and core allocation site (three neuron arrays), and shell lines    *)
(* that exercise blanks, tabs, quotes, argument checks, cmd_jarvis and an *)
(* unknown command.                                                       *)
(***************************************************************************)
EXTENDS Services

MiB == 1024 * 1024

MCFormatSizes == {8 * MiB, 16 * MiB, 32 * MiB}

MCReadCounts == {4096}

\* Zeroed memory only: the junk position past the block is MCJarFS's.
MCJunkPositions == {0}

MCJunkInodes == {[size |-> 6000, block0 |-> 9]}

MCShellLines ==
  { <<"help">>,
    <<>>,
    <<SP, "cat">>,
    <<"cp", SP, "a", SP, TAB, "b">>,
    <<"echo", SP, QT, "a", SP, "b", QT, SP, "c">>,
    <<QT, "x", SP, "y", SP>>,
    <<"frob">>,
    <<"ai", TAB, "hi">> }

=============================================================================
