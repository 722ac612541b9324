---------------------------- MODULE MCCommandLine ---------------------------
(* Instances of CommandLine for TLC: three short command names, two of them *)
(* with a common beginning, and two sets of lines: all those of up to four  *)
(* characters of four, and the commands with and without an endpoint id.    *)
EXTENDS CommandLine

CommandNames == {<<"d">>, <<"d", "s", "s">>, <<"s">>}
DeleteNames == {<<"d">>, <<"d", "s", "s">>}
Commands == {name \o id \o <<Newline>> : name \in CommandNames, id \in {<< >>, <<" ", "3">>}}
Typed == {line \o <<Newline>> : line \in BoundedSeq({"d", "s", "3", " "}, 4)}
=============================================================================
