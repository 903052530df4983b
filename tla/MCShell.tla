------------------------------- MODULE MCShell -------------------------------
(* Small instances of Shell for TLC. *)
EXTENDS Shell

CONSTANTS x, s1, s2

MCLines    == {x}
MCScripts  == {s1, s2}
MCPrinting == {s1}
MCLogLines == [c \in {x, s1, s2} |-> IF c = s2 THEN 1 ELSE 2]

\* Two scripts whose names begin alike, a hidden file, and a directory.
MCListing == (<<>> :> {<<"a", "b">>, <<"a", "c">>, <<".", "h">>, <<"d", "/">>})
               @@ (<<<<"d">>>> :> {<<"e">>})
MCPaths   == {<<<<"a", "b">>>>}

Script == <<"execute", <<>>, <<"a", "b">>>>

\* Paths are completed, with OpenTelemetry, before the first input; the pane is
\* there only without it.
MCTyped(o, n) ==
  IF o /\ n = 0
  THEN {<<"blank">>, <<"leave">>, <<"debug">>, <<"line", x>>, Script,
        <<"execute", <<>>, <<>>>>, <<"execute", <<>>, <<"a">>>>,
        <<"execute", <<>>, <<"d">>>>, <<"execute", <<>>, <<".">>>>}
  ELSE IF o THEN {<<"line", x>>, Script} ELSE {<<"debug">>, Script}

Tiny  == [height |-> 3, wrap |-> 2]
Large == [height |-> 20, wrap |-> 2]

MCSizes      == {Tiny, Large}
MCScreens(o) == IF o THEN {Large} ELSE MCSizes

MCMaxHistory(o) == IF o THEN 3 ELSE 2
=============================================================================
