------------------------------ MODULE MCParts -------------------------------
(***************************************************************************)
(* The parts on small instances.                                           *)
(***************************************************************************)
EXTENDS Parts

\* Two sizes of the terminal's window, and the names the completion finds.
MCSizes == {<<2, 3>>, <<1, 2>>}
MCEntries == (<<>> :> {<<"A">>, <<"A", "A">>}) @@ (<<"A">> :> {})
             @@ (<<"/">> :> {<<"A">>}) @@ (<<"/", "A">> :> {})
MCPrompt == <<"A">>

\* Files of commands that run one another, write over themselves and are named
\* inside a pipeline; P is a program, and C as long as a file can be, so that
\* what CAT adds to it does not fit.
MCCounts == "1" :> 1
MCOrder == <<"A", "B">>
MCTyped ==
  {<<"RUN", "S", "|", "SORT">>, <<"CAT", "F", "|", "SORT", "|", "HEAD", "1", ">", "F">>,
   <<"ECHO", "A", ">">>, <<"RUN", "T", "|", "GREP", "B", ">", "G">>, <<"RUN", "C">>,
   <<"CAT", "C", "|", "CAT", ">", "G">>}
MCFiles ==
  ("F" :> <<"B", "\n", "A">>)
  @@ ("S" :> <<"RUN", "T", "|", "CAT", "\n", "RUN", "S", "\n", "ECHO", "B", ">", "S", "\n", "#">>)
  @@ ("T" :> <<"CAT", "F", "|", "TAIL", "1", ">", "G", "\n", ">", "\n", "RUN", "P", "|", "WC">>)
  @@ ("P" :> <<"ELF">>)
  @@ ("C" :> <<"RM", "G", "\n", "MV", "F", "G", "\n", "CP", "G", "F", "\n", "TOUCH", "F", "\n",
               "WRITE", "C", "EDIT", "F">>)
MCSays == <<"A", "\n">>

\* One that fits, one with a line too many, and one with a line too long.
MCDocuments ==
  {<<"a", "b", "\n", "a">>, <<"a", "\n", "b", "\n", "a", "\n", "b">>, <<"a", "b", "b">>}

\* Lines that go on past the free ones: names, assignments and conditionals.
MCDigits == ("0" :> 0) @@ ("2" :> 2) @@ ("3" :> 3)
MCSums ==
  {<<"X", "=", "2", "*", "-", "2">>, <<"X", "=", "=", "2">>, <<"Y", "=", "2", "^", "X">>,
   <<"X", "=", "X", "+", "2">>, <<"0", "0", "2", "+", "3">>, <<"2", "*", "3", "/", "2">>,
   <<"X", "Y", "+", "2">>, <<"X", "2", "=", "2">>, <<"Y", "=", "2", "X">>,
   <<"X", "=", "0", "-", "3", "-", "3">>,
   <<"IF", "X", "<", "2", "THEN", "X", "+", "2", "ELSE", "0", "-", "2">>,
   <<"IF", "X", "=", "=", "2", "THEN", "3", "ELSE", "2", "*", "X">>,
   <<"IF", "X", ">", "3", "THEN", "X", "/", "0", "ELSE", "2">>}
=============================================================================
