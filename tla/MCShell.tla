------------------------------ MODULE MCShell ------------------------------
(***************************************************************************)
(* Small instances of Shell.  Two lines need at most three processes.      *)
(***************************************************************************)
EXTENDS Shell

w == "word"

MCLines == {<<>>, <<w>>, <<w, "&">>, <<w, ">", w>>, <<w, ">">>, <<w, "|", w>>,
            <<"|", w>>, <<w, "|">>, <<"&">>}
=============================================================================
