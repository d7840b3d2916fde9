------------------------------- MODULE MCShell ------------------------------
(* A buffer of three words and a history of two lines.  One session types  *)
(* commands and prose, one of its lines longer than the buffer; one asks   *)
(* the AI core; one runs scripts.                                          *)
EXTENDS Shell

MCSessions == {{<<"ls">>, <<"write", "f">>, <<"please", "halt", "now", "now">>, <<"shutdown">>},
               {<<"ai", "scan">>, <<"ai", "explain", "it">>, <<"ai">>},
               {<<"run", "f">>, <<"ls">>}}
\* a command, prose again, and a line that fills the buffer
MCNlpLines == {<<"ls">>, <<"please", "wait">>, <<"hash", "f", "f">>}
=============================================================================
