---------------------------- MODULE MCSearchJump ----------------------------
(* A search in a full scrollback, over rows the remote keeps drawing. *)
EXTENDS TerminalView

MCWritings == {<<"x", " ">>}
MCQueries == {<<"x">>}
MCRows == <<<<"x", "-">>, <<"x", "x">>, <<" ", "x">>>>
Spec == ViewInit /\ [][ViewNext]_viewVars
=============================================================================
