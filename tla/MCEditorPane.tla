---------------------------- MODULE MCEditorPane ----------------------------
(* EditorPane over every kind of source: two contents where a connection can *)
(* be lost, one where another part of the pane is what varies.               *)
EXTENDS EditorPane

Pane(s, a, n) == [source |-> s, access |-> a, limit |-> n]
SomePanes ==
    {Pane("script", "None", 2), Pane("script", "NeedsPassword", 1),
     Pane("script", "Granted", 1), Pane("local", "None", 1), Pane("windows", "None", 1)}
=============================================================================
