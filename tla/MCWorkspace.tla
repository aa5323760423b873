---------------------------- MODULE MCWorkspace ----------------------------
(* A window with a few panes in a few tabs; the file panel of one of its     *)
(* sessions, with two directories and two names; a dashboard over two        *)
(* connections, opened and rearranged; and one batch of the panel over a     *)
(* small tree with links.  A behaviour is one of these.                      *)
EXTENDS Workspace, FilePanel, Dashboards, Transfers, TLC

VARIABLE part

\* The tree of a batch: a folder with files, links to a folder beside it, to itself, to
\* nothing and to the directory it is in, through which that may be on screen; and a
\* target that may hold a link back.
Src == <<"src">>
Back == <<"src", "back">>
Dst == <<"dst">>
In(name) == <<"src", "d", name>>
FullTree ==
    (Src :> Folder) @@ (Dst :> Folder) @@ (Back :> Link(Src)) @@ (<<"other">> :> Folder)
      @@ (<<"other", "h">> :> File(<<"other", "h">>))
      @@ (<<"src", "d">> :> Folder) @@ (In("f") :> File(In("f")))
      @@ (In("e") :> Folder) @@ (In("e") \o <<"g">> :> File(In("g")))
      @@ (In("out") :> Link(<<"other">>)) @@ (In("up") :> Link(<<"src", "d">>))
      @@ (In("dead") :> Link(<<"gone">>)) @@ (<<"src", "o">> :> Link(<<"other">>))
      @@ (<<"dst", "d">> :> Folder) @@ (<<"dst", "d", "f">> :> Link(In("f")))
Bare == (Src :> Folder) @@ (Dst :> Folder) @@ (<<"src", "d">> :> Folder)
Trees ==
    {Bare} \union
    {[p \in DOMAIN FullTree \ no |-> FullTree[p]]:
        no \in SUBSET {Back, <<"dst", "d", "f">>}}

Screens == {Src, Back}

WindowInit ==
    /\ part \in {"tabs", "panel", "board", "batch"}
    /\ Init /\ PanelInit
    /\ BoardInit /\ (part # "board" => /\ saved = Profiles
                                       /\ file.panes[1].profile = file.panes[2].profile)
    /\ TransferInit /\ (part # "batch" => /\ op = "delete" /\ near
                                          /\ start = Bare /\ origin = Src)
WindowNext ==
    /\ UNCHANGED part
    /\ \/ part = "tabs" /\ Next /\ UNCHANGED <<panelVars, boardVars, transferVars>>
       \/ part = "panel" /\ PanelNext /\ UNCHANGED <<vars, boardVars, transferVars>>
       \/ part = "board" /\ BoardNext /\ UNCHANGED <<vars, panelVars, transferVars>>
       \/ part = "batch" /\ TransferNext /\ UNCHANGED <<vars, panelVars, boardVars>>
WindowSpec == WindowInit /\ [][WindowNext]_<<part, vars, panelVars, boardVars, transferVars>>

(* The window, its panel, the batches of it and its dashboard are each as they should
   be. *)
WindowsSound ==
    /\ part = "tabs" => WindowSound
    /\ part = "panel" => PanelSound
    /\ part = "board" => BoardTypes /\ EveryPaneOnce /\ ColorsInStep
    /\ part = "batch" => TransferSound

(* A dashboard opens whole, and a color finds its file. *)
BoardsKept == [][OpensWhole /\ PaintsItsFile]_boardVars

Symmetric == Permutations(Dirs) \union Permutations(Profiles)
=============================================================================
