----------------------------- MODULE Dashboards -----------------------------
(***************************************************************************)
(* One dashboard, stored, opened as a tab, rearranged there and saved back *)
(* (crates/rulogman-app/src/workspace/dashboards.rs, sessions.rs;          *)
(* rulogman-core/src/dashboard.rs).                                        *)
(*                                                                         *)
(* A dashboard names files on connections, and may keep the arrangement of *)
(* their panes as a tree over positions in that list.  The list changes    *)
(* under the arrangement: in the settings of this window or another, by a  *)
(* connection being deleted, by a color picked in the tab.  Opening asks   *)
(* for every connection nothing is saved for, one form after the other,    *)
(* before there is any pane.  The tree of live panes is rugpui's and       *)
(* external: split, swap, close, set_ratio and equalize.                   *)
(***************************************************************************)
EXTENDS Naturals, Sequences, SequencesExt

CONSTANTS
    Profiles,
    MaxFollowed, \* bound: panes of the dashboard and of its tab
    MaxEdits,    \* bound: changes of the tab, of the settings and of the connections
    NoBoard      \* the dashboard is not there, or has no arrangement; a model value

VARIABLES
    profiles,  \* the connections there are
    saved,     \* those whose credentials are saved
    file,      \* the dashboard in dashboards.json
    copy,      \* the dashboard in the window's list
    pending,   \* pending_dashboard: the connections answered for
    form,      \* the connection form: the connection it came up on
    tab,       \* the panes of the tab, or NoBoard
    inStep,    \* history: the tab's files stand as they do in the file
    edits      \* so far

boardVars == <<profiles, saved, file, copy, pending, form, tab, inStep, edits>>

Axes == {"horizontal", "vertical"}
Ratios == {"even", "shared", "moved"}
Colors == {"plain", "red"}

\* A node of a tree, saved or live: a pane, or a split of two nodes.
Pane(x) == <<x>>
Split(axis, ratio, first, second) == <<axis, ratio, first, second>>
IsPane(node) == Len(node) = 1

RECURSIVE Leaves(_)
Leaves(node) == IF IsPane(node) THEN node ELSE Leaves(node[3]) \o Leaves(node[4])

RECURSIVE Lead(_) \* head: the pane that ends up top left
Lead(node) == IF IsPane(node) THEN node[1] ELSE Lead(node[3])

RECURSIVE Places(_, _) \* a saved tree, with a pane for each position
Places(node, panes) ==
    IF IsPane(node) THEN Pane(panes[node[1]])
    ELSE Split(node[1], node[2], Places(node[3], panes), Places(node[4], panes))

RECURSIVE Replace(_, _, _) \* the node with `new` for the pane `id`
Replace(node, id, new) ==
    IF IsPane(node) THEN IF node[1].id = id THEN new ELSE node
    ELSE Split(node[1], node[2], Replace(node[3], id, new), Replace(node[4], id, new))

\* PaneTree.split
SplitAt(tree, pane, axis, leaf) ==
    Replace(tree, pane.id, Split(axis, "even", Pane(pane), Pane(leaf)))

RECURSIVE Equalize(_)
Equalize(node) ==
    IF IsPane(node) THEN node
    ELSE Split(node[1], "shared", Equalize(node[3]), Equalize(node[4]))
-----------------------------------------------------------------------------
(* The arrangement of a tab.                                               *)

\* valid_layout, and covers
IsFaithful(layout, count) ==
    layout # NoBoard /\ count > 0
      /\ Len(Leaves(layout)) = count /\ ToSet(Leaves(layout)) = 1..count

RECURSIVE Expand(_, _, _, _) \* `anchor` holds the lead of `node` on entry
Expand(tree, anchor, node, leaves) ==
    IF IsPane(node) THEN tree
    ELSE LET second == leaves[Lead(node[4])]
             split == SplitAt(tree, anchor, node[1], second)
         IN Expand(Expand(split, anchor, node[3], leaves), second, node[4], leaves)

RECURSIVE WithRatios(_, _) \* the second pass, in step over both trees
WithRatios(spec, live) ==
    IF IsPane(spec) THEN live
    ELSE Split(live[1], spec[2], WithRatios(spec[3], live[3]), WithRatios(spec[4], live[4]))

EvenlyArranged(leaves, layout) == \* mutant: the dividers are not put back
    LET root == leaves[Lead(layout)] IN Expand(Pane(root), root, layout, leaves)
\* compose_dashboard_layout
Arranged(leaves, layout) ==
    LET root == leaves[Lead(layout)]
    IN WithRatios(layout, Expand(Pane(root), root, layout, leaves))

\* Columns of a grid as square as the count allows.
Columns(count) == CHOOSE c \in 1..count: c * c >= count /\ (c - 1) * (c - 1) < count

\* compose_dashboard_tab: the leads of the rows first, then the cells of each.
Grid(leaves) ==
    LET cols == Columns(Len(leaves))
        IsLead(i) == (i - 1) % cols = 0
        leads == SelectSeq([i \in 1..Len(leaves) |-> i], IsLead)
        AddRow(tree, k) ==
            SplitAt(tree, leaves[leads[k - 1]], "vertical", leaves[leads[k]])
        rows == FoldLeft(AddRow, Pane(leaves[1]), [k \in 1..Len(leads) - 1 |-> k + 1])
        AddCell(tree, i) ==
            IF IsLead(i) THEN tree ELSE SplitAt(tree, leaves[i - 1], "horizontal", leaves[i])
    IN Equalize(FoldLeft(AddCell, rows, [i \in 1..Len(leaves) |-> i]))

\* A grid holds its panes in the order they were given.
ASSUME GridInOrder ==
    \A n \in 1..10:
        LET panes == [i \in 1..n |-> [id |-> i]] IN Leaves(Grid(panes)) = panes

\* capture_tab_layout: the files in the order of the layout, and the tree over them;
\* nothing if a pane is no followed file.
FilesOf(tree) ==
    LET leaves == Leaves(tree)
    IN [i \in 1..Len(leaves) |->
           [profile |-> leaves[i].profile, color |-> leaves[i].color]]

RECURSIVE Numbered(_, _) \* the tree over positions from `first` on
Numbered(node, first) ==
    IF IsPane(node) THEN Pane(first)
    ELSE Split(node[1], node[2], Numbered(node[3], first),
               Numbered(node[4], first + Len(Leaves(node[3]))))

AllFiles(tree) == \A i \in 1..Len(Leaves(tree)): Leaves(tree)[i].profile # "shell"
-----------------------------------------------------------------------------
Board(panes, layout) == [panes |-> panes, layout |-> layout]

BoardInit ==
    /\ profiles = Profiles /\ saved \in SUBSET Profiles
    /\ \E p, q \in Profiles:
          file = Board(<<[profile |-> p, color |-> "plain"], [profile |-> q, color |-> "red"]>>,
                       NoBoard)
    /\ copy = file /\ pending = NoBoard /\ form = NoBoard /\ tab = NoBoard
    /\ inStep = FALSE /\ edits = 0

Edits == edits < MaxEdits /\ edits' = edits + 1

Resolves(pane) == pane.profile \in profiles

\* A pane of the tab for each of the dashboard's that can be opened, in order, with
\* the credentials its session was given.
NewPanes(panes, given) ==
    LET resolved == SelectSeq(panes, Resolves)
    IN [i \in 1..Len(resolved) |->
           [id |-> i, profile |-> resolved[i].profile, color |-> resolved[i].color,
            auth |-> resolved[i].profile \in given]]

\* The saved arrangement counts for the whole list of panes only.
TabOf(board, leaves) ==
    IF IsFaithful(board.layout, Len(board.panes)) /\ Len(leaves) = Len(board.panes)
    THEN Arranged(leaves, board.layout) ELSE Grid(leaves)

\* open_dashboard_with: everything on screen closes, and a request waiting with it.
OpenWith(supplied) ==
    LET panes == SelectSeq(copy.panes, Resolves)
        given == supplied \union (saved \intersect profiles)
        missing == {i \in 1..Len(panes): panes[i].profile \notin given}
    IN IF copy = NoBoard \/ panes = << >>
       THEN pending' = NoBoard /\ form' = NoBoard /\ UNCHANGED <<tab, inStep>>
       ELSE IF missing # {}
       THEN /\ form' = panes[CHOOSE i \in missing: \A j \in missing: i <= j].profile
            /\ pending' = {panes[i].profile: i \in 1..Len(panes)} \intersect given
            /\ UNCHANGED <<tab, inStep>>
       ELSE /\ tab' = TabOf(copy, NewPanes(copy.panes, given))
            /\ inStep' = (copy = file /\ Len(panes) = Len(copy.panes)
                          /\ FilesOf(tab') = copy.panes)
            /\ pending' = NoBoard /\ form' = NoBoard

OpenBoard ==
    /\ tab = NoBoard /\ OpenWith({})
    /\ UNCHANGED <<profiles, saved, file, copy, edits>>

\* answer_pending_dashboard: Connect in the form, for the connection it shows by
\* then; it may be remembered.
Supply ==
    /\ form # NoBoard
    /\ \E p \in profiles:
          /\ saved' \in {saved, saved \union {p}}
          /\ IF pending # NoBoard /\ copy # NoBoard /\ \E i \in 1..Len(copy.panes): copy.panes[i].profile = p
             THEN OpenWith(pending \union {p})
             ELSE pending' = NoBoard /\ form' = NoBoard /\ UNCHANGED <<tab, inStep>>
    /\ UNCHANGED <<profiles, file, copy, edits>>

\* close_overlays, and Dismissed
Dismiss ==
    /\ form # NoBoard /\ form' = NoBoard /\ pending' = NoBoard
    /\ UNCHANGED <<profiles, saved, file, copy, tab, inStep, edits>>
-----------------------------------------------------------------------------
(* The tab.                                                                *)

LivePanes == IF tab = NoBoard THEN {} ELSE ToSet(Leaves(tab))

Unused == CHOOSE i \in 1..MaxFollowed: \A x \in LivePanes: x.id # i

PaneOn(p) == [id |-> Unused, profile |-> p, color |-> "plain", auth |-> TRUE]

\* add_tail_to_tab, below the pane that is active: everything on screen closes, and
\* with no credentials saved the form comes up and nothing is added.
AddTail ==
    /\ Edits /\ tab # NoBoard /\ Len(Leaves(tab)) < MaxFollowed
    /\ pending' = NoBoard
    /\ \E p \in profiles:
          IF p \in saved
          THEN /\ \E at \in LivePanes: tab' = SplitAt(tab, at, "vertical", PaneOn(p))
               /\ form' = NoBoard /\ inStep' = FALSE
          ELSE form' = p /\ UNCHANGED <<tab, inStep>>
    /\ UNCHANGED <<profiles, saved, file, copy>>

\* A shell is split in.
AddShell ==
    /\ Edits /\ tab # NoBoard /\ Len(Leaves(tab)) < MaxFollowed
    /\ \E at \in LivePanes, axis \in Axes: tab' = SplitAt(tab, at, axis, PaneOn("shell"))
    /\ inStep' = FALSE
    /\ UNCHANGED <<profiles, saved, file, copy, pending, form>>

RECURSIVE Pruned(_, _) \* the node without the pane: its sibling takes the place
Pruned(node, id) ==
    IF IsPane(node) THEN node
    ELSE IF IsPane(node[3]) /\ node[3][1].id = id THEN node[4]
    ELSE IF IsPane(node[4]) /\ node[4][1].id = id THEN node[3]
    ELSE Split(node[1], node[2], Pruned(node[3], id), Pruned(node[4], id))

CloseFollowed ==
    /\ Edits
    /\ \E x \in LivePanes:
          tab' = IF IsPane(tab) THEN NoBoard ELSE Pruned(tab, x.id)
    /\ inStep' = FALSE
    /\ UNCHANGED <<profiles, saved, file, copy, pending, form>>

RECURSIVE Swapped(_, _, _)
Swapped(node, x, y) ==
    IF IsPane(node)
    THEN Pane(IF node[1] = x THEN y ELSE IF node[1] = y THEN x ELSE node[1])
    ELSE Split(node[1], node[2], Swapped(node[3], x, y), Swapped(node[4], x, y))

\* swap_panes
SwapPanes ==
    /\ Edits
    /\ \E x, y \in LivePanes: x.id < y.id /\ tab' = Swapped(tab, x, y)
    /\ inStep' = FALSE
    /\ UNCHANGED <<profiles, saved, file, copy, pending, form>>

\* The divider at the top of the tree is dragged.
MoveDivider ==
    /\ Edits /\ tab # NoBoard /\ ~IsPane(tab) /\ tab' = [tab EXCEPT ![2] = "moved"]
    /\ UNCHANGED <<profiles, saved, file, copy, pending, form, inStep>>

\* save_tab_layout, over the file as it is now.
SaveTab ==
    /\ tab # NoBoard /\ AllFiles(tab)
    /\ file' = Board(FilesOf(tab), Numbered(tab, 1)) /\ copy' = file' /\ inStep' = TRUE
    /\ UNCHANGED <<profiles, saved, pending, form, tab, edits>>

SamePlace(n, panes, x) == IF n > Len(panes) THEN 0 ELSE n \* mutant: the stored pane at the same place
\* persist_pane_color: by which of the panes that follow this file it is.
StoredPane(n, panes, x) ==
    LET leaves == Leaves(tab)
        occurrence == Len(SelectSeq(SubSeq(leaves, 1, n), LAMBDA y: y.profile = x.profile))
        same == SelectSeq([i \in 1..Len(panes) |-> i], LAMBDA i: panes[i].profile = x.profile)
    IN IF occurrence <= Len(same) THEN same[occurrence] ELSE 0

\* set_pane_color
PickColor ==
    /\ Edits /\ tab # NoBoard
    /\ \E n \in 1..Len(Leaves(tab)):
          LET x == Leaves(tab)[n]
              new == [x EXCEPT !.color = IF @ = "red" THEN "plain" ELSE "red"]
              at == IF file = NoBoard THEN 0 ELSE StoredPane(n, file.panes, x)
          IN /\ x.profile # "shell"
             /\ tab' = Replace(tab, x.id, Pane(new))
             /\ IF at = 0 THEN UNCHANGED <<file, copy>>
                ELSE file' = [file EXCEPT !.panes[at].color = new.color] /\ copy' = file'
    /\ UNCHANGED <<profiles, saved, pending, form, inStep>>

CloseBoard ==
    /\ tab # NoBoard /\ tab' = NoBoard /\ inStep' = FALSE
    /\ UNCHANGED <<profiles, saved, file, copy, pending, form, edits>>
-----------------------------------------------------------------------------
(* What changes elsewhere.                                                 *)

\* The settings dialog, here or in another window: a pane more or less, or the
\* dashboard removed; the arrangement is carried along.
EditBoard ==
    /\ Edits /\ file # NoBoard
    /\ \/ \E p \in Profiles:
             /\ Len(file.panes) < MaxFollowed
             /\ file' = [file EXCEPT !.panes = Append(@, [profile |-> p, color |-> "plain"])]
       \/ \E i \in 1..Len(file.panes): file' = [file EXCEPT !.panes = RemoveAt(@, i)]
       \/ file' = NoBoard
    /\ copy' \in {copy, file'} /\ inStep' = FALSE
    /\ IF copy' = file' THEN form' = NoBoard /\ pending' = NoBoard ELSE UNCHANGED <<form, pending>>
    /\ UNCHANGED <<profiles, saved, tab>>

DeleteProfile ==
    /\ Edits
    /\ \E p \in profiles: profiles' = profiles \ {p} /\ saved' = saved \ {p}
    /\ UNCHANGED <<file, copy, pending, form, tab, inStep>>

BoardNext ==
    \/ OpenBoard \/ Supply \/ Dismiss
    \/ AddTail \/ AddShell \/ CloseFollowed \/ SwapPanes \/ MoveDivider \/ SaveTab \/ PickColor \/ CloseBoard
    \/ EditBoard \/ DeleteProfile
-----------------------------------------------------------------------------
(* Properties.                                                             *)

IsBoard(b) ==
    /\ Len(b.panes) <= MaxFollowed
    /\ \A i \in 1..Len(b.panes): b.panes[i].profile \in Profiles /\ b.panes[i].color \in Colors
    /\ b.layout # NoBoard => ToSet(Leaves(b.layout)) \subseteq 1..MaxFollowed

BoardTypes ==
    /\ profiles \subseteq Profiles /\ saved \subseteq profiles
    /\ \A b \in {file, copy} \ {NoBoard}: IsBoard(b)
    /\ pending = NoBoard \/ pending \subseteq Profiles
    /\ form \in Profiles \union {NoBoard} /\ inStep \in BOOLEAN /\ edits \in 0..MaxEdits
    /\ tab # NoBoard => Len(Leaves(tab)) \in 1..MaxFollowed

(* Every pane of the tab is shown once and has the credentials of its own
   connection; and a form is up for as long as a request waits (open_dashboard_with). *)
EveryPaneOnce ==
    /\ tab # NoBoard =>
          /\ \A i, j \in 1..Len(Leaves(tab)): Leaves(tab)[i].id = Leaves(tab)[j].id => i = j
          /\ \A x \in LivePanes: x.auth
    /\ pending # NoBoard => form # NoBoard

(* A dashboard opens whole: a pane for every file whose connection is there, in the
   saved arrangement, dividers included, if it still is one of just these panes, and
   else in the order of the list (compose_dashboard_layout, expand, ratios). *)
OpensWhole ==
    tab = NoBoard /\ tab' # NoBoard =>
        LET panes == NewPanes(copy.panes, Profiles)
        IN IF Len(panes) = Len(copy.panes) /\ IsFaithful(copy.layout, Len(panes))
           THEN tab' = Places(copy.layout, panes)
           ELSE Leaves(tab') = panes

(* A color picked in the tab is stored for a pane that follows the same file, however
   the tab has been rearranged since it was opened (persist_pane_color). *)
PaintsItsFile ==
    NoBoard \notin {tab, tab', file, file'} /\ tab' # tab /\ file' # file =>
        \A i \in 1..Len(file.panes):
            file'.panes[i] # file.panes[i] =>
                \E x \in LivePanes \ ToSet(Leaves(tab')): x.profile = file.panes[i].profile

(* While the tab shows the files as the dashboard lists them, they have the same
   colors: a color picked for one of two panes on one file is stored for that one
   (persist_pane_color). *)
ColorsInStep == inStep => tab # NoBoard /\ file # NoBoard /\ FilesOf(tab) = file.panes
=============================================================================
