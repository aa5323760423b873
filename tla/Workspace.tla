----------------------------- MODULE Workspace -----------------------------
(***************************************************************************)
(* The tabs and panes of one window (crates/rulogman-app/src/workspace:    *)
(* tab_model.rs, tabs.rs, sessions.rs, editors.rs, menus.rs).              *)
(*                                                                         *)
(* A tab is a tree of panes, here their order in it.  A terminal or a      *)
(* followed file has a session of its own, named like its pane; an editor  *)
(* has none.  Every handler runs on the UI thread; sessions end on their   *)
(* own, in the middle of a menu, a drag or a question, and a rulogman://   *)
(* URL opens a tab there; the user himself does one thing at a time.       *)
(* Indices count from one, and the active one is zero when there is no tab.*)
(***************************************************************************)
EXTENDS Naturals, FiniteSets, Sequences, SequencesExt

CONSTANTS
    MaxPanes, \* bound: panes ever opened
    MaxTabs   \* bound: tabs ever opened

ASSUME WorkspaceAssumption == MaxPanes \in Nat \ {0} /\ MaxTabs \in Nat \ {0}

VARIABLES
    tabs,         \* Workspace.tabs: id, panes, active_pane and focus_order of each
    active,       \* Workspace.active
    kind,         \* the view of each pane opened so far
    live,         \* panes whose session was not disconnected
    dirty,        \* editors with unsaved changes
    elsewhere,    \* panes in other windows
    menu,         \* tab_context: the index it was opened at, and the tab it was for
    tabDrag,      \* the tab being dragged: the index it was picked up at, and the tab
    over,         \* held_tab, or NoTab: noted when the drag first moves over the strip
    closeConfirm, \* close_confirm
    nextTab       \* NEXT_TAB_ID

strip == <<tabs, active>>
panes == <<kind, live, dirty, elsewhere>>
vars == <<strip, panes, menu, tabDrag, over, closeConfirm, nextTab>>

NoTab == [index |-> 0, id |-> 0]
Indices == 1..Len(tabs)
PanesOf(t) == ToSet(t.panes)
Opened == 1..Len(kind)
Shown == UNION {PanesOf(tabs[i]): i \in Indices}
Ids(ts) == [i \in 1..Len(ts) |-> ts[i].id]
\* No menu is open, no tab is dragged and no question stands.
Idle == menu = NoTab /\ tabDrag = NoTab /\ closeConfirm = 0
Room(n) == Len(kind) + n <= MaxPanes

Init ==
    /\ tabs = << >> /\ active = 0
    /\ kind = << >> /\ live = {} /\ dirty = {} /\ elsewhere = {}
    /\ menu = NoTab /\ tabDrag = NoTab /\ over = NoTab /\ closeConfirm = 0
    /\ nextTab = 1
-----------------------------------------------------------------------------
(* tab_model.rs and the index arithmetic of mod.rs.  A pane is once in the *)
(* panes and at most once in the order, so retaining all but it is taking  *)
(* the first one out.                                                      *)

KeepOrder(t, p) == Append(t.order, p) \* mutant: the old place in the order stays
MoveToEnd(t, p) == Append(RemoveFirst(t.order, p), p)

\* SessionTab::focus
Focus(t, p) == [t EXCEPT !.active = p, !.order = MoveToEnd(t, p)]

Single(p) == [id |-> nextTab, panes |-> <<p>>, active |-> p, order |-> <<p>>]

\* focus_successor, or the next leaf, wrapping around.
Successor(t, p) ==
    LET seen == RemoveFirst(t.order, p)
        at == CHOOSE i \in 1..Len(t.panes): t.panes[i] = p
    IN IF seen # << >> THEN Last(seen) ELSE t.panes[(at % Len(t.panes)) + 1]

\* PaneTree::remove, prune_focus_order and the focus of what is left.
WithoutPane(t, p) ==
    LET rest == [t EXCEPT !.panes = RemoveFirst(@, p), !.order = RemoveFirst(@, p)]
    IN IF t.active = p THEN Focus(rest, Successor(t, p)) ELSE rest

\* PaneTree::split and merge_subtree: beside the pane that was active.
Beside(t, new) ==
    LET at == CHOOSE i \in 1..Len(t.panes): t.panes[i] = t.active
    IN SubSeq(t.panes, 1, at) \o new \o SubSeq(t.panes, at + 1, Len(t.panes))

Unmoved(i, removed) == i \* mutant: the index is not moved down
Shifted(i, removed) == IF removed < i THEN i - 1 ELSE i

ActiveAfterClose(a, removed, survivor) ==
    Shifted(IF a = removed THEN survivor ELSE a, removed)

\* mutant: the sessions are let go of, not disconnected
Forgotten(ps) == dirty' = dirty \ ps /\ UNCHANGED <<kind, live, elsewhere>>
\* The panes of these tabs are gone, and their sessions are disconnected.
Retire(ps) == live' = live \ ps /\ dirty' = dirty \ ps /\ UNCHANGED <<kind, elsewhere>>

\* retire_tab and close_tab_now.
CloseTabNow(i) ==
    /\ tabs' = RemoveAt(tabs, i)
    /\ active' = IF Shifted(active, i) > Len(tabs) - 1 THEN Len(tabs) - 1
                 ELSE Shifted(active, i)
    /\ Retire(PanesOf(tabs[i]))

\* remove_pane
RemovePane(i, p) ==
    IF Len(tabs[i].panes) < 2 THEN CloseTabNow(i)
    ELSE /\ tabs' = [tabs EXCEPT ![i] = WithoutPane(@, p)]
         /\ Retire({p})
         /\ UNCHANGED active

Insert(i, t) == tabs' = InsertAt(tabs, i, t) /\ active' = i /\ nextTab' = nextTab + 1
-----------------------------------------------------------------------------
(* Opening.                                                                *)

Open(ks) ==
    /\ Room(Len(ks))
    /\ kind' = kind \o ks
    /\ live' = live \union {p \in Len(kind) + 1..Len(kind) + Len(ks):
                              ks[p - Len(kind)] # "editor"}
    /\ UNCHANGED <<dirty, elsewhere>>

NewPane == Len(kind) + 1

\* adopt_session
OpenSession ==
    /\ nextTab <= MaxTabs
    /\ Open(<<"terminal">>)
    /\ Insert(Len(tabs) + 1, Single(NewPane))
    /\ UNCHANGED <<menu, tabDrag, over, closeConfirm>>

\* open_session_with_tails: the files a profile follows beside its shell.
OpenWithTail ==
    /\ Idle
    /\ nextTab <= MaxTabs
    /\ Open(<<"terminal", "tail">>)
    /\ Insert(Len(tabs) + 1, [Single(NewPane) EXCEPT !.panes = <<NewPane, NewPane + 1>>])
    /\ UNCHANGED <<menu, tabDrag, over, closeConfirm>>

\* open_editor: a tab of its own after the active one.
OpenEditor ==
    /\ Idle
    /\ nextTab <= MaxTabs
    /\ Open(<<"editor">>)
    /\ Insert(active + 1, Single(NewPane))
    /\ UNCHANGED <<menu, tabDrag, over, closeConfirm>>

\* pane_of_file: a file that is open is shown again.
ShowEditor ==
    /\ Idle
    /\ \E i \in Indices: \E p \in PanesOf(tabs[i]):
          /\ kind[p] = "editor"
          /\ tabs' = [tabs EXCEPT ![i] = Focus(@, p)] /\ active' = i
    /\ UNCHANGED <<panes, menu, tabDrag, over, closeConfirm, nextTab>>

ActiveIs(k) == active > 0 /\ kind[tabs[active].active] \in k

\* active_session: the active pane's, or the first there is.
WithSession(t) ==
    IF kind[t.active] # "editor" THEN {t.active}
    ELSE {t.panes[i]: i \in {i \in DOMAIN t.panes:
            /\ kind[t.panes[i]] # "editor"
            /\ \A j \in 1..(i - 1): kind[t.panes[j]] = "editor"}}

\* duplicate_split, of a terminal large enough.
DuplicateSplit ==
    /\ Idle
    /\ ActiveIs({"terminal"})
    /\ Open(<<"terminal">>)
    /\ tabs' = [tabs EXCEPT ![active] =
                   Focus([@ EXCEPT !.panes = Beside(tabs[active], <<NewPane>>)], NewPane)]
    /\ UNCHANGED <<active, menu, tabDrag, over, closeConfirm, nextTab>>
-----------------------------------------------------------------------------
(* Moving about.                                                           *)

SelectTab ==
    /\ Idle
    /\ \E i \in Indices: i # active /\ active' = i
    /\ UNCHANGED <<tabs, panes, menu, tabDrag, over, closeConfirm, nextTab>>

\* on_pane_focused and cycle_pane
FocusPane ==
    /\ Idle
    /\ \E i \in Indices: \E p \in PanesOf(tabs[i]):
          p # tabs[i].active /\ tabs' = [tabs EXCEPT ![i] = Focus(@, p)]
    /\ UNCHANGED <<active, panes, menu, tabDrag, over, closeConfirm, nextTab>>

\* break_out_active_pane
BreakOut ==
    /\ Idle
    /\ active > 0 /\ Len(tabs[active].panes) > 1 /\ nextTab <= MaxTabs
    /\ LET p == tabs[active].active
       IN /\ tabs' = InsertAt([tabs EXCEPT ![active] = WithoutPane(@, p)], active + 1, Single(p))
          /\ active' = active + 1 /\ nextTab' = nextTab + 1
    /\ UNCHANGED <<panes, menu, tabDrag, over, closeConfirm>>

\* The strip is picked up by a tab; the drag notes which when it first moves.
PickUp ==
    /\ Idle
    /\ \E i \in Indices: tabDrag' = [index |-> i, id |-> tabs[i].id]
    /\ UNCHANGED <<strip, panes, menu, over, closeConfirm, nextTab>>

\* drag_over_tab
DragOver ==
    /\ tabDrag # NoTab /\ over = NoTab
    /\ tabDrag.index \in Indices
    /\ over' = [index |-> tabDrag.index, id |-> tabs[tabDrag.index].id]
    /\ UNCHANGED <<strip, panes, menu, tabDrag, closeConfirm, nextTab>>

\* mutant: a tab dropped in front of the active one does not push it on
NotPushed(a, from, at) == IF a = from THEN at ELSE Shifted(a, from)
ActiveAfterMove(a, from, at) ==
    IF a = from THEN at
    ELSE Shifted(a, from) + (IF at <= Shifted(a, from) THEN 1 ELSE 0)

\* move_tab: in front of the tab at "to".
MoveTab(from, to) ==
    IF from = to \/ from + 1 = to THEN UNCHANGED strip
    ELSE LET rest == RemoveAt(tabs, from)
             at == IF from < to THEN to - 1 ELSE to
         IN /\ tabs' = InsertAt(rest, at, tabs[from])
            /\ active' = ActiveAfterMove(active, from, at)

AtItsIndex(h) == {i \in Indices: i = h.index} \* mutant: the index it was picked up at
Held(h) == {i \in Indices: tabs[i].id = h.id}

\* drop_tab: the tab that was held, wherever it is by now.
Drop ==
    /\ over # NoTab
    /\ \/ \E from \in Held(over), to \in 1..Len(tabs) + 1: MoveTab(from, to)
       \/ Held(over) = {} /\ UNCHANGED strip
    /\ tabDrag' = NoTab /\ over' = NoTab
    /\ UNCHANGED <<panes, menu, closeConfirm, nextTab>>

\* end_tab_drag
EndTabDrag ==
    /\ tabDrag # NoTab
    /\ tabDrag' = NoTab /\ over' = NoTab
    /\ UNCHANGED <<strip, panes, menu, closeConfirm, nextTab>>
-----------------------------------------------------------------------------
(* Closing.                                                                *)

\* close_tab, from the strip: a tab of one unsaved file asks.
CloseTab(i) ==
    LET t == tabs[i]
    IN IF Len(t.panes) = 1 /\ t.panes[1] \in dirty
       THEN closeConfirm' = t.panes[1] /\ UNCHANGED <<strip, panes>>
       ELSE CloseTabNow(i) /\ UNCHANGED closeConfirm

CloseFromStrip ==
    /\ Idle
    /\ \E i \in Indices: CloseTab(i)
    /\ UNCHANGED <<menu, tabDrag, over, nextTab>>

\* close_active_pane and close_editor_pane
ClosePane ==
    /\ Idle /\ active > 0
    /\ LET p == tabs[active].active
       IN IF p \in dirty THEN closeConfirm' = p /\ UNCHANGED <<strip, panes>>
          ELSE RemovePane(active, p) /\ UNCHANGED closeConfirm
    /\ UNCHANGED <<menu, tabDrag, over, nextTab>>

\* confirm_close_editor, cancel_close_editor and close_saved_editor_pane: the pane
\* may have gone while the question stood.
Answer ==
    /\ closeConfirm # 0
    /\ closeConfirm' = 0
    /\ \/ UNCHANGED <<strip, panes>>
       \/ \E i \in Indices: closeConfirm \in PanesOf(tabs[i]) /\ RemovePane(i, closeConfirm)
    /\ UNCHANGED <<menu, tabDrag, over, nextTab>>

\* close_pane_for_session: a terminal whose session ended goes.
SessionEnds ==
    /\ \E i \in Indices: \E p \in PanesOf(tabs[i]) \intersect live:
          /\ kind[p] = "terminal"
          /\ RemovePane(i, p)
    /\ UNCHANGED <<menu, tabDrag, over, closeConfirm, nextTab>>

\* One session fewer, in a pane that shows what it said.
TailEnds ==
    /\ \E p \in live:
          kind[p] = "tail" /\ p \in Shown /\ live' = live \ {p}
    /\ UNCHANGED <<strip, kind, dirty, elsewhere, menu, tabDrag, over, closeConfirm, nextTab>>

\* reconnect_session
ReconnectSession ==
    /\ Idle
    /\ \E p \in Shown \ live: kind[p] # "editor" /\ live' = live \union {p}
    /\ UNCHANGED <<strip, kind, dirty, elsewhere, menu, tabDrag, over, closeConfirm, nextTab>>

\* A file is typed into, or saved.
Edit ==
    /\ Idle
    /\ \E p \in Shown:
          /\ kind[p] = "editor"
          /\ dirty' = IF p \in dirty THEN dirty \ {p} ELSE dirty \union {p}
    /\ UNCHANGED <<strip, kind, live, elsewhere, menu, tabDrag, over, closeConfirm, nextTab>>
-----------------------------------------------------------------------------
(* The menu of a tab: every command acts on the tab at its index.          *)

OpenMenu ==
    /\ Idle
    /\ \E i \in Indices: menu' = [index |-> i, id |-> tabs[i].id]
    /\ UNCHANGED <<strip, panes, tabDrag, over, closeConfirm, nextTab>>

CloseMenu ==
    /\ menu # NoTab
    /\ menu' = NoTab
    /\ UNCHANGED <<strip, panes, tabDrag, over, closeConfirm, nextTab>>

Lone(i) == Len(tabs[i].panes) = 1 /\ tabs[i].active \in dirty \* mutant: unsaved_lone_editor
HoldsUnsaved(i) == PanesOf(tabs[i]) \intersect dirty # {}

\* The strip after the last n of its tabs were visited, from the last on: a tab to
\* be closed is taken out, and the active one and the survivor follow.
BulkClosed(closing, survivor) ==
    LET after[n \in 0..Len(tabs)] ==
            IF n = 0 THEN [tabs |-> tabs, active |-> active, kept |-> survivor]
            ELSE LET before == after[n - 1]
                     o == Len(tabs) + 1 - n
                 IN IF o \notin closing THEN before
                    ELSE [tabs |-> RemoveAt(before.tabs, o),
                          active |-> ActiveAfterClose(before.active, o, before.kept),
                          kept |-> Shifted(before.kept, o)]
    IN after

\* close_other_tabs and close_tabs_right
BulkClose(closing, survivor) ==
    LET closed == BulkClosed(closing, survivor)[Len(tabs)]
    IN /\ tabs' = closed.tabs /\ active' = closed.active
       /\ Retire(UNION {PanesOf(tabs[o]): o \in closing})

\* merge_tab_into_active
Merge(i) ==
    /\ i # active /\ ActiveIs({"terminal"})
    /\ LET target == tabs[active]
           merged == [target EXCEPT !.panes = Beside(target, tabs[i].panes),
                                    !.order = @ \o tabs[i].order]
       IN tabs' = RemoveAt([tabs EXCEPT ![active] = Focus(merged, tabs[i].active)], i)
    /\ active' = Shifted(active, i)
    /\ UNCHANGED panes

\* detach_tab: its panes are another window's now.
Detach(i) ==
    /\ tabs' = RemoveAt(tabs, i)
    /\ active' = IF Shifted(active, i) > Len(tabs) - 1 THEN Len(tabs) - 1
                 ELSE Shifted(active, i)
    /\ elsewhere' = elsewhere \union PanesOf(tabs[i])

\* adopt_tab, where the tab came from.
AdoptAgain(i) ==
    /\ tabs' = Append(RemoveAt(tabs, i), tabs[i])
    /\ active' = Len(tabs)
    /\ UNCHANGED elsewhere

\* move_tab_to_new_window: the tab comes back when no window opens.
MoveOut(i) ==
    /\ Len(tabs) > 1
    /\ Detach(i) \/ AdoptAgain(i)
    /\ UNCHANGED <<kind, live, dirty>>

\* duplicate_tab
Duplicate(i) ==
    /\ nextTab <= MaxTabs
    /\ \E p \in WithSession(tabs[i]): Open(<<kind[p]>>)
    /\ Insert(i + 1, Single(NewPane))

Bulk(i) ==
    \E closing \in {Indices \ {i}, {j \in Indices: j > i}}:
        /\ BulkClose({j \in closing: ~HoldsUnsaved(j)}, i)
        /\ UNCHANGED closeConfirm

MenuCommand ==
    /\ menu.index \in Indices
    /\ \/ CloseTab(menu.index) /\ UNCHANGED nextTab
       \/ Bulk(menu.index) /\ UNCHANGED nextTab
       \/ Merge(menu.index) /\ UNCHANGED <<closeConfirm, nextTab>>
       \/ MoveOut(menu.index) /\ UNCHANGED <<closeConfirm, nextTab>>
       \/ Duplicate(menu.index) /\ UNCHANGED closeConfirm
    /\ menu' = NoTab
    /\ UNCHANGED <<tabDrag, over>>
Next ==
    \/ OpenSession \/ OpenWithTail \/ OpenEditor \/ ShowEditor \/ DuplicateSplit
    \/ SelectTab \/ FocusPane \/ BreakOut \/ PickUp \/ DragOver \/ Drop \/ EndTabDrag
    \/ CloseFromStrip \/ ClosePane \/ Answer \/ SessionEnds \/ TailEnds \/ ReconnectSession
    \/ Edit \/ OpenMenu \/ CloseMenu \/ MenuCommand
Spec == Init /\ [][Next]_vars
-----------------------------------------------------------------------------
(* Properties.                                                             *)

Tab == [id: 1..nextTab, panes: Seq(Opened), active: Opened, order: Seq(Opened)]

\* The values the variables of the window range over.
TypeOK ==
    /\ \A i \in Indices: tabs[i] \in Tab
    /\ active \in 0..Len(tabs) /\ (active = 0 <=> tabs = << >>)
    /\ kind \in Seq({"terminal", "editor", "tail"})
    /\ live \union dirty \union elsewhere \subseteq Opened
    /\ closeConfirm \in 0..Len(kind)

\* Whatever was split, merged, broken out or ended, a pane is in one place of one
\* tab, and the focus order of a tab ends with its active pane and names each of
\* its panes at most once: the next pane to take the focus is always there
\* (focus_successor, prune_focus_order).
TabsSound ==
    /\ \A i, j \in Indices: i # j =>
          tabs[i].id # tabs[j].id /\ PanesOf(tabs[i]) \intersect PanesOf(tabs[j]) = {}
    /\ \A i \in Indices:
          /\ IsInjective(tabs[i].panes) /\ IsInjective(tabs[i].order)
          /\ ToSet(tabs[i].order) \subseteq PanesOf(tabs[i])
          /\ tabs[i].active = Last(tabs[i].order)

\* No session stays connected, and no unsaved file stays, outside every window.
NothingLeftBehind == live \union dirty \subseteq Shown \union elsewhere

\* The window is sound: each pane is in one place, and none was left behind.
WindowSound == TypeOK /\ TabsSound /\ NothingLeftBehind

\* The user goes on seeing the tab he is in when a session ends, when other tabs
\* are closed from the strip or from a menu and when a tab is dropped, unless that
\* tab is what went (active_after_close, move_tab).
ActiveStays ==
    SessionEnds \/ CloseFromStrip \/ Answer \/ Drop
    \/ (menu.index \in Indices /\ Bulk(menu.index)) =>
        \A i \in Indices: i = active /\ tabs[i].id \in ToSet(Ids(tabs')) =>
            tabs'[active'].id = tabs[i].id

InFrontOf(ts, t, u) == \E i, j \in 1..Len(ts): i < j /\ ts[i] = t /\ ts[j] = u

\* A drop moves the tab that was held when the drag moved over the strip and no
\* other one, whatever closed in between (drop_tab).
DropMovesHeld ==
    Drop =>
        /\ ToSet(tabs') = ToSet(tabs)
        /\ \A t, u \in {t \in ToSet(tabs): t.id # over.id}:
               InFrontOf(tabs, t, u) <=> InFrontOf(tabs', t, u)

\* The tabs a bulk close takes hold no unsaved file (close_other_tabs).
BulkKeepsUnsaved ==
    menu.index \in Indices /\ Bulk(menu.index) => dirty' = dirty

\* What a step of the strip, the menus and the drag leaves of the other tabs.
OthersStay == [][ActiveStays /\ DropMovesHeld /\ BulkKeepsUnsaved]_vars

\* "The tab a right-click opened a context menu for": a command acts on that one.
MenuActsOnItsTab ==
    [][MenuCommand /\ strip' # strip => tabs[menu.index].id = menu.id]_vars
=============================================================================
