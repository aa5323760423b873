----------------------------- MODULE PanelMenus -----------------------------
(***************************************************************************)
(* What the user points at in the file panel (crates/rulogman-app/src/     *)
(* file_panel/navigation.rs, keyboard.rs, and the selection of             *)
(* file_panel.rs): rows selected by mouse and keyboard, the one menu the   *)
(* panel may show, the pieces of the path that ask before they open, and   *)
(* files opened in an editor.  FilePanel models the questions and batches  *)
(* that follow from it.                                                    *)
(*                                                                         *)
(* Listings, the menus of the path and files arrive when they do, while    *)
(* the panel is turned to another session and back.  A row is its place in *)
(* the order listings are sorted by; others change what directories hold,  *)
(* so a listing is any set of rows.                                        *)
(***************************************************************************)
EXTENDS Naturals, Sequences, FiniteSets

CONSTANTS
    Sessions,  \* sessions the panel may show: a symmetric set of model values
    Folders,   \* directories
    Rows,      \* the rows a listing may have, 1..n
    NoPlace,   \* no session, no directory: a model value
    MaxAsks    \* bound: listings, menus and files asked for

ASSUME MenusAssumption ==
    /\ NoPlace \notin Sessions \union Folders
    /\ MaxAsks \in Nat /\ IsFiniteSet(Rows) /\ Rows = 1..Cardinality(Rows)

VARIABLES
    panelOf,   \* the session on screen
    browsing,  \* SessionState of each session: directory, rows, selection
    panelMenu, \* the open menu
    crumbAsked,\* crumb_pending
    answers,   \* what sources were asked for and have not answered
    asksMade,  \* how many times they were
    panes      \* editor panes

menuVars == <<panelOf, browsing, panelMenu, crumbAsked, answers, asksMade, panes>>

NoRow == 0
NoMenu == [kind |-> "none", of |-> NoPlace]
Blank == [path |-> NoPlace, rows |-> {}, chosen |-> {}, anchor |-> NoRow, cursor |-> NoRow,
          asked |-> 0, where |-> NoPlace]

\* new, and the first listing of the session it was first turned to.
MenusInit ==
    /\ panelOf \in Sessions
    /\ \E dir \in Folders:
          browsing = [t \in Sessions |->
              IF t = panelOf THEN [Blank EXCEPT !.path = dir, !.rows = Rows, !.asked = 1]
              ELSE Blank]
    /\ panelMenu = NoMenu /\ crumbAsked = FALSE
    /\ answers = {} /\ asksMade = 0 /\ panes = << >>

Here == browsing[panelOf]
ActOn == panelOf # NoPlace /\ Here.path # NoPlace \* acting_on, of a session still connected
Put(state) == browsing' = [browsing EXCEPT ![panelOf] = state]
Send(q) ==
    /\ asksMade < MaxAsks
    /\ asksMade' = asksMade + 1
    /\ answers' = answers \union {[q EXCEPT !.id = asksMade + 1]}
Query(what, dir, row, n) ==
    [what |-> what, of |-> panelOf, dir |-> dir, row |-> row, number |-> n, id |-> 0]
-----------------------------------------------------------------------------
(* Sessions and listings.                                                  *)

\* mutant: a menu stays open across sessions
ShowAnother(t) ==
    /\ t # panelOf
    /\ panelOf' = t
    /\ UNCHANGED <<browsing, panelMenu, crumbAsked, answers, asksMade, panes>>

\* set_session, which puts the menu away.
ShowTab(t) ==
    /\ t # panelOf
    /\ panelOf' = t
    /\ panelMenu' = NoMenu
    /\ UNCHANGED <<browsing, crumbAsked, answers, asksMade, panes>>

\* forget_session: the state goes, and the panel is of nobody; the menu that hung
\* over it has nothing left to act on.
ForgetTab ==
    /\ panelOf # NoPlace
    /\ Put(Blank)
    /\ panelOf' = NoPlace
    /\ UNCHANGED <<panelMenu, crumbAsked, answers, asksMade, panes>>

\* go: sync, open_path, open_parent, activate over a directory, refresh.
GoTo(dir) ==
    /\ panelOf # NoPlace
    /\ Send(Query("list", dir, NoRow, Here.asked + 1))
    /\ Put([Here EXCEPT !.asked = @ + 1])
    /\ UNCHANGED <<panelOf, panelMenu, crumbAsked, panes>>

StandingSelection(s) == s \* mutant: the selection stands in the new directory
\* reset_selection
DropSelection(s) ==
    [s EXCEPT !.chosen = {}, !.anchor = NoRow, !.cursor = NoRow, !.where = NoPlace]

\* listing_arrived
RowsArrive(q) ==
    /\ q.what = "list"
    /\ answers' = answers \ {q}
    /\ LET s == browsing[q.of]
       IN \/ q.number # s.asked /\ UNCHANGED browsing
          \/ UNCHANGED browsing \* the listing failed, and that is said
          \/ /\ q.number = s.asked
             /\ \E rows \in SUBSET Rows:
                   browsing' = [browsing EXCEPT ![q.of] =
                       [(IF s.path = q.dir THEN s ELSE DropSelection(s))
                            EXCEPT !.path = q.dir, !.rows = rows]]
    /\ UNCHANGED <<panelOf, panelMenu, crumbAsked, asksMade, panes>>
-----------------------------------------------------------------------------
(* The selection.                                                          *)

\* selection and only_selected: what is chosen and listed.
Selection == Here.chosen \intersect Here.rows
SelectOnly(s, r) == [s EXCEPT !.chosen = {r}, !.anchor = r, !.where = s.path]

\* The rows from one to the other, as they are displayed.
RangeOf(rows, a, b) ==
    {r \in rows: (a <= r /\ r <= b) \/ (b <= r /\ r <= a)}

\* select: a plain click, with Ctrl, and with Shift from the anchor.
Clicked(s, r, how) ==
    [(CASE how = "toggle" ->
             [s EXCEPT !.chosen = IF r \in @ THEN @ \ {r} ELSE @ \union {r},
                       !.anchor = r, !.where = s.path]
        [] how = "range" /\ s.anchor \in s.rows ->
             [s EXCEPT !.chosen = RangeOf(s.rows, s.anchor, r)]
        [] OTHER -> SelectOnly(s, r)) EXCEPT !.cursor = r]

OnRows == panelOf # NoPlace /\ UNCHANGED <<panelOf, crumbAsked, answers, asksMade, panes>>

ClickRow ==
    /\ OnRows /\ UNCHANGED panelMenu
    /\ \E r \in Here.rows, how \in {"plain", "toggle", "range"}: Put(Clicked(Here, r, how))

SelectAll ==
    /\ OnRows /\ UNCHANGED panelMenu
    /\ Here.rows # {}
    /\ LET first == CHOOSE r \in Here.rows: \A o \in Here.rows: r <= o
       IN Put([Here EXCEPT !.chosen = Here.rows, !.anchor = first, !.where = Here.path])

\* put_cursor
PutCursor(s, r, extend) ==
    IF extend /\ s.anchor # NoRow THEN Clicked(s, r, "range")
    ELSE [SelectOnly(s, r) EXCEPT !.cursor = r]

\* stepped_row: one row down or up, held at the ends; a page is a longer step.
Stepped(rows, from, down) ==
    LET ahead == {r \in rows: IF down THEN r > from ELSE r < from}
        nearest == CHOOSE r \in ahead: \A o \in ahead: IF down THEN r <= o ELSE o <= r
        ends == {r \in rows: \A o \in rows: IF down THEN r <= o ELSE o <= r}
    IN CASE from = NoRow -> CHOOSE r \in ends: TRUE
         [] from # NoRow /\ ahead = {} -> from
         [] OTHER -> nearest

\* step
StepRows ==
    /\ OnRows /\ UNCHANGED panelMenu
    /\ Here.rows # {}
    /\ LET from == IF Here.cursor \in Here.rows THEN Here.cursor
                   ELSE IF Here.anchor \in Here.rows THEN Here.anchor ELSE NoRow
       IN \E down \in BOOLEAN, extend \in BOOLEAN:
             Put(PutCursor(Here, Stepped(Here.rows, from, down), extend))

\* type_ahead: the name found, if there is one.
TypeAhead ==
    /\ OnRows /\ UNCHANGED panelMenu
    /\ \E r \in Here.rows: Put(PutCursor(Here, r, FALSE))
-----------------------------------------------------------------------------
(* The menu.                                                               *)

\* open_context: a row that is not chosen is chosen first.
OpenContext ==
    /\ OnRows /\ Here.path # NoPlace
    /\ \E r \in Here.rows \union {NoRow}:
          /\ Put(IF r = NoRow \/ r \in Here.chosen THEN Here ELSE SelectOnly(Here, r))
          /\ panelMenu' = [kind |-> "listing", of |-> panelOf]

\* close_context
PutMenuAway ==
    /\ panelMenu # NoMenu
    /\ panelMenu' = NoMenu
    /\ UNCHANGED <<panelOf, browsing, crumbAsked, answers, asksMade, panes>>

\* open_crumb: the folded pieces are known.
OpenFolded ==
    /\ ActOn
    /\ panelMenu' = [kind |-> "crumb", of |-> panelOf]
    /\ UNCHANGED <<panelOf, browsing, crumbAsked, answers, asksMade, panes>>

\* list_roots and list_siblings: one request at a time for the whole panel.  Which
\* directory of the path it is about tells nothing here.
AskCrumb(what) ==
    /\ ActOn /\ ~crumbAsked
    /\ crumbAsked' = TRUE
    /\ Send(Query(what, NoPlace, NoRow, 0))
    /\ UNCHANGED <<panelOf, browsing, panelMenu, panes>>

AnswerOfAny(q) == TRUE \* mutant: the answer opens over another session
AnswerOfShown(q) == panelOf = q.of

\* roots_arrived with a choice, and siblings_arrived: nothing to offer opens nothing,
\* and a failure is said.
CrumbArrives(q) ==
    /\ q.what \in {"roots", "siblings"}
    /\ answers' = answers \ {q}
    /\ crumbAsked' = FALSE
    /\ panelMenu' \in IF AnswerOfShown(q) THEN {panelMenu, [kind |-> "crumb", of |-> q.of]} ELSE {panelMenu}
    /\ UNCHANGED <<panelOf, browsing, asksMade, panes>>

\* roots_arrived without one: the root's own directories are asked for instead.
RootAlone(q) ==
    /\ q.what = "roots" /\ panelOf = q.of /\ ActOn
    /\ crumbAsked' = TRUE
    /\ answers' = (answers \ {q}) \union {[q EXCEPT !.what = "siblings"]}
    /\ UNCHANGED <<panelOf, browsing, panelMenu, asksMade, panes>>
-----------------------------------------------------------------------------
(* Files.                                                                  *)

\* edit, from the menu, Enter or a double click, over one file: read_file, then
\* writable and root_access.
EditFile ==
    /\ ActOn
    /\ \E r \in Selection:
          /\ Selection = {r}
          /\ Send(Query("file", Here.path, r, 0))
    /\ UNCHANGED <<panelOf, browsing, panelMenu, crumbAsked, panes>>

\* mutant: every file read gets a pane
PaneForEach(q) == FALSE
\* pane_of_file: a pane of this window on the same file of the same session.
PaneOfFile(q) ==
    \E i \in 1..Len(panes):
        /\ panes[i].here
        /\ panes[i].of = q.of /\ panes[i].dir = q.dir /\ panes[i].row = q.row

\* open_editor, also when the tab that asked is gone; or the file cannot be edited.
FileArrives(q) ==
    /\ q.what = "file"
    /\ answers' = answers \ {q}
    /\ panes' \in IF PaneOfFile(q) THEN {panes}
                   ELSE {panes, Append(panes, [of |-> q.of, dir |-> q.dir, row |-> q.row,
                                                 here |-> TRUE])}
    /\ UNCHANGED <<panelOf, browsing, panelMenu, crumbAsked, asksMade>>

\* detach_tab and adopt_tab: the file moves to another window, with a panel of its own.
TakeAway ==
    /\ \E i \in 1..Len(panes):
          /\ panes[i].here
          /\ panes' = [panes EXCEPT ![i].here = FALSE]
    /\ UNCHANGED <<panelOf, browsing, panelMenu, crumbAsked, answers, asksMade>>
-----------------------------------------------------------------------------
MenusNext ==
    \/ \E t \in Sessions: ShowTab(t)
    \/ ForgetTab
    \/ \E dir \in Folders: GoTo(dir)
    \/ ClickRow \/ SelectAll \/ StepRows \/ TypeAhead
    \/ OpenContext \/ PutMenuAway \/ OpenFolded
    \/ AskCrumb("roots") \/ AskCrumb("siblings")
    \/ \E q \in answers: RowsArrive(q) \/ CrumbArrives(q) \/ RootAlone(q) \/ FileArrives(q)
    \/ EditFile \/ TakeAway

MenusSpec == MenusInit /\ [][MenusNext]_menuVars
-----------------------------------------------------------------------------
(* Properties.                                                             *)

\* The values the panel's pointers range over; a row chosen is one of a listing.
MenuTypes ==
    /\ panelOf \in Sessions \union {NoPlace} /\ crumbAsked \in BOOLEAN
    /\ panelMenu.kind \in {"none", "listing", "crumb"}
    /\ \A t \in Sessions:
          LET s == browsing[t]
          IN /\ s.path \in Folders \union {NoPlace} /\ s.rows \subseteq Rows
             /\ s.chosen \subseteq Rows
             /\ s.anchor \in Rows \union {NoRow} /\ s.cursor \in Rows \union {NoRow}

\* "opening a menu of its paths over another session's listing would navigate the
\* wrong panel" (navigation.rs): the menu that is up is of the session on screen,
\* however late its answer came.
MenuOfShown == panelMenu # NoMenu /\ panelOf # NoPlace => panelMenu.of = panelOf

\* "staying on the old names would let the delete act on files from a directory that
\* is no longer on screen" (listing_arrived): what is chosen was chosen in the
\* directory listed now.
ChosenHere ==
    \A t \in Sessions: browsing[t].chosen # {} => browsing[t].where = browsing[t].path

\* The path's pieces answer one press at a time and are never left waiting: the flag
\* is up exactly while a request is under way.
OneCrumbAsked ==
    crumbAsked = (Cardinality({q \in answers: q.what \in {"roots", "siblings"}}) = 1)

\* "two panes editing one file would each write the other's work away" (tabs.rs):
\* two reads of one file that race end in one pane of the window.
OneBufferPerFile ==
    \A i, j \in 1..Len(panes):
        panes[i] = panes[j] /\ panes[i].here => i = j

\* What is selected, offered and opened belongs to what the panel shows.
MenusSound == MenuTypes /\ MenuOfShown /\ ChosenHere /\ OneCrumbAsked /\ OneBufferPerFile

\* The same for every window: not so, a file taken to another window is opened
\* again in the first.  Kept beside the runs.
OneBufferAnywhere ==
    \A i, j \in 1..Len(panes): [panes[i] EXCEPT !.here = TRUE] = [panes[j] EXCEPT !.here = TRUE] => i = j
=============================================================================
