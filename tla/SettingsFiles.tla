--------------------------- MODULE SettingsFiles ---------------------------
(***************************************************************************)
(* settings.json and dashboards.json (crates/rulogman-app/src/             *)
(* app_settings.rs, settings_dialog.rs, workspace/dashboards.rs).          *)
(*                                                                         *)
(* The settings are one value for the application, loaded once and         *)
(* replaced when a dialog applies its form.  Each window has a settings    *)
(* dialog of its own, which works on what it read when it opened, and a    *)
(* copy of the dashboards; a tab of any window can write one dashboard     *)
(* meanwhile.  Either file may be damaged, and the program may crash.      *)
(***************************************************************************)
EXTENDS Naturals, FiniteSets

CONSTANTS
    AppWindows,
    MaxBoards,  \* bound: dashboards, named by 1..MaxBoards
    MaxTurns, \* bound: changes of a form, a tab, the window or the release ignored
    MaxDamage   \* bound: times a file is damaged or a write fails

ASSUME SettingsFilesAssumption ==
    MaxBoards \in Nat \ {0} /\ {MaxTurns, MaxDamage} \subseteq Nat

VARIABLES
    settings,   \* settings.json
    unreadable, \* the files that cannot be read now
    current,    \* CurrentSettings
    loadError,  \* UnreadableSettings: current stands in for a file not read
    moved,      \* history: the placement of the window moved last
    boards,     \* dashboards.json, by id
    seen,       \* the dashboards each window has listed: a tab of it may show one
    dialog,     \* each window's settings dialog
    turns,      \* changes so far
    damage      \* damages and failures so far

settingsVars == <<settings, unreadable, current, loadError, moved, boards, seen, dialog,
                  turns, damage>>

\* A choice of the form, the window's placement, the release not to be told about.
Settings == [look: 0..1, place: 0..1, ignored: BOOLEAN]
Defaults == [look |-> 0, place |-> 0, ignored |-> FALSE]

\* What the form edits of a dashboard (its panes, their commands and colors), and the
\* arrangement saved from a tab, which the form carries along; 0 is none.
Boards == [made: 0..1, layout: 0..1]

Shut == [open |-> FALSE, base |-> Defaults, look |-> 0, rows |-> << >>, layouts |-> << >>,
         refused |-> FALSE, edited |-> FALSE, stale |-> FALSE]

SettingsInit ==
    /\ settings = [Defaults EXCEPT !.look = 1] /\ unreadable \in SUBSET {"settings", "boards"}
    /\ loadError = ("settings" \in unreadable)
    /\ current = (IF loadError THEN Defaults ELSE settings) /\ moved = 0
    /\ boards = [b \in {1} |-> [made |-> 0, layout |-> 1]]
    /\ seen = [w \in AppWindows |-> IF "boards" \in unreadable THEN {} ELSE DOMAIN boards]
    /\ dialog = [w \in AppWindows |-> Shut] /\ turns = 0 /\ damage = 0

Fails == damage < MaxDamage /\ damage' = damage + 1
Succeeds == UNCHANGED damage
Changes == turns < MaxTurns /\ turns' = turns + 1

\* The dialogs, once dashboards.json was written by a window's tab or dialog.
Outdated(w) == [x \in AppWindows |-> IF x = w THEN dialog[x] ELSE [dialog[x] EXCEPT !.stale = @ \/ dialog[x].open]]
-----------------------------------------------------------------------------
(* The settings global.                                                    *)

\* record_window_geometry
MoveWindow ==
    /\ Changes /\ moved' = 1 - moved /\ current' = [current EXCEPT !.place = moved']
    /\ UNCHANGED <<settings, unreadable, loadError, boards, seen, dialog, damage>>

\* write: nothing goes over a file that could not be read at start-up.
Write(value) ==
    IF loadError
    THEN UNCHANGED <<settings, unreadable, damage>>
    ELSE \/ Succeeds /\ settings' = value /\ unreadable' = unreadable \ {"settings"}
         \/ Fails /\ UNCHANGED <<settings, unreadable>>

\* IgnoredUpdate.set_ignored: replaced whether or not it could be written.
Ignore ==
    /\ Changes /\ current' = [current EXCEPT !.ignored = ~@]
    /\ Write(current')
    /\ UNCHANGED <<loadError, moved, boards, seen, dialog>>

\* init, for the file as it is left behind.
Launch(left, bad) ==
    /\ loadError' = ("settings" \in bad)
    /\ current' = (IF loadError' THEN Defaults ELSE left)
    /\ moved' = current'.place
    /\ seen' = [w \in AppWindows |-> IF "boards" \in bad THEN {} ELSE DOMAIN boards]
    /\ dialog' = [w \in AppWindows |-> Shut]

\* save_on_exit, then the next launch.
Quit ==
    /\ Write(current)
    /\ Launch(settings', unreadable')
    /\ UNCHANGED boards

Crash == Launch(settings, unreadable) /\ UNCHANGED <<settings, unreadable, boards, damage>>
-----------------------------------------------------------------------------
(* The settings dialog.                                                    *)

\* open and load_dashboards
OpenSettings ==
    /\ \E w \in AppWindows:
          LET stored == IF "boards" \in unreadable THEN << >> ELSE boards
          IN /\ ~dialog[w].open
             /\ dialog' = [dialog EXCEPT ![w] =
                   [open |-> TRUE, base |-> current, look |-> current.look,
                    rows |-> [b \in DOMAIN stored |-> stored[b].made],
                    layouts |-> [b \in DOMAIN stored |-> stored[b].layout],
                    refused |-> "boards" \in unreadable, edited |-> FALSE,
                    stale |-> FALSE]]
    /\ UNCHANGED <<settings, unreadable, current, loadError, moved, boards, seen, damage>>

\* A choice, a dashboard added or removed, or one whose panes or colors change.
EditSettings ==
    /\ Changes
    /\ \E w \in AppWindows:
          LET d == dialog[w]
              Rows(r) == dialog' = [dialog EXCEPT ![w].rows = r, ![w].edited = TRUE]
          IN /\ d.open
             /\ \/ dialog' = [dialog EXCEPT ![w].look = 1 - @]
                \/ \E b \in 1..MaxBoards \ DOMAIN d.rows:
                      Rows([x \in DOMAIN d.rows \union {b} |-> IF x = b THEN 0 ELSE d.rows[x]])
                \/ \E b \in DOMAIN d.rows: Rows([x \in DOMAIN d.rows \ {b} |-> d.rows[x]])
                \/ \E b \in DOMAIN d.rows: Rows([d.rows EXCEPT ![b] = 1 - @])
    /\ UNCHANGED <<settings, unreadable, current, loadError, moved, boards, seen, damage>>

\* close and dismiss
DismissSettings ==
    /\ \E w \in AppWindows: dialog[w].open /\ dialog' = [dialog EXCEPT ![w] = Shut]
    /\ UNCHANGED <<settings, unreadable, current, loadError, moved, boards, seen, damage>>

LayoutDropped(d, b) == 0 \* mutant: a save forgets the arrangements
\* The arrangement the form cannot edit, as it was when the dialog opened.
Carried(d, b) == IF b \in DOMAIN d.layouts THEN d.layouts[b] ELSE 0

AsItWas(d) == d.base.place \* mutant: the placement of the snapshot
\* carry_window_geometry
Placement(d) == current.place

\* save: dashboards.json first, then settings.json, then the settings are applied.
SaveSettings(w) ==
    LET d == dialog[w]
        rows == [b \in DOMAIN d.rows |-> [made |-> d.rows[b], layout |-> Carried(d, b)]]
        new == [d.base EXCEPT !.look = d.look, !.place = Placement(d)]
    IN /\ d.open /\ ~loadError /\ ~d.refused
       /\ UNCHANGED <<loadError, moved>>
       /\ \/ \* dashboards.json cannot be written
             Fails /\ UNCHANGED <<settings, unreadable, current, boards, seen, dialog>>
          \/ \* settings.json cannot be written
             /\ Fails /\ boards' = rows /\ unreadable' = unreadable \ {"boards"}
             /\ dialog' = Outdated(w) /\ UNCHANGED <<settings, current, seen>>
          \/ /\ Succeeds /\ boards' = rows /\ unreadable' = {}
             /\ settings' = new /\ current' = new
             /\ seen' = [seen EXCEPT ![w] = @ \union DOMAIN rows]
             /\ dialog' = [Outdated(w) EXCEPT ![w] = Shut]
-----------------------------------------------------------------------------
(* A dashboard's tab.                                                      *)

\* What a window puts into the file: the change made to it, and the entry changed.
Upsert(w, b, board) ==
    LET stored == [x \in DOMAIN boards \union {b} |-> IF x = b THEN board ELSE boards[x]]
    IN /\ seen' = [seen EXCEPT ![w] = @ \union DOMAIN stored]
       /\ \/ Succeeds /\ boards' = stored /\ dialog' = Outdated(w)
          \/ Fails /\ UNCHANGED <<boards, dialog>>

\* save_tab_layout: the panes on screen, over the file as it is now.
SaveLayout ==
    /\ "boards" \notin unreadable /\ Changes
    /\ \E w \in AppWindows: \E b \in seen[w], made \in 0..1:
          /\ ~dialog[w].open
          /\ Upsert(w, b, [made |-> made, layout |-> 1])
    /\ UNCHANGED <<settings, unreadable, current, loadError, moved>>

\* persist_pane_color: a pane the stored dashboard has.
PickColor ==
    /\ "boards" \notin unreadable /\ Changes
    /\ \E w \in AppWindows: \E b \in seen[w] \intersect DOMAIN boards:
          /\ ~dialog[w].open /\ Upsert(w, b, [boards[b] EXCEPT !.made = 1 - @])
    /\ UNCHANGED <<settings, unreadable, current, loadError, moved>>
-----------------------------------------------------------------------------
Damaged ==
    /\ Fails
    /\ \E f \in {"settings", "boards"} \ unreadable: unreadable' = unreadable \union {f}
    /\ UNCHANGED <<settings, current, loadError, moved, boards, seen, dialog>>

Repaired ==
    /\ \E f \in unreadable: unreadable' = unreadable \ {f}
    /\ UNCHANGED <<settings, current, loadError, moved, boards, seen, dialog, damage>>

SettingsNext ==
    \/ MoveWindow \/ Ignore \/ EditSettings \/ SaveLayout \/ PickColor
    \/ /\ UNCHANGED turns
       /\ \/ Quit \/ Crash \/ OpenSettings \/ DismissSettings
          \/ \E w \in AppWindows: SaveSettings(w)
          \/ Damaged \/ Repaired
-----------------------------------------------------------------------------
(* Properties.                                                             *)

SettingsTypes ==
    /\ settings \in Settings /\ current \in Settings
    /\ DOMAIN boards \subseteq 1..MaxBoards /\ \A b \in DOMAIN boards: boards[b] \in Boards

(* The settings file and the window's placement survive the dialogs: while the
   settings are defaults standing in for a file that could not be read, nothing
   is written over it, by a dialog, a release to ignore or the exit; and a save
   never puts a window's placement back to what it was when the dialog opened. *)
SettingsKept ==
    /\ loadError => settings' = settings
    /\ current'.place = moved'

(* A dashboard is not lost to a save that was not about it: a dialog whose
   dashboards were left alone writes them back as they were, arrangements
   included, unless another window wrote them meanwhile; a dashboard the dialog
   could not show is not written over; and a tab writes its own dashboard only. *)
BoardsKept ==
    /\ \A w \in AppWindows:
          SaveSettings(w) /\ ~dialog[w].edited /\ ~dialog[w].stale => boards' = boards
    /\ (\A w \in AppWindows: ~SaveSettings(w)) =>
          /\ DOMAIN boards \subseteq DOMAIN boards'
          /\ Cardinality({b \in DOMAIN boards: boards'[b] # boards[b]}) <= 1
=============================================================================
