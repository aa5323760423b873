---------------------------- MODULE TerminalMouse ----------------------------
(***************************************************************************)
(* The mouse over a terminal pane: reported to the program while it tracks *)
(* it, the user's own otherwise or with shift or option held               *)
(* (crates/rulogman-app/src/terminal_view.rs, and encode_mouse of          *)
(* crates/rulogman-term/src/keys.rs).                                      *)
(*                                                                         *)
(* A position of the pointer is near, far (past what the legacy reports    *)
(* can say) or outside the grid.  What is kept of the reports is what the  *)
(* program makes of them.                                                  *)
(***************************************************************************)
EXTENDS Naturals, FiniteSets

CONSTANTS
    Buttons,   \* the buttons of the mouse, "left" among them
    Positions, \* within {"near", "far", "outside"}
    MaxModes,  \* bound: how often the program changes its modes
    MaxHides   \* bound: how often the pane is hidden

VARIABLES
    modes,      \* the terminal's: mouse and sgr
    pointer,    \* where the pointer is
    held,       \* the buttons that are down
    shown,      \* whether the pane is on the screen
    pressModes, \* mouse_press_modes
    reported,   \* mouse_press_reported
    lastCell,   \* last_mouse_cell
    selecting,  \* whether a local selection drag is in flight
    told,       \* the modes the program was told of a press in, until it is told of its release
    motion,     \* the last motion the program was told of
    missed,     \* the buttons whose release could not be told
    turns       \* counts changes of the modes and of the tab

mouseVars == <<modes, pointer, held, shown, pressModes, reported, lastCell, selecting, told, motion, missed, turns>>

None == "none"
NoModes == [mouse |-> "off", sgr |-> FALSE]
MouseModes == [mouse: {"off", "click", "drag", "motion"}, sgr: BOOLEAN]

MouseInit ==
    /\ modes = NoModes /\ pointer = "near" /\ held = {} /\ shown = TRUE
    /\ pressModes = [b \in Buttons |-> NoModes] /\ reported = [b \in Buttons |-> FALSE]
    /\ lastCell = None /\ selecting = FALSE
    /\ told = [b \in Buttons |-> NoModes] /\ motion = [button |-> None, mode |-> "off"] /\ missed = {}
    /\ turns = [modes |-> 0, hides |-> 0]

Reporting(m) == m.mouse # "off"

\* report_cell_at
InGrid(p) == p # "outside"

\* encode_mouse: what can be said of a position.
Encodable(p, m) == Reporting(m) /\ (m.sgr \/ p # "far")

\* capture_mouse_press, of a press that does not bypass the program
Capture(b) ==
    LET says == InGrid(pointer) /\ Encodable(pointer, modes)
    IN /\ pressModes' = [pressModes EXCEPT ![b] = modes]
       /\ reported' = [reported EXCEPT ![b] = says]
       /\ lastCell' = IF says THEN pointer ELSE lastCell
       /\ told' = IF says THEN [told EXCEPT ![b] = modes] ELSE told
       /\ selecting' = FALSE

\* on_mouse_down, on_right_mouse_down and on_middle_mouse_down, where they paste nothing:
\* a press with shift or option is the user's own.
Press(b, bypass) ==
    /\ shown /\ b \notin held /\ InGrid(pointer)
    /\ held' = held \cup {b}
    /\ IF Reporting(modes) /\ ~bypass THEN Capture(b)
       ELSE /\ selecting' = (b = "left" \/ selecting)
            /\ UNCHANGED <<pressModes, reported, lastCell, told>>
    /\ UNCHANGED <<modes, shown, pointer, motion, missed, turns>>

\* release_mouse_press: in the encoding of the press, on the last cell if need be.
\* mutant: in the modes of the moment
ReleaseNow(b) ==
    LET cell == IF InGrid(pointer) THEN pointer ELSE lastCell
        says == reported[b] /\ Encodable(cell, modes)
    IN /\ pressModes' = [pressModes EXCEPT ![b] = NoModes]
       /\ reported' = [reported EXCEPT ![b] = FALSE]
       /\ told' = IF says THEN [told EXCEPT ![b] = NoModes] ELSE told
       /\ missed' = IF reported[b] /\ cell = "far" /\ ~pressModes[b].sgr THEN missed \cup {b} ELSE missed
ReleaseCaptured(b) ==
    LET cell == IF InGrid(pointer) THEN pointer ELSE lastCell
        says == reported[b] /\ Encodable(cell, pressModes[b])
    IN /\ pressModes' = [pressModes EXCEPT ![b] = NoModes]
       /\ reported' = [reported EXCEPT ![b] = FALSE]
       /\ told' = IF says THEN [told EXCEPT ![b] = NoModes] ELSE told
       /\ missed' = IF reported[b] /\ ~says THEN missed \cup {b} ELSE missed

\* on_mouse_up, which is heard wherever the pointer is while the pane is shown
Release(b) ==
    /\ b \in held
    /\ held' = held \ {b}
    /\ IF ~shown THEN missed' = missed \cup {b} /\ UNCHANGED <<pressModes, reported, told, selecting>>
       ELSE IF Reporting(pressModes[b]) THEN ReleaseCaptured(b) /\ UNCHANGED selecting
       ELSE /\ selecting' = (selecting /\ b # "left")
            /\ UNCHANGED <<pressModes, reported, told, missed>>
    /\ UNCHANGED <<modes, shown, pointer, lastCell, motion, turns>>

\* Motion as on_mouse_move reports it, with the button its event names.
Reports(p, b) ==
    /\ Reporting(modes) /\ ~selecting /\ InGrid(p) /\ lastCell # p
    /\ modes.mouse = "drag" => b # None /\ reported[b]
    /\ modes.mouse \in {"drag", "motion"} /\ Encodable(p, modes)

Move(p) ==
    /\ shown /\ p # pointer
    /\ pointer' = p
    /\ \E b \in IF held = {} THEN {None} ELSE held:
           IF Reports(p, b) THEN lastCell' = p /\ motion' = [button |-> b, mode |-> modes.mouse]
           ELSE UNCHANGED <<lastCell, motion>>
    /\ UNCHANGED <<modes, shown, held, pressModes, reported, selecting, told, missed, turns>>

\* The program changes its modes, with any output.
ChangeModes(m) ==
    /\ turns.modes < MaxModes /\ turns' = [turns EXCEPT !.modes = @ + 1] /\ m # modes
    /\ modes' = m
    /\ UNCHANGED <<pointer, held, shown, pressModes, reported, lastCell, selecting, told, motion, missed>>

\* The tab is switched away and back: a hidden pane hears nothing.
Switch ==
    /\ turns.hides < 2 * MaxHides /\ turns' = [turns EXCEPT !.hides = @ + 1]
    /\ shown' = ~shown
    /\ UNCHANGED <<modes, pointer, held, pressModes, reported, lastCell, selecting, told, motion, missed>>

MouseNext ==
    \/ \E b \in Buttons, bypass \in BOOLEAN: Press(b, bypass)
    \/ \E b \in Buttons: Release(b)
    \/ \E p \in Positions: Move(p)
    \/ \E m \in MouseModes: ChangeModes(m)
    \/ Switch
-----------------------------------------------------------------------------
(* Properties.                                                             *)

\* No button stays down for the program once it is up, whatever the modes became in
\* between and wherever it was let go: unless the legacy reports cannot say the place,
\* or the pane was not on the screen (capture_mouse_press, release_mouse_press).
ButtonsLetGo == \A b \in Buttons: Reporting(told[b]) => b \in held \/ b \in missed

\* A drag the user makes ends with its button, and is never the program's as well.
DragIsOurs == selecting => ("left" \in held \/ "left" \in missed) /\ (Reporting(told["left"]) => "left" \in missed)

\* A program that asked for drags hears no motion with a button whose press it was not
\* told of.
MotionHeard == motion.mode = "drag" => motion.button # None

\* The mouse as a whole.
MouseSound == ButtonsLetGo /\ DragIsOurs /\ MotionHeard
=============================================================================
