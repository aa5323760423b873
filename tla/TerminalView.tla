---------------------------- MODULE TerminalView ----------------------------
(***************************************************************************)
(* The grid a terminal pane shows: the rows of its scrollback and screen,  *)
(* the viewport on them, the selection and the drag that makes it, the     *)
(* autoscroll past an edge, and the search bar                             *)
(* (crates/rulogman-app/src/terminal_view.rs, terminal_search.rs and the   *)
(* scrolling half of crates/rulogman-term/src/model.rs).                   *)
(*                                                                         *)
(* Rows are numbered from 1, the oldest one held, as the source numbers    *)
(* them from 0; a place is a row and a column.  Every row the emulator     *)
(* ever drew also has a number that never changes, its row plus dropped:   *)
(* the properties speak of those, the code never sees them.                *)
(***************************************************************************)
EXTENDS Integers, Sequences, FiniteSets

CONSTANTS
    Cols,        \* columns of the grid
    ScreenRows,  \* rows of the screen
    HistoryMax,  \* rows of scrollback held at most
    Characters,  \* of a row: a space, and others
    Writings,    \* what a row may hold: sequences of Cols characters
    Queries,     \* what may be typed into the search bar
    Takes,       \* the granularities of a drag
    FirstRows,   \* the rows held at first
    MaxOutput,   \* bound: rows the remote draws
    MaxDrags     \* bound: presses of the mouse

ASSUME ViewAssumption ==
    /\ Cols \in Nat \ {0} /\ ScreenRows \in Nat \ {0} /\ HistoryMax \in Nat
    /\ Writings \subseteq [1..Cols -> Characters] /\ Queries \subseteq Seq(Characters)
    /\ FirstRows \in Seq([1..Cols -> Characters]) /\ Len(FirstRows) - ScreenRows \in 0..HistoryMax
    /\ Takes \subseteq {"character", "word", "line"}

VARIABLES
    rows,        \* the rows held, oldest first: scrollback, then the screen
    drawn,       \* counts rows drawn
    drags,       \* counts presses
    dropped,     \* how many rows are gone: what row numbers have shifted by
    offset,      \* display_offset: how far up the viewport is pulled
    follows,     \* whether the pane follows a file, which may be filtered
    anchor,      \* the place the drag started on
    selection,   \* the selected range, its ends as they were made
    selecting,   \* whether a drag is in flight
    granularity, \* what a drag takes at a time
    dragAnchor,  \* the range the click itself took, of a word or row drag
    pointer,     \* where the drag's pointer is; its row may lie past an edge
    autoscroll,  \* whether the autoscroll's task runs
    bar,         \* the search bar: query, matches, current and dropped when they were found
    lost,        \* how often rows were lost without the view being told
    pressed,     \* what the click of the drag took, as it was seen
    swept        \* what the gesture that made the selection passed over, as it was seen

viewVars == <<rows, drawn, drags, dropped, offset, follows, anchor, selection, selecting, granularity,
              dragAnchor, pointer, autoscroll, bar, lost, pressed, swept>>
drag == <<anchor, selecting, granularity, dragAnchor, pointer, autoscroll, pressed, drags>>
buffer == <<rows, drawn, dropped, follows, lost>>

None == <<"none">>
NoBar == [query |-> None, matches |-> << >>, current |-> 0, dropped |-> 0]
NothingSeen == [range |-> None, lost |-> 0]
Place(l, c) == <<l, c>>
Blank == [c \in 1..Cols |-> " "]
ASSUME BlankAssumption == Blank \in [1..Cols -> Characters]
-----------------------------------------------------------------------------
(* The viewport.                                                           *)

History == Len(rows) - ScreenRows

\* viewport_top, counting the rows above the viewport.
Top(up) == History - up

\* mutant: a row of the screen is taken for a row of the buffer
AsSeen(cell, up) == Place(Top(0) + cell[1], cell[2])
\* to_absolute
Absolute(cell, up) == Place(Top(up) + cell[1], cell[2])

\* cell_at: clamped to the grid.
CellAt(p) == Place(IF p[1] < 1 THEN 1 ELSE IF p[1] > ScreenRows THEN ScreenRows ELSE p[1], p[2])

\* scroll_lines, clamped by the emulator.
Scrolled(delta) == IF offset + delta < 0 THEN 0 ELSE IF offset + delta > History THEN History ELSE offset + delta

Before(a, b) == a[1] < b[1] \/ (a[1] = b[1] /\ a[2] <= b[2])
Earlier(a, b) == IF Before(a, b) THEN a ELSE b
Later(a, b) == IF Before(a, b) THEN b ELSE a

\* The places of a set, in reading order.
InOrder(S) == [i \in 1..Cardinality(S) |-> CHOOSE m \in S: Cardinality({n \in S: Before(n, m)}) = i]

\* class_of
Class(c) == CASE c = " " -> "space" [] c = "-" -> "delimiter" [] OTHER -> "word"

\* word_span
RunIn(row, c) ==
    LET ofRun == {i \in 1..Cols: \A j \in (i..c) \cup (c..i): Class(row[j]) = Class(row[c])}
    IN IF Class(row[c]) = "delimiter" THEN <<c, c>>
       ELSE <<CHOOSE i \in ofRun: \A j \in ofRun: i <= j, CHOOSE i \in ofRun: \A j \in ofRun: i >= j>>

\* span_at, of a place of the buffer
SpanAt(g, at) ==
    CASE g = "character" -> None
      [] g = "word" -> LET run == RunIn(rows[at[1]], at[2])
                       IN <<Place(at[1], run[1]), Place(at[1], run[2])>>
      [] g = "line" -> <<Place(at[1], 1), Place(at[1], Cols)>>

Normalized == IF Before(selection[1], selection[2]) THEN selection ELSE <<selection[2], selection[1]>>
Merged(a, b) == <<Earlier(a[1], b[1]), Later(a[2], b[2])>>
-----------------------------------------------------------------------------
(* The selection.                                                          *)

\* The range between a drag's anchor and the cell its pointer is on.
\* mutant: dragging back gives up what the click took
HeadOnly(head) ==
    IF dragAnchor # None THEN <<Earlier(anchor, SpanAt(granularity, head)[1]), Later(anchor, SpanAt(granularity, head)[2])>>
    ELSE IF head = anchor THEN None ELSE <<anchor, head>>
Extended(head) ==
    IF dragAnchor # None THEN Merged(dragAnchor, SpanAt(granularity, head))
    ELSE IF head = anchor THEN None ELSE <<anchor, head>>

\* What a pointer is over as the user sees it, in lasting row numbers.
Under(g, p, up) ==
    LET row == rows[History - up + CellAt(p)[1]]
        seen == CASE g = "character" -> <<p[2], p[2]>> [] g = "word" -> RunIn(row, p[2]) [] OTHER -> <<1, Cols>>
        lasting == dropped + History - up + CellAt(p)[1]
    IN <<Place(lasting, seen[1]), Place(lasting, seen[2])>>

\* extend_selection, on the viewport as it is after the move.
Extend(p, up) ==
    /\ selection' = Extended(Absolute(CellAt(p), up))
    /\ swept' = [range |-> Merged(pressed.range, Under(granularity, p, up)), lost |-> pressed.lost]

EndDrag == selecting' = FALSE /\ pointer' = None /\ autoscroll' = FALSE

ViewInit ==
    /\ rows = FirstRows /\ drawn = 0 /\ drags = 0 /\ dropped = 0 /\ offset = 0 /\ lost = 0
    /\ follows \in BOOLEAN
    /\ anchor = None /\ selection = None /\ selecting = FALSE /\ granularity = "character"
    /\ dragAnchor = None /\ pointer = None /\ autoscroll = FALSE
    /\ bar = NoBar /\ pressed = NothingSeen /\ swept = NothingSeen

\* on_mouse_down, of the left button on a cell of the grid
MouseDown(p, g) ==
    LET cell == Absolute(p, offset)
    IN /\ ~selecting
       /\ drags < MaxDrags /\ drags' = drags + 1
       /\ granularity' = g
       /\ anchor' = cell
       /\ selecting' = TRUE
       /\ dragAnchor' = SpanAt(g, cell)
       /\ selection' = dragAnchor'
       /\ pointer' = p
       /\ autoscroll' = FALSE
       /\ pressed' = [range |-> Under(g, p, offset), lost |-> lost]
       /\ swept' = pressed'
       /\ UNCHANGED <<buffer, offset, bar>>

\* autoscroll_step
Step(p) == IF p[1] < 1 THEN 1 ELSE IF p[1] > ScreenRows THEN -1 ELSE 0

\* on_drag_move and watch_edges
DragMove(p) ==
    /\ selecting
    /\ pointer' = p
    /\ Extend(p, offset)
    /\ autoscroll' = (Step(p) # 0)
    /\ UNCHANGED <<buffer, offset, anchor, selecting, granularity, dragAnchor, pressed, drags, bar>>

\* autoscroll_tick
Tick ==
    /\ autoscroll /\ selecting
    /\ offset' = Scrolled(Step(pointer))
    /\ IF Step(pointer) = 0 THEN UNCHANGED <<selection, swept>> ELSE Extend(pointer, offset')
    /\ UNCHANGED <<buffer, drag, bar>>

\* on_scroll_wheel, past the mouse reports: a drag is extended by it too.
\* mutant: the wheel leaves a drag where it was
WheelAlone(delta) ==
    /\ offset' = Scrolled(delta)
    /\ swept' = IF selecting THEN [swept EXCEPT !.range = Merged(pressed.range, Under(granularity, pointer, offset'))] ELSE swept
    /\ UNCHANGED <<selection, buffer, drag, bar>>
Wheel(delta) ==
    /\ offset' = Scrolled(delta)
    /\ IF selecting THEN Extend(pointer, offset') ELSE UNCHANGED <<selection, swept>>
    /\ UNCHANGED <<buffer, drag, bar>>

\* scroll_locally: the paging keys, Home and End, and the dragged thumb
ScrollLocally(up) ==
    /\ offset' = up
    /\ UNCHANGED <<buffer, selection, drag, bar, swept>>

\* on_mouse_up
MouseUp ==
    /\ selecting
    /\ EndDrag
    /\ UNCHANGED <<buffer, offset, anchor, selection, granularity, dragAnchor, drags, bar, pressed, swept>>

\* select_visible
SelectVisible ==
    /\ EndDrag
    /\ anchor' = None /\ dragAnchor' = None
    /\ selection' = <<Absolute(Place(1, 1), offset), Absolute(Place(ScreenRows, Cols), offset)>>
    /\ swept' = [range |-> <<Under("line", Place(1, 1), offset)[1], Under("line", Place(ScreenRows, 1), offset)[2]>>, lost |-> lost]
    /\ UNCHANGED <<buffer, offset, granularity, drags, pressed, bar>>

\* What clear_scrollback and set_line_filter forget of the selection.
\* mutant: the drag goes on
ForgetSelection == selection' = None /\ UNCHANGED <<anchor, dragAnchor, selecting, pointer, autoscroll>>
Forget == EndDrag /\ anchor' = None /\ dragAnchor' = None /\ selection' = None

\* on_key_down and replace_text_in_range: typing takes the selection down.
Type ==
    /\ selection # None /\ ~follows
    /\ selection' = None
    /\ UNCHANGED <<buffer, offset, drag, bar, swept>>
-----------------------------------------------------------------------------
(* The search.                                                             *)

\* find_matches: in every row from its left, without overlaps.
MatchesIn(row, l, q) ==
    LET hits == {c \in 1..(Cols + 1 - Len(q)): SubSeq(row, c, c + Len(q) - 1) = q}
        taken == CHOOSE t \in SUBSET hits:
                     \A c \in hits: c \in t <=> \A d \in t: ~(d < c /\ c < d + Len(q))
    IN {<<l, c, c + Len(q) - 1>>: c \in taken}
FindMatches(held, q) ==
    IF q = << >> THEN << >> ELSE InOrder(UNION {MatchesIn(held[l], l, q): l \in DOMAIN held})

\* step; 0 is no match.
StepFrom(current, count, forward) ==
    IF count = 0 THEN 0
    ELSE IF current = 0 THEN count
    ELSE IF forward THEN (current % count) + 1 ELSE ((current + count - 2) % count) + 1

\* mutant: the viewport stays where it is
NoScroll(m, top, history, up) == up
\* The viewport that shows a match, a row of context beside it.
InView(m, top, history, up) ==
    LET moved == IF m[1] <= top THEN up + top - m[1] + 2
                 ELSE IF m[1] > top + ScreenRows THEN up - (m[1] + 1 - (top + ScreenRows))
                 ELSE up
    IN IF moved < 0 THEN 0 ELSE IF moved > history THEN history ELSE moved

\* show_current_match, in the rows held once the step is done: the match is selected
\* and brought into the viewport.
Show(b, held, up, otherwise) ==
    /\ bar' = b
    /\ IF b.current = 0 THEN offset' = up /\ selection' = otherwise.selection /\ swept' = otherwise.swept
       ELSE LET m == b.matches[b.current]
            IN /\ selection' = <<Place(m[1], m[2]), Place(m[1], m[3])>>
               /\ swept' = [range |-> <<Place(b.dropped + m[1], m[2]), Place(b.dropped + m[1], m[3])>>, lost |-> lost]
               /\ offset' = InView(m, Len(held) - ScreenRows - up, Len(held) - ScreenRows, up)
AsIs == [selection |-> selection, swept |-> swept]

\* refresh_search
Refreshed(held, gone, q) ==
    LET found == FindMatches(held, q)
    IN [query |-> q, matches |-> found, current |-> StepFrom(0, Len(found), FALSE), dropped |-> gone]

OpenSearch ==
    /\ bar = NoBar
    /\ bar' = [query |-> << >>, matches |-> << >>, current |-> 0, dropped |-> dropped]
    /\ UNCHANGED <<buffer, offset, selection, drag, swept>>

CloseSearch ==
    /\ bar # NoBar
    /\ bar' = NoBar
    /\ UNCHANGED <<buffer, offset, selection, drag, swept>>

\* The query is typed.
Search(q) ==
    /\ bar # NoBar /\ bar.query # q
    /\ Show(Refreshed(rows, dropped, q), rows, offset, AsIs)
    /\ UNCHANGED <<buffer, drag>>

\* find_step, to the match after or before the one selected, wherever it is now.
\* mutant: counted from the number it had
StepFromNumber(found, forward) == StepFrom(IF bar.current > Len(found) THEN 0 ELSE bar.current, Len(found), forward)
StepFromPlace(found, forward) ==
    LET same == {i \in DOMAIN found: bar.current # 0 /\ found[i] = bar.matches[bar.current]}
    IN StepFrom(IF same = {} THEN 0 ELSE CHOOSE i \in same: TRUE, Len(found), forward)
FindAmong(found, forward) ==
    /\ bar # NoBar
    /\ Show([bar EXCEPT !.matches = found, !.current = StepFromPlace(found, forward), !.dropped = dropped],
            rows, offset, AsIs)
    /\ UNCHANGED <<buffer, drag>>
Find(forward) == FindAmong(FindMatches(rows, bar.query), forward)
-----------------------------------------------------------------------------
(* What changes the rows.                                                  *)

Draw == drawn < MaxOutput /\ drawn' = drawn + 1 /\ UNCHANGED follows

\* The remote draws a row: the emulator scrolls, a viewport that was pulled up stays
\* on its rows while it can, and a full scrollback gives its oldest row up.
Output(text) ==
    LET full == History = HistoryMax
    IN /\ Draw
       /\ rows' = IF full THEN Append(Tail(rows), text) ELSE Append(rows, text)
       /\ dropped' = IF full THEN dropped + 1 ELSE dropped
       /\ lost' = IF full THEN lost + 1 ELSE lost
       /\ offset' = IF offset = 0 THEN 0 ELSE IF offset < HistoryMax THEN offset + 1 ELSE offset
       /\ UNCHANGED <<selection, drag, bar, swept>>

\* The remote writes over a row of the screen.
Overwrite(l, text) ==
    /\ ~follows /\ Draw
    /\ rows' = [rows EXCEPT ![History + l] = text]
    /\ UNCHANGED <<dropped, lost, offset, selection, drag, bar, swept>>

\* reset, on a reconnect: the view is not told.
Reset ==
    /\ Draw
    /\ rows' = [l \in 1..ScreenRows |-> Blank]
    /\ dropped' = dropped + Len(rows) /\ lost' = lost + 1
    /\ offset' = 0
    /\ UNCHANGED <<selection, drag, bar, swept>>

\* clear_scrollback
ClearScrollback ==
    /\ Forget
    /\ rows' = SubSeq(rows, History + 1, Len(rows))
    /\ dropped' = dropped + History
    /\ offset' = 0
    /\ UNCHANGED <<drawn, follows, lost, granularity, drags, bar, pressed, swept>>

\* set_line_filter: the rows that pass are drawn on an empty screen, and an open
\* search finds its matches in them.
Filtered(c) ==
    LET passing == InOrder({Place(l, 1): l \in {l \in DOMAIN rows: \E i \in 1..Cols: rows[l][i] = c}})
        shown == [i \in DOMAIN passing |-> rows[passing[i][1]]]
    IN shown \o [i \in 1..(IF Len(shown) < ScreenRows THEN ScreenRows - Len(shown) ELSE 0) |-> Blank]
SetLineFilter(c) ==
    /\ follows /\ Draw
    /\ rows' = Filtered(c)
    /\ dropped' = dropped + Len(rows)
    /\ EndDrag /\ anchor' = None /\ dragAnchor' = None
    /\ IF bar = NoBar THEN selection' = None /\ offset' = 0 /\ UNCHANGED <<bar, swept>>
       ELSE Show(Refreshed(Filtered(c), dropped', bar.query), Filtered(c), 0, [selection |-> None, swept |-> swept])
    /\ UNCHANGED <<lost, granularity, drags, pressed>>

Cells == {Place(l, c): l \in 1..ScreenRows, c \in 1..Cols}
Places == {Place(l, c): l \in 0..(ScreenRows + 1), c \in 1..Cols}
ViewNext ==
    \/ \E p \in Cells, g \in Takes: MouseDown(p, g)
    \/ \E p \in Places: DragMove(p)
    \/ Tick \/ MouseUp \/ SelectVisible \/ Type
    \/ \E delta \in {-1, 1}: Wheel(delta)
    \/ \E up \in 0..History: ScrollLocally(up)
    \/ OpenSearch \/ CloseSearch
    \/ \E q \in Queries: Search(q)
    \/ \E forward \in BOOLEAN: Find(forward)
    \/ \E text \in Writings: Output(text) \/ \E l \in 1..ScreenRows: Overwrite(l, text)
    \/ \E c \in {"x", "-"}: SetLineFilter(c)
    \/ Reset \/ ClearScrollback
-----------------------------------------------------------------------------
(* Properties.                                                             *)

ViewTypeOK ==
    /\ Len(rows) - ScreenRows \in 0..HistoryMax /\ offset \in 0..History
    /\ selecting => anchor # None /\ pointer \in Places
    /\ bar.current \in 0..Len(bar.matches)

\* A selection is on the rows the gesture that made it passed over, through output,
\* wheel, autoscroll, search and filter: unless rows were lost under it, which nobody
\* tells the view ("The one thing this does not survive is a scrollback that fills up").
SweptIsSelected ==
    selection # None /\ swept.lost = lost =>
        <<Place(Normalized[1][1] + dropped, Normalized[1][2]), Place(Normalized[2][1] + dropped, Normalized[2][2])>> = swept.range

\* The match after, or before, the one at m in reading order, around the ends.
NextOf(found, m, forward) ==
    LET beyond == {i \in DOMAIN found: IF forward THEN ~Before(found[i], m) ELSE ~Before(m, found[i])}
        ends == IF beyond = {} THEN DOMAIN found ELSE beyond
    IN IF forward THEN found[CHOOSE i \in ends: \A j \in ends: i <= j]
       ELSE found[CHOOSE i \in ends: \A j \in ends: i >= j]

\* A step of a search that had selected the match at m takes the next one from there,
\* as long as that match is still there.
StepsFrom(m) ==
    UNCHANGED <<buffer, drag, bar.query>> =>
        LET found == FindMatches(rows, bar.query)
        IN \A forward \in BOOLEAN: FindAmong(found, forward) /\ (\E i \in DOMAIN found: found[i] = m) => bar'.matches[bar'.current] = NextOf(found, m, forward)

\* A match that was just selected is on the screen.
ShownInView ==
    bar' # bar /\ bar'.current # 0 =>
        LET l == bar'.matches[bar'.current][1]
        IN l > Len(rows') - ScreenRows - offset' /\ l <= Len(rows') - offset'

\* Stepping through the matches visits them in order from the one selected, whatever
\* was drawn over or added in between, and shows each; where no row was dropped
\* meanwhile (find_step, show_current_match).
StepsOn ==
    [][/\ bar.current # 0 /\ bar.dropped = dropped => StepsFrom(bar.matches[bar.current])
       /\ ShownInView]_viewVars

\* "output arriving in between -- which moves every match, and can drop some off the top
\* of a full scrollback -- does not make it jump": the comment of find_step.
NeverJumps ==
    [][bar.current # 0 /\ bar.matches[bar.current][1] + bar.dropped > dropped =>
           StepsFrom([bar.matches[bar.current] EXCEPT ![1] = @ + bar.dropped - dropped])]_viewVars
=============================================================================
